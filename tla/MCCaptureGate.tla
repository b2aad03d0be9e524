---------------------------- MODULE MCCaptureGate ----------------------------
(***************************************************************************)
(* A small instance of CaptureGate: processes, jobs and Groups are         *)
(* interchangeable.                                                        *)
(***************************************************************************)
EXTENDS CaptureGate, TLC

Symmetry == Permutations(Procs) \cup Permutations(Jobs) \cup Permutations(Groups)

(* A new output directory: every job is one that a capture command started. *)
FreshSpec == Spec /\ job = [j \in Jobs |-> "absent"]
=============================================================================
