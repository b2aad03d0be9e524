---------------------------- MODULE OperatorBatch ----------------------------
(***************************************************************************)
(* OperatorBatchWorkflow.run (src/src/app/workflows/operator_batch.py):    *)
(* one worker captures up to ten Groups in order and writes, after each,   *)
(* the receipt and then the identifier sidecar, two files in two           *)
(* directories.  A later run resumes from the two files.                   *)
(*                                                                         *)
(* Every file replacement is one action (_atomic_write); the process may   *)
(* die, or a replacement may fail, between any two actions.                *)
(***************************************************************************)
EXTENDS Naturals, Sequences

CONSTANTS
  Targets,      \* target keys
  TargetLists,  \* the ordered target lists discovery may return
  Values,       \* identifier sets a capture may return
  NoFile,       \* the file does not exist
  MaxRuns       \* bound on the number of runs

(* What a sidecar may hold. *)
Sidecars ==
  [targets : TargetLists, values : UNION {[some -> Values] : some \in SUBSET Targets}]

(* _ordered_targets: between one and ten targets, sorted, none twice; no
   sidecar is taken for a missing one. *)
ASSUME BatchAssumption ==
  /\ \A list \in TargetLists :
       /\ list \in Seq(Targets) /\ Len(list) \in 1..10
       /\ \A m, n \in 1..Len(list) : list[m] = list[n] => m = n
  /\ MaxRuns \in Nat
  /\ NoFile \notin Sidecars

VARIABLES
  receipt,  \* phase4g-batch.json: target_keys, groups and state
  sidecar,  \* phase4g-identifiers.json: target_keys and identifiers
  pc,       \* where the running process is ("idle": no process runs)
  keys,     \* its target keys
  prev,     \* the results it resumes from, by target
  groups,   \* the results of this run so far
  values,   \* _identifier_values: identifier sets by target
  after,    \* what follows the write of the progress
  runs      \* runs started so far

files == <<receipt, sidecar>>
memory == <<keys, prev, groups, values, after>>
vars == <<files, pc, memory, runs>>

GroupStates == {"succeeded", "incomplete", "failed", "stopped"}
(* OperatorBatchGroupResult; value stands for the identifier count and hash of
   a success. *)
Success(t, attempts, v) ==
  [target |-> t, state |-> "succeeded", attempts |-> attempts, value |-> v]
Terminal(t, attempts, state) ==
  [target |-> t, state |-> state, attempts |-> attempts, value |-> NoFile]
Results == [target : Targets, state : GroupStates, attempts : Nat,
            value : Values \cup {NoFile}]

Empty == <<>>
Set(f, k, v) == [x \in DOMAIN f \cup {k} |-> IF x = k THEN v ELSE f[x]]
Entries(list) == {list[n] : n \in DOMAIN list}

-----------------------------------------------------------------------------
(* A succeeded Group's identifiers are in the state, with its count and hash. *)
Backed(entry, state) ==
  entry.state = "succeeded" =>
    entry.target \in DOMAIN state /\ state[entry.target] = entry.value

(* Mutant of Accepts: the sidecar is not compared with the receipt. *)
AcceptsUnchecked(list) ==
  /\ receipt # NoFile /\ receipt.targets = list
  /\ sidecar # NoFile /\ sidecar.targets = list
(* _previous and _load_identifier_state: what a resume accepts. *)
Accepts(list) ==
  /\ receipt # NoFile /\ receipt.targets = list
  /\ sidecar # NoFile /\ sidecar.targets = list
  /\ \A n \in DOMAIN receipt.groups : Backed(receipt.groups[n], sidecar.values)

(* The results of a receipt by target. *)
ByTarget(list) ==
  [t \in {e.target : e \in Entries(list)} |-> CHOOSE e \in Entries(list) : e.target = t]

(* Every turn of the loop appends one result, so this is the turn's target. *)
Current == keys[Len(groups) + 1]
Known == Current \in DOMAIN prev

(* Mutant of Attempts: the attempts of an earlier run are forgotten. *)
AttemptsReset == 1
Attempts == IF Known THEN prev[Current].attempts + 1 ELSE 1

(* The process is gone: its memory is lost, the files stay. *)
Exit == /\ pc' = "idle"
        /\ prev' = Empty
        /\ groups' = <<>>
        /\ values' = Empty
        /\ after' = "loop"
        /\ UNCHANGED <<keys, runs>>

Init ==
  /\ receipt = NoFile
  /\ sidecar = NoFile
  /\ pc = "idle"
  /\ keys \in TargetLists
  /\ prev = Empty
  /\ groups = <<>>
  /\ values = Empty
  /\ after = "loop"
  /\ runs = 0

(* run(resume=False): nothing is known, and empty progress is written first. *)
Fresh(list) ==
  /\ pc = "idle"
  /\ runs < MaxRuns
  /\ keys' = list
  /\ pc' = "receipt"
  /\ runs' = runs + 1
  /\ UNCHANGED <<files, prev, groups, values, after>>

(* run(resume=True) of files that are accepted; others raise ValueError. *)
Resume(list) ==
  /\ pc = "idle"
  /\ runs < MaxRuns
  /\ Accepts(list)
  /\ keys' = list
  /\ prev' = ByTarget(receipt.groups)
  /\ values' = sidecar.values
  /\ pc' = "loop"
  /\ runs' = runs + 1
  /\ UNCHANGED <<files, groups, after>>

(* Mutant of Keep: a stopped Group does not end the resumed run. *)
KeepPastStopped ==
  /\ pc = "loop"
  /\ Len(groups) < Len(keys)
  /\ Known /\ prev[Current].state # "incomplete"
  /\ groups' = Append(groups, prev[Current])
  /\ UNCHANGED <<files, pc, keys, prev, values, after, runs>>
(* A Group an earlier run settled is carried over without a write; a stopped
   one ends the run. *)
Keep ==
  /\ pc = "loop"
  /\ Len(groups) < Len(keys)
  /\ Known /\ prev[Current].state # "incomplete"
  /\ groups' = Append(groups, prev[Current])
  /\ pc' = IF prev[Current].state = "stopped" THEN "finish" ELSE "loop"
  /\ UNCHANGED <<files, keys, prev, values, after, runs>>

(* capture_one is called for a new or incomplete Group. *)
Captures ==
  /\ pc = "loop"
  /\ Len(groups) < Len(keys)
  /\ Known => prev[Current].state = "incomplete"
  /\ pc' = "receipt"

(* Mutant of CaptureSucceeds: the identifiers are not remembered. *)
CaptureForgets(v) ==
  /\ Captures
  /\ groups' = Append(groups, Success(Current, Attempts, v))
  /\ after' = "loop"
  /\ UNCHANGED <<files, keys, prev, values, runs>>
(* capture_one returns the identifier set v. *)
CaptureSucceeds(v) ==
  /\ Captures
  /\ groups' = Append(groups, Success(Current, Attempts, v))
  /\ values' = Set(values, Current, v)
  /\ after' = "loop"
  /\ UNCHANGED <<files, keys, prev, runs>>

(* It raises: a recoverable error leaves the Group incomplete and any other one
   failed, and the run goes on; a stop, a browser state or an unsupported
   layout ends it; Ctrl-C is raised again after the progress is written. *)
CaptureRaises ==
  /\ Captures
  /\ \E outcome \in {<<"incomplete", "loop">>, <<"failed", "loop">>,
                     <<"stopped", "finish">>, <<"incomplete", "raise">>} :
       /\ groups' = Append(groups, Terminal(Current, Attempts, outcome[1]))
       /\ after' = outcome[2]
  /\ UNCHANGED <<files, keys, prev, values, runs>>

Progress(state) == [targets |-> keys, groups |-> groups, state |-> state]
(* The identifier state written: the sets of this run's targets. *)
Identifiers ==
  [targets |-> keys,
   values |-> [t \in DOMAIN values \cap Entries(keys) |-> values[t]]]

(* _write_progress replaces the receipt, then the sidecar. *)
WriteReceipt ==
  /\ pc = "receipt"
  /\ receipt' = Progress("running")
  /\ pc' = "sidecar"
  /\ UNCHANGED <<sidecar, memory, runs>>

(* Mutant of WriteSidecar: the sidecar is written once, at the start. *)
WriteSidecarOnce ==
  /\ pc = "sidecar"
  /\ sidecar' = IF groups = <<>> THEN Identifiers ELSE sidecar
  /\ IF after = "raise" THEN Exit
     ELSE pc' = after /\ UNCHANGED <<memory, runs>>
  /\ UNCHANGED receipt
(* Mutant of WriteSidecar: the interrupt is swallowed once it is recorded. *)
WriteSidecarSwallows ==
  /\ pc = "sidecar"
  /\ sidecar' = Identifiers
  /\ pc' = after
  /\ UNCHANGED <<receipt, memory, runs>>
WriteSidecar ==
  /\ pc = "sidecar"
  /\ sidecar' = Identifiers
  /\ IF after = "raise" THEN Exit
     ELSE pc' = after /\ UNCHANGED <<memory, runs>>
  /\ UNCHANGED receipt

(* _write_result: the final receipt, which the sidecar already matches. *)
Finish ==
  /\ \/ pc = "finish"
     \/ pc = "loop" /\ Len(groups) = Len(keys)
  /\ receipt' = Progress(IF \E e \in Entries(groups) : e.state = "stopped"
                         THEN "stopped" ELSE "completed")
  /\ Exit
  /\ UNCHANGED sidecar

(* The process is killed, or a replacement fails, and nothing more is written. *)
Die ==
  /\ pc # "idle"
  /\ Exit
  /\ UNCHANGED files

Next == \/ \E list \in TargetLists : Fresh(list) \/ Resume(list)
        \/ Keep
        \/ \E v \in Values : CaptureSucceeds(v)
        \/ CaptureRaises \/ WriteReceipt \/ WriteSidecar \/ Finish \/ Die

Spec == Init /\ [][Next]_vars

-----------------------------------------------------------------------------
(* f maps some of the targets to elements of S. *)
MapsInto(f, S) == DOMAIN f \subseteq Targets /\ f \in [DOMAIN f -> S]

(* Every variable stays in its type. *)
TypeOK ==
  /\ receipt = NoFile \/
       /\ receipt.targets \in TargetLists
       /\ receipt.groups \in Seq(Results)
       /\ receipt.state \in {"running", "stopped", "completed"}
  /\ sidecar = NoFile \/
       /\ sidecar.targets \in TargetLists
       /\ MapsInto(sidecar.values, Values)
  /\ pc \in {"idle", "loop", "receipt", "sidecar", "finish"}
  /\ keys \in TargetLists
  /\ MapsInto(prev, Results)
  /\ groups \in Seq(Results) /\ Len(groups) <= Len(keys)
  /\ MapsInto(values, Values)
  /\ after \in {"loop", "finish", "raise"}
  /\ runs \in 0..MaxRuns

Succeeded(list) == {e \in Entries(list) : e.state = "succeeded"}

(* A list of results covers the targets from the first on, in order, and
   nothing follows a stopped Group. *)
Covers(list, targets) ==
  /\ Len(list) <= Len(targets)
  /\ \A n \in DOMAIN list : /\ list[n].target = targets[n]
                            /\ list[n].state = "stopped" => n = Len(list)

(* Whatever runs wrote the receipt, it lists the targets in order from the
   first one on, without a gap or a duplicate, and nothing was captured after a
   stop; a final receipt leaves no target out. *)
ReceiptIsPrefix ==
  receipt # NoFile =>
    /\ Covers(receipt.groups, receipt.targets)
    /\ receipt.state = "completed" => Len(receipt.groups) = Len(receipt.targets)
    /\ receipt.state = "stopped" => receipt.groups[Len(receipt.groups)].state = "stopped"

(* A death between the two replacements costs the identifiers of one Group at
   most: every success of the receipt but the last result has its identifiers
   in the sidecar. *)
OnlyLastUnbacked ==
  receipt # NoFile /\ receipt.groups # <<>> =>
    /\ sidecar # NoFile /\ sidecar.targets = receipt.targets
    /\ \A n \in 1..(Len(receipt.groups) - 1) : Backed(receipt.groups[n], sidecar.values)

(* A run that ended by itself, even by a stop, can be resumed: no later run of
   the same targets is turned away. *)
FinishedIsResumable ==
  receipt # NoFile /\ receipt.state # "running" /\ pc = "idle" => Accepts(receipt.targets)

(* Generations are not mixed: each success the process reports, of this run or
   of an earlier one, has the very identifiers its capture returned. *)
IdentifiersMatch ==
  /\ \A e \in Succeeded(groups) : Backed(e, values)
  /\ \A t \in DOMAIN prev : Backed(prev[t], values)

(* A resumed run that comes to its end keeps every success it started from, with
   the same identifiers, and counts one more attempt of each incomplete Group. *)
FinishKeepsCompleted ==
  [][Finish /\ receipt'.state = "completed" =>
       \A t \in DOMAIN prev : \E e \in Entries(receipt'.groups) :
         /\ e.target = t
         /\ IF prev[t].state = "incomplete" THEN e.attempts = prev[t].attempts + 1
            ELSE e = prev[t]]_vars

(* "preserve completed Groups, and resume incomplete Groups only"
   (src/docs/phase-4/PHASE_4_ONE_SHOT_THREAD_PM_PLAN.md:116): a Group the
   receipt records as succeeded stays so until a fresh run empties it. *)
CompletedStays ==
  [][receipt # NoFile /\ receipt'.groups # <<>> =>
       Succeeded(receipt.groups) \subseteq Succeeded(receipt'.groups)]_receipt
=============================================================================
