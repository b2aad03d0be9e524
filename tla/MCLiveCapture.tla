---------------------------- MODULE MCLiveCapture ----------------------------
(***************************************************************************)
(* A small instance of LiveCapture: a Group with a Post and a Comment, a   *)
(* full rendering, one that lost the Comment, one of the same Post and     *)
(* Comment under another Group row, and a drifted layout.                  *)
(***************************************************************************)
EXTENDS LiveCapture, TLC

CONSTANTS slug, number, post, comment, full, short, other, drifted,
          Slugged,  \* jobs whose target is the Group's slug
          Numbered  \* jobs whose target is its number

MCRecords == {slug, number, post, comment}
MCDrift == Bytes \cap {drifted}
MCLevel == [r \in MCRecords |-> IF r = comment THEN 2 ELSE IF r = post THEN 1 ELSE 0]
MCGroupOf == [b \in Bytes |-> IF b = other THEN number ELSE slug]
MCParent == [b \in Bytes |->
  [r \in MCRecords |-> IF r = comment THEN post ELSE MCGroupOf[b]]]
MCContent == [b \in Bytes |->
  IF b = drifted THEN {}
  ELSE {MCGroupOf[b], post} \cup IF b = short THEN {} ELSE {comment}]
MCTarget == [j \in Jobs |-> IF j \in Numbered THEN number ELSE slug]
MCJobs == Slugged \cup Numbered

(* Jobs of one target are interchangeable; the
   shared-group run has no liveness property. *)
JobSymmetry == Permutations(Slugged)
=============================================================================
