------------------------------ MODULE FixtureBatch ------------------------------
(***************************************************************************)
(* The fixture workflows: FixtureWorkflow.run and replay                    *)
(* (src/src/app/workflows/fixture_run.py) and the batch over a directory of *)
(* fixture files (src/src/app/workflows/batch_run.py).  A run's id is the   *)
(* digest of the file, so a fixture collected again meets its own rows.     *)
(*                                                                         *)
(* One process runs batches, others replay stored captures over the same    *)
(* database; the operator may change the files.  Every transaction, file    *)
(* read and file write is a step, and a process may end between any two.    *)
(* The five exports are one file here (Delivery has them).                  *)
(***************************************************************************)
EXTENDS Integers, Sequences

CONSTANTS
  Captures,   \* fixture contents, named by their digest
  Entities,   \* canonical ids of Groups, Posts and Comments
  Content,    \* the records of each capture, parents first, with observed_at;
              \* empty if it does not parse
  Files,      \* fixtures in the directory, in the order of their names
  Batcher,    \* the process that runs batches
  Replayers,  \* processes that run `replay`
  MaxRuns, MaxReplays, MaxEdits, \* bounds
  MaxDeaths,  \* of deaths, and of errors that nothing here foretells
  None,       \* no receipt, no capture
  Torn        \* a receipt that was opened for writing
ASSUME FixtureAssumption ==
  /\ Content \in [Captures -> Seq([entity : Entities, time : Nat])]
  /\ Files \in 1..10 /\ Batcher \notin Replayers /\ None \notin Captures
  /\ {MaxRuns, MaxReplays, MaxEdits, MaxDeaths} \subseteq Nat

VARIABLES
  folder,    \* what each fixture file contains
  stored,    \* captures whose raw file exists
  metadata,  \* captures with a raw_captures row
  saved,     \* canonical rows: the time and the capture of each entity
  job, task, \* state per capture ("none": no row)
  failures,  \* captures with an attempt and a failure row
  exported,  \* "none", "torn" while it is written or left half written, "whole"
  spoiled,   \* captures whose latest export was cut off, or overlapped by another
  receipt,   \* phase2-batch.json: None, Torn, or its state and groups, and
             \* whether what they report is edited (history)
  pc, doing, \* what each process does, on which capture
  next,      \* the record it saves next
  broken,    \* a database error is passing through it
  previous,  \* the batch: results it resumes from
  groups,    \* results of this pass
  digest,    \* digest of the file it works on
  began,     \* the directory when the latest batch began
  edited,    \* a file changed while this batch, or one it builds on, ran
  finished,  \* the latest batch has ended by itself, and not edited
  count      \* runs, replays, edits and deaths so far

rows == <<metadata, saved, job, task, failures>>
artifacts == <<stored, exported, spoiled, receipt>>
batch == <<previous, groups, digest, began, finished>>
vars == <<folder, rows, artifacts, pc, doing, next, broken, batch, edited, count>>

Procs == {Batcher} \cup Replayers
Names == 1..Files
NoRow == [time |-> -1, by |-> None]
JobStates == {"none", "planned", "running", "succeeded", "failed"}
Running == pc[Batcher] # "idle"

Init ==
  /\ folder \in [Names -> Captures]
  /\ stored = {} /\ metadata = {} /\ saved = [e \in Entities |-> NoRow]
  /\ job = [f \in Captures |-> "none"] /\ task = [f \in Captures |-> "none"]
  /\ failures = {} /\ exported = [f \in Captures |-> "none"]
  /\ spoiled = {} /\ receipt = None
  /\ pc = [p \in Procs |-> "idle"] /\ doing = [p \in Procs |-> None]
  /\ next = [p \in Procs |-> 1] /\ broken = [p \in Procs |-> FALSE]
  /\ previous = <<>> /\ groups = <<>> /\ digest = None
  /\ began = folder /\ edited = FALSE /\ finished = FALSE
  /\ count = [runs |-> 0, replays |-> 0, edits |-> 0, deaths |-> 0]

Goto(p, step) == pc' = [pc EXCEPT ![p] = step]
Count(what) == count' = [count EXCEPT ![what] = @ + 1]
(* The process has no capture in hand any more. *)
Drops(p, step) ==
  /\ Goto(p, step) /\ doing' = [doing EXCEPT ![p] = None]
  /\ next' = [next EXCEPT ![p] = 1] /\ broken' = [broken EXCEPT ![p] = FALSE]

(* The process is gone, and its memory with it. *)
Leaves(p) ==
  /\ Drops(p, "idle")
  /\ IF p = Batcher THEN previous' = <<>> /\ groups' = <<>> /\ digest' = None
     ELSE UNCHANGED <<previous, groups, digest>>

-----------------------------------------------------------------------------
(* BatchFixtureWorkflow. *)

(* run: a resumed batch reads the receipt, and raises if it cannot. *)
StartBatch(resume) ==
  /\ ~Running /\ count.runs < MaxRuns
  /\ resume => receipt # Torn
  /\ previous' = IF resume /\ receipt # None THEN receipt.groups ELSE <<>>
  /\ began' = folder /\ finished' = FALSE
  /\ edited' = (resume /\ receipt # None /\ receipt.edited)
  /\ Goto(Batcher, "file") /\ Count("runs")
  /\ UNCHANGED <<folder, rows, artifacts, doing, next, broken, groups, digest>>

File == Len(groups) + 1
Existing == {k \in DOMAIN previous : previous[k].name = File}
(* Mutant of Kept: the digest is not compared. *)
KeptChanged == {k \in Existing : previous[k].state = "succeeded"}
Kept == {k \in Existing : previous[k].state = "succeeded" /\ previous[k].digest = folder[File]}
(* Mutant of Attempts: counted twice. *)
AttemptsTwice ==
  IF Existing = {} THEN 1 ELSE 2 + previous[CHOOSE k \in Existing : TRUE].attempts
Attempts == IF Existing = {} THEN 1 ELSE 1 + previous[CHOOSE k \in Existing : TRUE].attempts

(* A success of the same bytes is taken over, without a progress receipt. *)
Keep ==
  /\ pc[Batcher] = "file" /\ File <= Files
  /\ \E k \in Kept : groups' = Append(groups, previous[k])
  /\ UNCHANGED <<folder, rows, artifacts, pc, doing, next, broken, previous, digest, began,
                 finished, edited, count>>
(* Otherwise it is collected; run reads the file once more. *)
Take ==
  /\ pc[Batcher] = "file" /\ File <= Files /\ Kept = {}
  /\ digest' = folder[File]
  /\ Goto(Batcher, "read")
  /\ UNCHANGED <<folder, rows, artifacts, doing, next, broken, previous, groups, began,
                 finished, edited, count>>

Entry(state, run) ==
  [name |-> File, digest |-> digest, state |-> state, run |-> run, attempts |-> Attempts]
(* The workflow returns, or raises what the batch isolates. *)
Returns(p, state) ==
  IF p = Batcher
    THEN /\ groups' = Append(groups, Entry(state, IF state = "succeeded" THEN doing[p] ELSE None))
         /\ digest' = None
         /\ Drops(p, "progress") /\ UNCHANGED <<previous, began, finished>>
    ELSE Drops(p, "idle") /\ UNCHANGED batch

(* _write_progress, _write_result: the receipt is truncated, then written. *)
Truncate ==
  /\ \/ pc[Batcher] = "progress" /\ Goto(Batcher, "write")
     \/ pc[Batcher] = "file" /\ File > Files /\ Goto(Batcher, "final")
  /\ receipt' = Torn
  /\ UNCHANGED <<folder, rows, stored, exported, spoiled, doing, next, broken, batch, edited,
                 count>>
WriteProgress ==
  /\ pc[Batcher] = "write"
  /\ receipt' = [state |-> "running", groups |-> groups, edited |-> edited]
  /\ Goto(Batcher, "file")
  /\ UNCHANGED <<folder, rows, stored, exported, spoiled, doing, next, broken, batch, edited,
                 count>>
WriteResult ==
  /\ pc[Batcher] = "final"
  /\ receipt' = [state |-> "completed", groups |-> groups, edited |-> edited]
  /\ finished' = ~edited
  /\ Leaves(Batcher)
  /\ UNCHANGED <<folder, rows, stored, exported, spoiled, began, edited, count>>

-----------------------------------------------------------------------------
(* FixtureWorkflow. *)

(* run: the bytes are read and stored before they are parsed. *)
ReadFixture ==
  /\ pc[Batcher] = "read"
  /\ doing' = [doing EXCEPT ![Batcher] = folder[File]]
  /\ stored' = stored \cup {folder[File]}
  /\ Goto(Batcher, "parse")
  /\ UNCHANGED <<folder, rows, exported, spoiled, receipt, next, broken, batch, edited, count>>
(* replay: a capture with a row, whose file is verified. *)
StartReplay(p, f) ==
  /\ pc[p] = "idle" /\ f \in metadata \cap stored /\ count.replays < MaxReplays
  /\ doing' = [doing EXCEPT ![p] = f]
  /\ Goto(p, "parse") /\ Count("replays")
  /\ UNCHANGED <<folder, rows, artifacts, next, broken, batch, edited>>

Parse(p) ==
  /\ pc[p] = "parse" /\ Content[doing[p]] # <<>>
  /\ Goto(p, "metadata")
  /\ UNCHANGED <<folder, rows, artifacts, doing, next, broken, batch, edited, count>>
ParseFails(p) ==
  /\ pc[p] = "parse" /\ Content[doing[p]] = <<>>
  /\ Returns(p, "failed")
  /\ UNCHANGED <<folder, rows, artifacts, edited, count>>

(* _persist, one transaction after the other. *)
AddMetadata(p) ==
  /\ pc[p] = "metadata"
  /\ metadata' = metadata \cup {doing[p]}
  /\ Goto(p, "job")
  /\ UNCHANGED <<folder, saved, job, task, failures, artifacts, doing, next, broken, batch,
                 edited, count>>
(* The state is read, a missing job created; two processes that both miss it
   are left to Die, for the second insertion's error is not handled. *)
CreateJob(p) ==
  /\ pc[p] = "job"
  /\ job' = [job EXCEPT ![doing[p]] = IF @ = "none" THEN "planned" ELSE @]
  /\ Goto(p, IF job'[doing[p]] = "planned" THEN "start" ELSE "task")
  /\ UNCHANGED <<folder, metadata, saved, task, failures, artifacts, doing, next, broken,
                 batch, edited, count>>
(* A transition another process made first is an InvalidStateTransition. *)
Transition(p, step, from, to, then) ==
  /\ pc[p] = step
  /\ IF job[doing[p]] = from
       THEN /\ job' = [job EXCEPT ![doing[p]] = to]
            /\ Goto(p, then) /\ UNCHANGED <<doing, next, broken, batch>>
       ELSE Returns(p, "failed") /\ UNCHANGED job
  /\ UNCHANGED <<folder, metadata, saved, task, failures, artifacts, edited, count>>
StartJob(p) == Transition(p, "start", "planned", "running", "task")
(* INSERT OR IGNORE of the task and of its checkpoint. *)
InsertTask(p) ==
  /\ pc[p] = "task"
  /\ task' = [task EXCEPT ![doing[p]] = IF @ = "none" THEN "running" ELSE @]
  /\ Goto(p, "save")
  /\ UNCHANGED <<folder, metadata, saved, job, failures, artifacts, doing, next, broken,
                 batch, edited, count>>

Records(p) == Content[doing[p]]
Record(p) == Records(p)[next[p]]
(* _guard_current_record: newer, or the same observation again. *)
Acceptable(p) ==
  LET row == saved[Record(p).entity]
  IN Record(p).time > row.time \/ (Record(p).time = row.time /\ row.by = doing[p])
Save(p) ==
  /\ pc[p] = "save" /\ next[p] <= Len(Records(p)) /\ Acceptable(p)
  /\ saved' = [saved EXCEPT ![Record(p).entity] = [time |-> Record(p).time, by |-> doing[p]]]
  /\ next' = [next EXCEPT ![p] = @ + 1]
  /\ UNCHANGED <<folder, metadata, job, task, failures, artifacts, pc, doing, broken, batch,
                 edited, count>>
(* StaleObservation or ObservationConflict; or a row of another parent
   (CanonicalIdentityConflict), or a database error, which alone the batch does
   not isolate. *)
SaveFails(p) ==
  /\ pc[p] = "save" /\ next[p] <= Len(Records(p))
  /\ \/ ~Acceptable(p) /\ UNCHANGED <<broken, count>>
     \/ /\ count.deaths < MaxDeaths /\ Count("deaths")
        /\ broken' \in {broken, [broken EXCEPT ![p] = TRUE]}
  /\ Goto(p, "mark")
  /\ UNCHANGED <<folder, rows, artifacts, doing, next, batch, edited>>
(* _mark_failed: the task, its attempt and its failure at once, then the job. *)
MarkFailed(p) ==
  /\ pc[p] = "mark"
  /\ task' = [task EXCEPT ![doing[p]] = "failed"]
  /\ failures' = failures \cup {doing[p]}
  /\ Goto(p, "fail")
  /\ UNCHANGED <<folder, metadata, saved, job, artifacts, doing, next, broken, batch,
                 edited, count>>
FailJob(p) ==
  /\ pc[p] = "fail"
  /\ job' = [job EXCEPT ![doing[p]] = IF @ = "running" THEN "failed" ELSE @]
  /\ IF broken[p] THEN Leaves(p) /\ UNCHANGED <<began, finished>> ELSE Returns(p, "failed")
  /\ UNCHANGED <<folder, metadata, saved, task, failures, artifacts, edited, count>>

(* Mutant of Saved: the loop ends with the Group. *)
SavedGroup(p) == next[p] > 1
Saved(p) == next[p] > Len(Records(p))
FinishTask(p) ==
  /\ pc[p] = "save" /\ Saved(p)
  /\ task' = [task EXCEPT ![doing[p]] = "succeeded"]
  /\ Goto(p, "finish")
  /\ UNCHANGED <<folder, metadata, saved, job, failures, artifacts, doing, next, broken,
                 batch, edited, count>>
(* A job that is running is closed; one that has ended stays as it is. *)
CheckJob(p) ==
  /\ pc[p] = "finish"
  /\ Goto(p, IF job[doing[p]] = "running" THEN "close" ELSE "export")
  /\ UNCHANGED <<folder, rows, artifacts, doing, next, broken, batch, edited, count>>
CloseJob(p) == Transition(p, "close", "running", "succeeded", "export")

(* The exports are truncated and written in place.  One that others overlap may
   leave them, or their hashes, half written. *)
Exporters(f) == {p \in Procs : pc[p] = "exporting" /\ doing[p] = f}
BeginExport(p) ==
  /\ pc[p] = "export"
  /\ exported' = [exported EXCEPT ![doing[p]] = "torn"]
  /\ spoiled' = IF Exporters(doing[p]) = {} THEN spoiled \ {doing[p]}
                ELSE spoiled \cup {doing[p]}
  /\ Goto(p, "exporting")
  /\ UNCHANGED <<folder, rows, stored, receipt, doing, next, broken, batch, edited, count>>
EndExport(p) ==
  /\ pc[p] = "exporting"
  /\ \E left \in {"torn", "whole"} :
       /\ left = "torn" => doing[p] \in spoiled
       /\ left = "whole" => Exporters(doing[p]) = {p}
       /\ exported' = [exported EXCEPT ![doing[p]] = left]
  /\ Returns(p, "succeeded")
  /\ UNCHANGED <<folder, rows, stored, spoiled, receipt, edited, count>>
(* A file cannot be written: an OSError, which the batch isolates. *)
ExportFails(p) ==
  /\ pc[p] = "exporting" /\ count.deaths < MaxDeaths
  /\ Count("deaths")
  /\ spoiled' = spoiled \cup {doing[p]}
  /\ Returns(p, "failed")
  /\ UNCHANGED <<folder, rows, stored, exported, receipt, edited>>

-----------------------------------------------------------------------------
(* The process dies, or an exception that nobody handles ends it. *)
Die(p) ==
  /\ pc[p] # "idle" /\ count.deaths < MaxDeaths
  /\ Count("deaths")
  /\ Leaves(p)
  /\ spoiled' = IF pc[p] = "exporting" THEN spoiled \cup {doing[p]} ELSE spoiled
  /\ UNCHANGED <<folder, rows, stored, exported, receipt, began, finished, edited>>
(* The operator changes a fixture. *)
Edit(n, f) ==
  /\ count.edits < MaxEdits /\ folder[n] # f
  /\ folder' = [folder EXCEPT ![n] = f]
  /\ edited' = (edited \/ Running)
  /\ Count("edits")
  /\ UNCHANGED <<rows, artifacts, pc, doing, next, broken, batch>>

Persist(p) ==
  \/ AddMetadata(p) \/ CreateJob(p) \/ StartJob(p) \/ InsertTask(p) \/ Save(p) \/ SaveFails(p)
  \/ MarkFailed(p) \/ FailJob(p) \/ FinishTask(p) \/ CheckJob(p) \/ CloseJob(p)
Next ==
  \/ \E resume \in BOOLEAN : StartBatch(resume)
  \/ Keep \/ Take \/ ReadFixture \/ Truncate \/ WriteProgress \/ WriteResult
  \/ \E p \in Replayers, f \in Captures : StartReplay(p, f)
  \/ \E p \in Procs :
       \/ Parse(p) \/ ParseFails(p) \/ Persist(p)
       \/ BeginExport(p) \/ EndExport(p) \/ ExportFails(p) \/ Die(p)
  \/ \E n \in Names, f \in Captures : Edit(n, f)

Spec == Init /\ [][Next]_vars

-----------------------------------------------------------------------------
Results == [name : Names, digest : Captures, state : {"succeeded", "failed"},
            run : Captures \cup {None}, attempts : 1..MaxRuns]
(* Every variable keeps its type; a result has no more attempts than there
   were runs. *)
TypeOK ==
  /\ folder \in [Names -> Captures] /\ stored \subseteq Captures
  /\ metadata \subseteq stored /\ failures \subseteq metadata
  /\ saved \in [Entities -> [time : Nat, by : Captures] \cup {NoRow}]
  /\ job \in [Captures -> JobStates]
  /\ task \in [Captures -> {"none", "running", "succeeded", "failed"}]
  /\ exported \in [Captures -> {"none", "torn", "whole"}] /\ spoiled \subseteq stored
  /\ Len(groups) <= Files /\ Len(previous) <= Files
  /\ \A n \in DOMAIN previous : previous[n] \in Results
  /\ \A n \in DOMAIN groups :
       groups[n] \in Results /\ groups[n].name = n /\ groups[n].attempts <= count.runs
  /\ doing \in [Procs -> Captures \cup {None}]

(* The database holds every record of a capture, at least as recent. *)
Holds(f) ==
  f \in metadata /\ Content[f] # <<>> /\
  \A k \in DOMAIN Content[f] : saved[Content[f][k].entity].time >= Content[f][k].time

(* What is reported as succeeded is backed: a result of any readable receipt by
   raw bytes, records, exports and a job that has ended, which after a failure
   stays failed when a later run succeeds; a job by its records or by its
   failure.  The exports are whole unless they are being written again, or the
   last to write them was cut off or overlapped.  The bytes are those the result
   names, unless a file changed while the batch, or one it builds on, ran.
   Retries, refusals, replays and deaths do not change this. *)
SuccessBacked ==
  /\ receipt \notin {None, Torn} =>
       \A n \in DOMAIN receipt.groups : receipt.groups[n].state = "succeeded" =>
         LET f == receipt.groups[n].run
         IN /\ Holds(f) /\ job[f] \in {"succeeded", "failed"}
            /\ exported[f] = "whole" \/ Exporters(f) # {} \/ f \in spoiled
            /\ ~receipt.edited => f = receipt.groups[n].digest
  /\ \A f \in Captures : /\ job[f] = "succeeded" => Holds(f)
                         /\ job[f] = "failed" => f \in failures

(* A batch that ends by itself reports every fixture of the directory, under
   the bytes it had, however many runs it was resumed over; a success kept
   from an earlier run is one of the same bytes.  (An edit during a run can
   put a digest on another capture: the file is read twice.) *)
FinishedCovers ==
  finished =>
    /\ receipt.state = "completed" /\ Len(receipt.groups) = Files
    /\ \A n \in Names : LET result == receipt.groups[n]
                        IN /\ result.name = n /\ result.digest = began[n]
                           /\ result.state = "succeeded" => result.run = began[n]
=============================================================================
