----------------------------- MODULE CaptureGate -----------------------------
(***************************************************************************)
(* The operator commands `capture` and `resume` (src/src/app/cli/main.py)  *)
(* as processes that share one output directory: the lock file that        *)
(* admits one capture, the pause between captures of different Groups, and *)
(* the job and live run rows each command reads and writes.                *)
(*                                                                         *)
(* A step is one file operation, one transaction, or one read whose result *)
(* is used later.  A process may be killed, or leave by an exception, at   *)
(* every step; the page loop itself is LiveCapture and is one outcome here.*)
(***************************************************************************)
EXTENDS Naturals

CONSTANTS
  Procs,   \* processes that run operator commands
  Jobs,    \* job ids
  Groups,  \* Groups that campaigns have selected
  Pause,   \* protection.between_groups_seconds
  MaxTime, \* bound on the wall clock
  Free,    \* the lock file does not exist
  Orphan,  \* the lock file exists and its pid belongs to no process
  None     \* no job, no Group

ASSUME GateAssumption ==
  /\ Pause \in Nat
  /\ MaxTime \in Nat
  /\ Free \notin Procs /\ Orphan \notin Procs /\ Free # Orphan
  /\ None \notin Jobs \cup Groups

VARIABLES
  lock,   \* .operator-capture.lock: absent, or the process whose pid it holds
  job,    \* jobs.state ("absent": no row)
  context,\* live_runs.group_id (None: no row)
  ended,  \* jobs.updated_at of a succeeded job
  now,    \* the wall clock
  pc,     \* where each process is
  me,     \* the job its command works on
  target, \* the Group its command captures
  wake    \* when its pause ends

durable == <<lock, job, context, ended>>
local == <<me, target, wake>>
vars == <<durable, now, pc, local>>

JobStates == {"absent", "planned", "running", "interrupted", "partial",
              "succeeded", "failed"}
(* The steps of the body of _operator_capture_gate, in order. *)
InGate == {"pause", "sleep", "create", "context", "start", "pages", "stop receipt",
           "deliver", "receipt"}
Steps == {"idle", "capture", "resume"} \cup InGate

(* What `resume` accepts, and what the workflow accepts or moves to running. *)
Resumable == {"interrupted", "partial"}
Startable == {"planned", "interrupted", "partial"}

Goto(p, step) == pc' = [pc EXCEPT ![p] = step]
(* Mutant of Leave: the lock file outlives a gate left by an exception. *)
LeaveLocked(p) == Goto(p, "idle") /\ UNCHANGED lock
(* The finally block: unlink(missing_ok) whoever wrote the file. *)
Leave(p) == Goto(p, "idle") /\ lock' = Free

-----------------------------------------------------------------------------
(* A library caller may have left one job that it interrupted on purpose. *)
Init ==
  /\ lock = Free
  /\ \E left \in SUBSET Jobs, g \in Groups :
       /\ job = [j \in Jobs |-> IF j \in left THEN "interrupted" ELSE "absent"]
       /\ context = [j \in Jobs |-> IF j \in left THEN g ELSE None]
  /\ ended = [j \in Jobs |-> 0]
  /\ now = 0
  /\ pc = [p \in Procs |-> "idle"]
  /\ me = [p \in Procs |-> None]
  /\ target = [p \in Procs |-> None]
  /\ wake = [p \in Procs |-> 0]

(* _capture_selected: the campaign's Group is read, the job id is a new uuid. *)
CaptureCommand(p, j, g) ==
  /\ pc[p] = "idle"
  /\ job[j] = "absent" /\ \A q \in Procs : me[q] # j
  /\ me' = [me EXCEPT ![p] = j]
  /\ target' = [target EXCEPT ![p] = g]
  /\ Goto(p, "capture")
  /\ UNCHANGED <<durable, now, wake>>

(* Mutant of ResumeCommand: neither the context nor the state is required. *)
ResumeCommandUnchecked(p, j) ==
  /\ pc[p] = "idle"
  /\ me' = [me EXCEPT ![p] = j]
  /\ target' = [target EXCEPT ![p] = context[j]]
  /\ Goto(p, "resume")
  /\ UNCHANGED <<durable, now, wake>>
(* resume: the job's state is read and checked before the gate is taken. *)
ResumeCommand(p, j) ==
  /\ pc[p] = "idle"
  /\ context[j] # None /\ job[j] \in Resumable
  /\ me' = [me EXCEPT ![p] = j]
  /\ target' = [target EXCEPT ![p] = context[j]]
  /\ Goto(p, "resume")
  /\ UNCHANGED <<durable, now, wake>>

(* Mutant of LockIsFree: exists() and a plain open in place of O_EXCL. *)
LockIsFreeOrStale == lock \in {Free} \cup Procs
LockIsFree == lock = Free
(* os.open(O_CREAT | O_EXCL), then the pid. *)
Enter(p) ==
  /\ pc[p] \in {"capture", "resume"}
  /\ LockIsFree
  /\ lock' = p
  /\ Goto(p, "pause")
  /\ UNCHANGED <<job, context, ended, now, local>>

(* FileExistsError: another operator Group capture is active. *)
Refused(p) ==
  /\ pc[p] \in {"capture", "resume"}
  /\ ~LockIsFree
  /\ Goto(p, "idle")
  /\ UNCHANGED <<durable, now, local>>

(* Mutant of Others: only captures of the same Group count. *)
OthersSame(p) == {j \in Jobs : job[j] = "succeeded" /\ context[j] = target[p]}
(* The succeeded jobs of another Group. *)
Others(p) == {j \in Jobs : job[j] = "succeeded" /\ context[j] # target[p]}

(* _wait_between_groups: read the latest success and fix the pause. *)
ReadPause(p) ==
  /\ pc[p] = "pause"
  /\ \/ /\ Others(p) = {}
        /\ wake' = [wake EXCEPT ![p] = now]
     \/ \E j \in Others(p) :
          /\ \A i \in Others(p) : ended[i] <= ended[j]
          /\ wake' = [wake EXCEPT ![p] =
               IF ended[j] + Pause > now THEN ended[j] + Pause ELSE now]
  /\ Goto(p, "sleep")
  /\ UNCHANGED <<durable, now, me, target>>

(* time.sleep returns; a new run creates its rows, a resumed one has them. *)
Wake(p) ==
  /\ pc[p] = "sleep" /\ now >= wake[p]
  /\ Goto(p, IF job[me[p]] = "absent" THEN "create" ELSE "start")
  /\ UNCHANGED <<durable, now, local>>

(* JobRepository.create. *)
CreateJob(p) ==
  /\ pc[p] = "create"
  /\ job' = [job EXCEPT ![me[p]] = "planned"]
  /\ Goto(p, "context")
  /\ UNCHANGED <<lock, context, ended, now, local>>

(* LiveRunRepository.create, in a transaction of its own. *)
CreateContext(p) ==
  /\ pc[p] = "context"
  /\ context' = [context EXCEPT ![me[p]] = target[p]]
  /\ Goto(p, "start")
  /\ UNCHANGED <<lock, job, ended, now, local>>

(* Mutant of StartRun: the state that resume read before the gate is trusted. *)
StartRunTrusting(p) ==
  /\ pc[p] = "start"
  /\ job' = [job EXCEPT ![me[p]] = "running"]
  /\ Goto(p, "pages")
  /\ UNCHANGED <<lock, context, ended, now, local>>
(* The browser opens and LiveCaptureWorkflow moves the job to running. *)
StartRun(p) ==
  /\ pc[p] = "start"
  /\ job[me[p]] \in Startable \cup {"running"}
  /\ job' = [job EXCEPT ![me[p]] = "running"]
  /\ Goto(p, "pages")
  /\ UNCHANGED <<lock, context, ended, now, local>>

(* live capture job is not runnable: ValueError. *)
NotRunnable(p) ==
  /\ pc[p] = "start"
  /\ job[me[p]] \notin Startable \cup {"running"}
  /\ Leave(p)
  /\ UNCHANGED <<job, context, ended, now, local>>

(* The page loop ends with every page committed. *)
Succeed(p) ==
  /\ pc[p] = "pages"
  /\ job' = [job EXCEPT ![me[p]] = "succeeded"]
  /\ ended' = [ended EXCEPT ![me[p]] = now]
  /\ Goto(p, "deliver")
  /\ UNCHANGED <<lock, context, now, local>>

(* A BrowserStateError fails the job; write_stop follows inside the gate. *)
Stop(p) ==
  /\ pc[p] = "pages"
  /\ job' = [job EXCEPT ![me[p]] = "failed"]
  /\ Goto(p, "stop receipt")
  /\ UNCHANGED <<lock, context, ended, now, local>>

(* Parser drift or a bound fails the job, and the exception leaves the gate. *)
Fail(p) ==
  /\ pc[p] = "pages"
  /\ job' = [job EXCEPT ![me[p]] = "failed"]
  /\ Leave(p)
  /\ UNCHANGED <<context, ended, now, local>>

(* StoredHtmlReplayWorkflow.replay, offline. *)
Deliver(p) ==
  /\ pc[p] = "deliver"
  /\ Goto(p, "receipt")
  /\ UNCHANGED <<durable, now, local>>

(* A receipt is written, the gate is left. *)
WriteReceipt(p) ==
  /\ pc[p] \in {"receipt", "stop receipt"}
  /\ Leave(p)
  /\ UNCHANGED <<job, context, ended, now, local>>

(* Ctrl-C, an OSError, a database error: only the finally block runs. *)
Raise(p) ==
  /\ pc[p] \in InGate
  /\ Leave(p)
  /\ UNCHANGED <<job, context, ended, now, local>>

(* The process is killed: nothing runs, the lock file stays behind. *)
Die(p) ==
  /\ pc[p] # "idle"
  /\ Goto(p, "idle")
  /\ lock' = IF lock = p THEN Orphan ELSE lock
  /\ UNCHANGED <<job, context, ended, now, local>>

(* The operator deletes the lock file of a process that is gone. *)
ClearLock ==
  /\ lock = Orphan
  /\ lock' = Free
  /\ UNCHANGED <<job, context, ended, now, pc, local>>

Tick ==
  /\ now < MaxTime
  /\ now' = now + 1
  /\ UNCHANGED <<durable, pc, local>>

Command(p) ==
  \/ \E j \in Jobs, g \in Groups : CaptureCommand(p, j, g)
  \/ \E j \in Jobs : ResumeCommand(p, j)
Body(p) ==
  \/ ReadPause(p) \/ Wake(p) \/ CreateJob(p) \/ CreateContext(p) \/ StartRun(p)
  \/ NotRunnable(p) \/ Succeed(p) \/ Stop(p) \/ Fail(p) \/ Deliver(p)
  \/ WriteReceipt(p)

Next ==
  \/ \E p \in Procs :
       Command(p) \/ Enter(p) \/ Refused(p) \/ Body(p) \/ Raise(p) \/ Die(p)
  \/ ClearLock
  \/ Tick

Spec == Init /\ [][Next]_vars

-----------------------------------------------------------------------------
(* Every variable keeps its type (the rows of jobs and live_runs, the lock
   file and the memory of the commands). *)
TypeOK ==
  /\ lock \in Procs \cup {Free, Orphan}
  /\ job \in [Jobs -> JobStates]
  /\ context \in [Jobs -> Groups \cup {None}]
  /\ ended \in [Jobs -> Nat]
  /\ now \in Nat
  /\ pc \in [Procs -> Steps]
  /\ me \in [Procs -> Jobs \cup {None}]
  /\ target \in [Procs -> Groups \cup {None}]
  /\ wake \in [Procs -> Nat]
  /\ \A p \in Procs : pc[p] # "idle" => me[p] \in Jobs /\ target[p] \in Groups

(* At most one process is inside the gate, and the lock file names it: every
   way out of _operator_capture_gate removes the file, and no process removes
   the file of another. *)
LockNamesHolder == \A p \in Procs : pc[p] \in InGate <=> lock = p

(* Whoever captures pages does so at least Pause after the last success of
   every other Group, deaths, cleared locks and stale reads notwithstanding
   (_wait_between_groups). *)
Capturing == {"create", "context", "start", "pages"}
PausedBetweenGroups ==
  \A p \in Procs : pc[p] \in Capturing =>
    \A j \in Jobs : job[j] = "succeeded" /\ context[j] # target[p] =>
      now >= ended[j] + Pause

(* Pages are captured for a job whose row says running and whose live run
   names the Group of the command, also when resume read the row before it
   had the gate. *)
CapturesRunningJob ==
  \A p \in Procs : pc[p] = "pages" =>
    job[me[p]] = "running" /\ context[me[p]] = target[p]

(* A job that ended is never reopened, by however many stale resumes. *)
EndedStays ==
  [][\A j \in Jobs : job[j] \in {"succeeded", "failed"} =>
       job'[j] = job[j] /\ ended'[j] = ended[j]]_vars

(* README.md:28: "Resume after an intentional interruption."  A run whose
   process was interrupted while it captured pages is one resume accepts. *)
InterruptedCanResume ==
  \A j \in Jobs :
    job[j] = "running" /\ (\A p \in Procs : pc[p] \in InGate => me[p] # j)
      => job[j] \in Resumable
=============================================================================
