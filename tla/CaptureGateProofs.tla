--------------------------- MODULE CaptureGateProofs ---------------------------
(***************************************************************************)
(* Proofs about CaptureGate for every set of processes, jobs and Groups,   *)
(* every pause and every bound on the clock: one capture at a time, paused *)
(* between Groups, on a running job, and no ended job reopened.            *)
(***************************************************************************)
EXTENDS CaptureGate, TLAPS

(***************************************************************************)
(* The inductive invariant.                                                *)
(***************************************************************************)

(* Two processes work on one job only if it has its rows, so whoever creates
   the rows of a job is alone with it; a job without a row has no context. *)
SharedJobsExist ==
  /\ \A p, q \in Procs :
       p # q /\ me[p] = me[q] /\ me[p] # None
         => context[me[p]] # None /\ job[me[p]] # "absent"
  /\ \A j \in Jobs : job[j] = "absent" => context[j] = None

(* What a command knows of its job at each step: a new run has no row until it
   creates it, a resumed one has a context that names its Group. *)
Named(p) == context[me[p]] = target[p]
Aware(p) ==
  /\ pc[p] \in {"capture", "create"} => job[me[p]] = "absent"
  /\ pc[p] \in {"pause", "sleep"} => job[me[p]] = "absent" \/ Named(p)
  /\ pc[p] = "context" => job[me[p]] = "planned" /\ context[me[p]] = None
  /\ pc[p] \in {"resume", "start", "pages"} => Named(p)
  /\ pc[p] = "pages" => job[me[p]] = "running"
CommandsAware == \A p \in Procs : Aware(p)

(* Whoever sleeps will wake late enough, whoever captures has. *)
Rested(p, instant) ==
  \A j \in Jobs : job[j] = "succeeded" /\ context[j] # target[p] => instant >= ended[j] + Pause
PausesKept ==
  \A p \in Procs : /\ pc[p] = "sleep" => Rested(p, wake[p])
                   /\ pc[p] \in Capturing => Rested(p, now)

IInv == TypeOK /\ LockNamesHolder /\ SharedJobsExist /\ CommandsAware /\ PausesKept

(* The pause is a number. *)
LEMMA PauseIsNat == Pause \in Nat
BY GateAssumption

(* The clock is a number and only moves away from the successes. *)
LEMMA TickAdvances ==
  ASSUME TypeOK, Tick
  PROVE  /\ now' \in Nat
         /\ \A j \in Jobs : now >= ended[j] + Pause => now' >= ended[j] + Pause
BY PauseIsNat DEF TypeOK, Tick

(* The end of the pause is a number. *)
LEMMA WakeIsNat ==
  ASSUME TypeOK, NEW p \in Procs, ReadPause(p)
  PROVE  wake' \in [Procs -> Nat]
<1>1. PICK instant \in Nat : wake' = [wake EXCEPT ![p] = instant]
  BY PauseIsNat DEF TypeOK, ReadPause, Others
<1> QED
  BY <1>1 DEF TypeOK

(* It is late enough for the latest success and so for every one. *)
LEMMA PauseLongEnough ==
  ASSUME TypeOK, NEW p \in Procs, ReadPause(p)
  PROVE  \A j \in Others(p) : wake'[p] >= ended[j] + Pause
<1>1. CASE Others(p) = {}
  BY <1>1
<1>2. ASSUME NEW j \in Others(p), \A i \in Others(p) : ended[i] <= ended[j],
             wake' = [wake EXCEPT ![p] = IF ended[j] + Pause > now THEN ended[j] + Pause ELSE now]
      PROVE  \A i \in Others(p) : wake'[p] >= ended[i] + Pause
  <2>1. wake'[p] = IF ended[j] + Pause > now THEN ended[j] + Pause ELSE now
    BY <1>2 DEF TypeOK
  <2>2. TAKE i \in Others(p)
  <2>3. ended[i] \in Nat /\ ended[j] \in Nat /\ now \in Nat /\ ended[i] <= ended[j]
    BY <1>2 DEF TypeOK, Others
  <2> QED
    BY <2>1, <2>3, PauseIsNat
<1> QED
  BY <1>1, <1>2 DEF ReadPause

(* Who wakes has slept long enough. *)
LEMMA WakesRested ==
  ASSUME TypeOK, NEW p \in Procs, Wake(p),
         \A j \in Jobs : job[j] = "succeeded" /\ context[j] # target[p]
           => wake[p] >= ended[j] + Pause
  PROVE  \A j \in Jobs : job[j] = "succeeded" /\ context[j] # target[p]
           => now >= ended[j] + Pause
<1> TAKE j \in Jobs
<1>1. now >= wake[p] /\ now \in Nat /\ wake[p] \in Nat /\ ended[j] \in Nat
  BY DEF TypeOK, Wake
<1> QED
  BY <1>1, PauseIsNat

(* The initial states satisfy the invariant: nobody works on anything. *)
LEMMA InitHolds == Init => IInv
<1> SUFFICES ASSUME Init PROVE IInv
  OBVIOUS
<1>1. TypeOK
  BY GateAssumption DEF Init, TypeOK, JobStates, Steps, InGate
<1>2. LockNamesHolder
  BY GateAssumption DEF Init, LockNamesHolder, InGate
<1>3. SharedJobsExist
  BY DEF Init, SharedJobsExist
<1>4. CommandsAware
  BY DEF Init, CommandsAware, Aware
<1>5. PausesKept
  BY DEF Init, PausesKept, Capturing
<1> QED
  BY <1>1, <1>2, <1>3, <1>4, <1>5 DEF IInv

(* Every step keeps the types: what a command works on was chosen when it
   began. *)
LEMMA TypeStep ==
  ASSUME TypeOK, [Next]_vars
  PROVE  TypeOK'
<1> USE DEF TypeOK, JobStates, Steps, InGate
<1>1. ASSUME NEW p \in Procs, NEW j \in Jobs, NEW g \in Groups, CaptureCommand(p, j, g)
      PROVE TypeOK'
  BY <1>1 DEF CaptureCommand, Goto, durable, local
<1>2. ASSUME NEW p \in Procs, NEW j \in Jobs, ResumeCommand(p, j) PROVE TypeOK'
  BY <1>2 DEF ResumeCommand, Goto, durable, local
<1>3. ASSUME NEW p \in Procs, Enter(p) PROVE TypeOK'
  BY <1>3 DEF Enter, LockIsFree, Goto, durable, local
<1>4. ASSUME NEW p \in Procs, Refused(p) PROVE TypeOK'
  BY <1>4 DEF Refused, Goto, durable, local
<1>5. ASSUME NEW p \in Procs, ReadPause(p) PROVE TypeOK'
  <2>1. wake' \in [Procs -> Nat]
    BY <1>5, WakeIsNat
  <2>2. /\ pc' = [pc EXCEPT ![p] = "sleep"]
        /\ UNCHANGED <<lock, job, context, ended, now, me, target>>
    BY <1>5 DEF ReadPause, Goto, durable
  <2>3. pc[p] # "idle"
    BY <1>5 DEF ReadPause
  <2> QED BY <2>1, <2>2, <2>3
<1>6. ASSUME NEW p \in Procs, Wake(p) PROVE TypeOK'
  BY <1>6 DEF Wake, Goto, durable, local
<1>7. ASSUME NEW p \in Procs, CreateJob(p) PROVE TypeOK'
  BY <1>7 DEF CreateJob, Goto, durable, local
<1>8. ASSUME NEW p \in Procs, CreateContext(p) PROVE TypeOK'
  BY <1>8 DEF CreateContext, Goto, durable, local
<1>9. ASSUME NEW p \in Procs, StartRun(p) PROVE TypeOK'
  BY <1>9 DEF StartRun, Goto, durable, local
<1>10. ASSUME NEW p \in Procs, NotRunnable(p) PROVE TypeOK'
  BY <1>10 DEF NotRunnable, Leave, Goto, durable, local
<1>11. ASSUME NEW p \in Procs, Succeed(p) PROVE TypeOK'
  BY <1>11 DEF Succeed, Goto, durable, local
<1>12. ASSUME NEW p \in Procs, Stop(p) PROVE TypeOK'
  BY <1>12 DEF Stop, Goto, durable, local
<1>13. ASSUME NEW p \in Procs, Fail(p) PROVE TypeOK'
  BY <1>13 DEF Fail, Leave, Goto, durable, local
<1>14. ASSUME NEW p \in Procs, Deliver(p) PROVE TypeOK'
  BY <1>14 DEF Deliver, Goto, durable, local
<1>15. ASSUME NEW p \in Procs, WriteReceipt(p) PROVE TypeOK'
  BY <1>15 DEF WriteReceipt, Leave, Goto, durable, local
<1>16. ASSUME NEW p \in Procs, Raise(p) PROVE TypeOK'
  BY <1>16 DEF Raise, Leave, Goto, durable, local
<1>17. ASSUME NEW p \in Procs, Die(p) PROVE TypeOK'
  BY <1>17 DEF Die, Goto, durable, local
<1>18. ASSUME ClearLock PROVE TypeOK'
  BY <1>18 DEF ClearLock, durable, local
<1>19. ASSUME Tick PROVE TypeOK'
  <2>1. now' \in Nat
    BY <1>19, TickAdvances
  <2>2. UNCHANGED <<lock, job, context, ended, pc, me, target, wake>>
    BY <1>19 DEF Tick, durable, local
  <2> QED BY <2>1, <2>2
<1>20. CASE UNCHANGED vars
  BY <1>20 DEF vars, durable, local, durable, local
<1> QED
  BY <1>1, <1>2, <1>3, <1>4, <1>5, <1>6, <1>7, <1>8, <1>9, <1>10, <1>11, <1>12, <1>13, <1>14, <1>15, <1>16, <1>17, <1>18, <1>19, <1>20 DEF Next, Command, Body

(* Every step keeps the lock named after the process inside the gate. *)
LEMMA LockStep ==
  ASSUME TypeOK, LockNamesHolder, [Next]_vars
  PROVE  LockNamesHolder'
<1> USE GateAssumption DEF TypeOK, LockNamesHolder, InGate
<1>1. ASSUME NEW p \in Procs, NEW j \in Jobs, NEW g \in Groups, CaptureCommand(p, j, g)
      PROVE LockNamesHolder'
  BY <1>1 DEF CaptureCommand, Goto, durable, local
<1>2. ASSUME NEW p \in Procs, NEW j \in Jobs, ResumeCommand(p, j)
      PROVE LockNamesHolder'
  BY <1>2 DEF ResumeCommand, Goto, durable, local
<1>3. ASSUME NEW p \in Procs, Enter(p) PROVE LockNamesHolder'
  BY <1>3 DEF Enter, LockIsFree, Goto, durable, local
<1>4. ASSUME NEW p \in Procs, Refused(p) PROVE LockNamesHolder'
  BY <1>4 DEF Refused, Goto, durable, local
<1>5. ASSUME NEW p \in Procs, ReadPause(p) PROVE LockNamesHolder'
  BY <1>5 DEF ReadPause, Goto, durable, local
<1>6. ASSUME NEW p \in Procs, Wake(p) PROVE LockNamesHolder'
  BY <1>6 DEF Wake, Goto, durable, local
<1>7. ASSUME NEW p \in Procs, CreateJob(p) PROVE LockNamesHolder'
  BY <1>7 DEF CreateJob, Goto, durable, local
<1>8. ASSUME NEW p \in Procs, CreateContext(p) PROVE LockNamesHolder'
  BY <1>8 DEF CreateContext, Goto, durable, local
<1>9. ASSUME NEW p \in Procs, StartRun(p) PROVE LockNamesHolder'
  BY <1>9 DEF StartRun, Goto, durable, local
<1>10. ASSUME NEW p \in Procs, NotRunnable(p) PROVE LockNamesHolder'
  BY <1>10 DEF NotRunnable, Leave, Goto, durable, local
<1>11. ASSUME NEW p \in Procs, Succeed(p) PROVE LockNamesHolder'
  BY <1>11 DEF Succeed, Goto, durable, local
<1>12. ASSUME NEW p \in Procs, Stop(p) PROVE LockNamesHolder'
  BY <1>12 DEF Stop, Goto, durable, local
<1>13. ASSUME NEW p \in Procs, Fail(p) PROVE LockNamesHolder'
  BY <1>13 DEF Fail, Leave, Goto, durable, local
<1>14. ASSUME NEW p \in Procs, Deliver(p) PROVE LockNamesHolder'
  BY <1>14 DEF Deliver, Goto, durable, local
<1>15. ASSUME NEW p \in Procs, WriteReceipt(p) PROVE LockNamesHolder'
  BY <1>15 DEF WriteReceipt, Leave, Goto, durable, local
<1>16. ASSUME NEW p \in Procs, Raise(p) PROVE LockNamesHolder'
  BY <1>16 DEF Raise, Leave, Goto, durable, local
<1>17. ASSUME NEW p \in Procs, Die(p) PROVE LockNamesHolder'
  BY <1>17 DEF Die, Goto, durable, local
<1>18. ASSUME ClearLock PROVE LockNamesHolder'
  BY <1>18 DEF ClearLock, durable, local
<1>19. ASSUME Tick PROVE LockNamesHolder'
  BY <1>19 DEF Tick, durable, local
<1>20. CASE UNCHANGED vars
  BY <1>20 DEF vars, durable, local, durable, local
<1> QED
  BY <1>1, <1>2, <1>3, <1>4, <1>5, <1>6, <1>7, <1>8, <1>9, <1>10, <1>11, <1>12, <1>13, <1>14, <1>15, <1>16, <1>17, <1>18, <1>19, <1>20 DEF Next, Command, Body

(* Every step keeps shared jobs existing: a new run takes an id nobody has. *)
LEMMA SharedStep ==
  ASSUME TypeOK, SharedJobsExist, CommandsAware, [Next]_vars
  PROVE  SharedJobsExist'
<1> USE GateAssumption DEF TypeOK, SharedJobsExist, CommandsAware, Aware
<1>1. ASSUME NEW p \in Procs, NEW j \in Jobs, NEW g \in Groups, CaptureCommand(p, j, g)
      PROVE SharedJobsExist'
  BY <1>1 DEF CaptureCommand, Goto, durable, local
<1>2. ASSUME NEW p \in Procs, NEW j \in Jobs, ResumeCommand(p, j)
      PROVE SharedJobsExist'
  BY <1>2 DEF ResumeCommand, Goto, durable, local
<1>3. ASSUME NEW p \in Procs, Enter(p) PROVE SharedJobsExist'
  BY <1>3 DEF Enter, LockIsFree, Goto, durable, local
<1>4. ASSUME NEW p \in Procs, Refused(p) PROVE SharedJobsExist'
  BY <1>4 DEF Refused, Goto, durable, local
<1>5. ASSUME NEW p \in Procs, ReadPause(p) PROVE SharedJobsExist'
  BY <1>5 DEF ReadPause, Goto, durable, local
<1>6. ASSUME NEW p \in Procs, Wake(p) PROVE SharedJobsExist'
  BY <1>6 DEF Wake, Goto, durable, local
<1>7. ASSUME NEW p \in Procs, CreateJob(p) PROVE SharedJobsExist'
  BY <1>7 DEF CreateJob, Goto, durable, local
<1>8. ASSUME NEW p \in Procs, CreateContext(p) PROVE SharedJobsExist'
  BY <1>8 DEF CreateContext, Goto, durable, local
<1>9. ASSUME NEW p \in Procs, StartRun(p) PROVE SharedJobsExist'
  BY <1>9 DEF StartRun, Goto, durable, local
<1>10. ASSUME NEW p \in Procs, NotRunnable(p) PROVE SharedJobsExist'
  BY <1>10 DEF NotRunnable, Leave, Goto, durable, local
<1>11. ASSUME NEW p \in Procs, Succeed(p) PROVE SharedJobsExist'
  BY <1>11 DEF Succeed, Goto, durable, local
<1>12. ASSUME NEW p \in Procs, Stop(p) PROVE SharedJobsExist'
  BY <1>12 DEF Stop, Goto, durable, local
<1>13. ASSUME NEW p \in Procs, Fail(p) PROVE SharedJobsExist'
  BY <1>13 DEF Fail, Leave, Goto, durable, local
<1>14. ASSUME NEW p \in Procs, Deliver(p) PROVE SharedJobsExist'
  BY <1>14 DEF Deliver, Goto, durable, local
<1>15. ASSUME NEW p \in Procs, WriteReceipt(p) PROVE SharedJobsExist'
  BY <1>15 DEF WriteReceipt, Leave, Goto, durable, local
<1>16. ASSUME NEW p \in Procs, Raise(p) PROVE SharedJobsExist'
  BY <1>16 DEF Raise, Leave, Goto, durable, local
<1>17. ASSUME NEW p \in Procs, Die(p) PROVE SharedJobsExist'
  BY <1>17 DEF Die, Goto, durable, local
<1>18. ASSUME ClearLock PROVE SharedJobsExist'
  BY <1>18 DEF ClearLock, durable, local
<1>19. ASSUME Tick PROVE SharedJobsExist'
  BY <1>19 DEF Tick, durable, local
<1>20. CASE UNCHANGED vars
  BY <1>20 DEF vars, durable, local, durable, local
<1> QED
  BY <1>1, <1>2, <1>3, <1>4, <1>5, <1>6, <1>7, <1>8, <1>9, <1>10, <1>11, <1>12, <1>13, <1>14, <1>15, <1>16, <1>17, <1>18, <1>19, <1>20 DEF Next, Command, Body

(* The process inside the gate writes the state of its job: nobody else has
   that job in a step that relies on its state. *)
LEMMA HolderWrites ==
  ASSUME TypeOK, LockNamesHolder, SharedJobsExist, CommandsAware,
         NEW p \in Procs, pc[p] # "idle", pc[p] \in InGate, NEW state, NEW step,
         job' = [job EXCEPT ![me[p]] = state],
         pc' = [pc EXCEPT ![p] = step],
         UNCHANGED <<context, me, target>>,
         Aware(p)'
  PROVE  CommandsAware'
<1>1. me[p] \in Jobs
  BY DEF TypeOK
<1>2. ASSUME NEW q \in Procs, q # p PROVE Aware(q)'
  <2>1. pc'[q] = pc[q] /\ Aware(q)
    BY <1>2 DEF TypeOK, CommandsAware
  <2>2. pc[q] \notin InGate
    BY <1>2 DEF LockNamesHolder, InGate
  <2>3. me[q] \in Jobs /\ job[me[q]] = "absent" => job'[me[q]] = "absent"
    <3>1. me[q] = me[p] => job[me[p]] # "absent"
      BY <1>1, <1>2, GateAssumption DEF SharedJobsExist
    <3> QED BY <3>1 DEF TypeOK
  <2>4. pc[q] # "idle" => me[q] \in Jobs
    BY DEF TypeOK
  <2> QED
    BY <2>1, <2>2, <2>3, <2>4 DEF Aware, Named, InGate
<1> QED
  BY <1>2 DEF CommandsAware


(* Every step keeps the commands aware of their jobs: only the process inside
   the gate writes rows. *)
LEMMA AwareStep ==
  ASSUME TypeOK, LockNamesHolder, SharedJobsExist, CommandsAware, [Next]_vars
  PROVE  CommandsAware'
<1>1. ASSUME NEW p \in Procs, NEW j \in Jobs, NEW g \in Groups, CaptureCommand(p, j, g)
      PROVE CommandsAware'
  BY <1>1, GateAssumption DEF CaptureCommand, Goto, durable, local, TypeOK, InGate, SharedJobsExist, CommandsAware, Aware, Named
<1>2. ASSUME NEW p \in Procs, NEW j \in Jobs, ResumeCommand(p, j)
      PROVE CommandsAware'
  BY <1>2, GateAssumption DEF ResumeCommand, Goto, durable, local, TypeOK, InGate, SharedJobsExist, CommandsAware, Aware, Named
<1>3. ASSUME NEW p \in Procs, Enter(p) PROVE CommandsAware'
  BY <1>3, GateAssumption DEF Enter, LockIsFree, Goto, durable, local, TypeOK, InGate, SharedJobsExist, CommandsAware, Aware, Named
<1>4. ASSUME NEW p \in Procs, Refused(p) PROVE CommandsAware'
  BY <1>4, GateAssumption DEF Refused, Goto, durable, local, TypeOK, InGate, SharedJobsExist, CommandsAware, Aware, Named
<1>5. ASSUME NEW p \in Procs, ReadPause(p) PROVE CommandsAware'
  BY <1>5, GateAssumption DEF ReadPause, Goto, durable, local, TypeOK, InGate, SharedJobsExist, CommandsAware, Aware, Named
<1>6. ASSUME NEW p \in Procs, Wake(p) PROVE CommandsAware'
  BY <1>6, GateAssumption DEF Wake, Goto, durable, local, TypeOK, InGate, SharedJobsExist, CommandsAware, Aware, Named
<1>7. ASSUME NEW p \in Procs, CreateJob(p) PROVE CommandsAware'
  <2>1. /\ pc[p] = "create" /\ pc' = [pc EXCEPT ![p] = "context"]
        /\ job' = [job EXCEPT ![me[p]] = "planned"]
        /\ UNCHANGED <<context, me, target>>
    BY <1>7 DEF CreateJob, Goto, local
  <2>2. pc[p] # "idle" /\ pc[p] \in InGate
    BY <2>1 DEF InGate
  <2>3. Aware(p)'
    BY <2>1, <2>2 DEF TypeOK, SharedJobsExist, CommandsAware, Aware, Named
  <2> QED BY <2>1, <2>2, <2>3, HolderWrites
<1>8. ASSUME NEW p \in Procs, CreateContext(p) PROVE CommandsAware'
  <2>1. /\ pc[p] = "context" /\ pc' = [pc EXCEPT ![p] = "start"]
        /\ context' = [context EXCEPT ![me[p]] = target[p]]
        /\ UNCHANGED <<job, me, target>>
    BY <1>8 DEF CreateContext, Goto, local
  <2>2. me[p] \in Jobs /\ context[me[p]] = None
    BY <2>1 DEF TypeOK, CommandsAware, Aware
  <2>3. Aware(p)'
    BY <2>1, <2>2 DEF TypeOK, Aware, Named
  <2>4. ASSUME NEW q \in Procs, q # p PROVE Aware(q)'
    <3>1. me[q] # me[p]
      BY <2>2, <2>4, GateAssumption DEF SharedJobsExist
    <3>2. pc[q] # "idle" => context'[me[q]] = context[me[q]]
      BY <2>1, <2>2, <3>1 DEF TypeOK
    <3> QED BY <2>1, <2>4, <3>2 DEF TypeOK, CommandsAware, Aware, Named
  <2> QED BY <2>3, <2>4 DEF CommandsAware
<1>9. ASSUME NEW p \in Procs, StartRun(p) PROVE CommandsAware'
  <2>1. /\ pc[p] = "start" /\ pc' = [pc EXCEPT ![p] = "pages"]
        /\ job' = [job EXCEPT ![me[p]] = "running"]
        /\ UNCHANGED <<context, me, target>>
    BY <1>9 DEF StartRun, Goto, local
  <2>2. pc[p] # "idle" /\ pc[p] \in InGate
    BY <2>1 DEF InGate
  <2>3. Aware(p)'
    BY <2>1, <2>2 DEF TypeOK, SharedJobsExist, CommandsAware, Aware, Named
  <2> QED BY <2>1, <2>2, <2>3, HolderWrites
<1>10. ASSUME NEW p \in Procs, NotRunnable(p) PROVE CommandsAware'
  BY <1>10, GateAssumption DEF NotRunnable, Leave, Goto, durable, local, TypeOK, InGate, SharedJobsExist, CommandsAware, Aware, Named
<1>11. ASSUME NEW p \in Procs, Succeed(p) PROVE CommandsAware'
  <2>1. /\ pc[p] = "pages" /\ pc' = [pc EXCEPT ![p] = "deliver"]
        /\ job' = [job EXCEPT ![me[p]] = "succeeded"]
        /\ UNCHANGED <<context, me, target>>
    BY <1>11 DEF Succeed, Goto, local
  <2>2. pc[p] # "idle" /\ pc[p] \in InGate
    BY <2>1 DEF InGate
  <2>3. Aware(p)'
    BY <2>1, <2>2 DEF TypeOK, SharedJobsExist, CommandsAware, Aware, Named
  <2> QED BY <2>1, <2>2, <2>3, HolderWrites
<1>12. ASSUME NEW p \in Procs, Stop(p) PROVE CommandsAware'
  <2>1. /\ pc[p] = "pages" /\ pc' = [pc EXCEPT ![p] = "stop receipt"]
        /\ job' = [job EXCEPT ![me[p]] = "failed"]
        /\ UNCHANGED <<context, me, target>>
    BY <1>12 DEF Stop, Goto, local
  <2>2. pc[p] # "idle" /\ pc[p] \in InGate
    BY <2>1 DEF InGate
  <2>3. Aware(p)'
    BY <2>1, <2>2 DEF TypeOK, SharedJobsExist, CommandsAware, Aware, Named
  <2> QED BY <2>1, <2>2, <2>3, HolderWrites
<1>13. ASSUME NEW p \in Procs, Fail(p) PROVE CommandsAware'
  <2>1. /\ pc[p] = "pages" /\ pc' = [pc EXCEPT ![p] = "idle"]
        /\ job' = [job EXCEPT ![me[p]] = "failed"]
        /\ UNCHANGED <<context, me, target>>
    BY <1>13 DEF Fail, Leave, Goto, local
  <2>2. pc[p] # "idle" /\ pc[p] \in InGate
    BY <2>1 DEF InGate
  <2>3. Aware(p)'
    BY <2>1, <2>2 DEF TypeOK, SharedJobsExist, CommandsAware, Aware, Named
  <2> QED BY <2>1, <2>2, <2>3, HolderWrites
<1>14. ASSUME NEW p \in Procs, Deliver(p) PROVE CommandsAware'
  BY <1>14, GateAssumption DEF Deliver, Goto, durable, local, TypeOK, InGate, SharedJobsExist, CommandsAware, Aware, Named
<1>15. ASSUME NEW p \in Procs, WriteReceipt(p) PROVE CommandsAware'
  BY <1>15, GateAssumption DEF WriteReceipt, Leave, Goto, durable, local, TypeOK, InGate, SharedJobsExist, CommandsAware, Aware, Named
<1>16. ASSUME NEW p \in Procs, Raise(p) PROVE CommandsAware'
  BY <1>16, GateAssumption DEF Raise, Leave, Goto, durable, local, TypeOK, InGate, SharedJobsExist, CommandsAware, Aware, Named
<1>17. ASSUME NEW p \in Procs, Die(p) PROVE CommandsAware'
  BY <1>17, GateAssumption DEF Die, Goto, durable, local, TypeOK, InGate, SharedJobsExist, CommandsAware, Aware, Named
<1>18. ASSUME ClearLock PROVE CommandsAware'
  BY <1>18, GateAssumption DEF ClearLock, durable, local, TypeOK, InGate, SharedJobsExist, CommandsAware, Aware, Named
<1>19. ASSUME Tick PROVE CommandsAware'
  BY <1>19, GateAssumption DEF Tick, durable, local, TypeOK, InGate, SharedJobsExist, CommandsAware, Aware, Named
<1>20. CASE UNCHANGED vars
  BY <1>20, GateAssumption DEF vars, durable, local, durable, local, TypeOK, InGate, SharedJobsExist, CommandsAware, Aware, Named
<1> QED
  BY <1>1, <1>2, <1>3, <1>4, <1>5, <1>6, <1>7, <1>8, <1>9, <1>10, <1>11, <1>12, <1>13, <1>14, <1>15, <1>16, <1>17, <1>18, <1>19, <1>20 DEF Next, Command, Body

(* Every step keeps the pauses: while a process sleeps or captures nobody
   else ends a job. *)
LEMMA PauseStep ==
  ASSUME TypeOK, LockNamesHolder, PausesKept, [Next]_vars
  PROVE  PausesKept'
<1> USE DEF TypeOK, LockNamesHolder, InGate, PausesKept, Rested, Capturing
<1>1. ASSUME NEW p \in Procs, NEW j \in Jobs, NEW g \in Groups, CaptureCommand(p, j, g)
      PROVE PausesKept'
  BY <1>1 DEF CaptureCommand, Goto, durable, local
<1>2. ASSUME NEW p \in Procs, NEW j \in Jobs, ResumeCommand(p, j)
      PROVE PausesKept'
  BY <1>2 DEF ResumeCommand, Goto, durable, local
<1>3. ASSUME NEW p \in Procs, Enter(p) PROVE PausesKept'
  BY <1>3 DEF Enter, LockIsFree, Goto, durable, local
<1>4. ASSUME NEW p \in Procs, Refused(p) PROVE PausesKept'
  BY <1>4 DEF Refused, Goto, durable, local
<1>5. ASSUME NEW p \in Procs, ReadPause(p) PROVE PausesKept'
  <2>1. /\ pc[p] = "pause" /\ pc' = [pc EXCEPT ![p] = "sleep"]
        /\ UNCHANGED <<job, context, ended, now, target>>
    BY <1>5 DEF ReadPause, Goto, durable
  <2>2. Rested(p, wake'[p])
    BY <1>5, PauseLongEnough DEF Others
  <2>3. \A q \in Procs : q # p => pc[q] \notin InGate
    BY <1>5 DEF ReadPause
  <2>4. \A q \in Procs : q # p => pc'[q] = pc[q]
    BY <1>5 DEF ReadPause, Goto
  <2> QED BY <2>1, <2>2, <2>3, <2>4
<1>6. ASSUME NEW p \in Procs, Wake(p) PROVE PausesKept'
  <2>1. /\ pc[p] = "sleep" /\ now >= wake[p]
        /\ \E step \in {"create", "start"} : pc' = [pc EXCEPT ![p] = step]
        /\ UNCHANGED <<job, context, ended, now, target>>
    BY <1>6 DEF Wake, Goto, durable, local
  <2>2. Rested(p, now)
    BY <1>6, <2>1, WakesRested
  <2>3. \A q \in Procs : q # p => pc[q] \notin InGate
    BY <1>6 DEF Wake
  <2>4. \A q \in Procs : q # p => pc'[q] = pc[q]
    BY <1>6 DEF Wake, Goto
  <2> QED BY <2>1, <2>2, <2>3, <2>4
<1>7. ASSUME NEW p \in Procs, CreateJob(p) PROVE PausesKept'
  BY <1>7 DEF CreateJob, Goto, durable, local
<1>8. ASSUME NEW p \in Procs, CreateContext(p) PROVE PausesKept'
  BY <1>8 DEF CreateContext, Goto, durable, local
<1>9. ASSUME NEW p \in Procs, StartRun(p) PROVE PausesKept'
  BY <1>9 DEF StartRun, Goto, durable, local
<1>10. ASSUME NEW p \in Procs, NotRunnable(p) PROVE PausesKept'
  BY <1>10 DEF NotRunnable, Leave, Goto, durable, local
<1>11. ASSUME NEW p \in Procs, Succeed(p) PROVE PausesKept'
  BY <1>11 DEF Succeed, Goto, durable, local
<1>12. ASSUME NEW p \in Procs, Stop(p) PROVE PausesKept'
  BY <1>12 DEF Stop, Goto, durable, local
<1>13. ASSUME NEW p \in Procs, Fail(p) PROVE PausesKept'
  BY <1>13 DEF Fail, Leave, Goto, durable, local
<1>14. ASSUME NEW p \in Procs, Deliver(p) PROVE PausesKept'
  BY <1>14 DEF Deliver, Goto, durable, local
<1>15. ASSUME NEW p \in Procs, WriteReceipt(p) PROVE PausesKept'
  BY <1>15 DEF WriteReceipt, Leave, Goto, durable, local
<1>16. ASSUME NEW p \in Procs, Raise(p) PROVE PausesKept'
  BY <1>16 DEF Raise, Leave, Goto, durable, local
<1>17. ASSUME NEW p \in Procs, Die(p) PROVE PausesKept'
  BY <1>17 DEF Die, Goto, durable, local
<1>18. ASSUME ClearLock PROVE PausesKept'
  BY <1>18 DEF ClearLock, durable, local
<1>19. ASSUME Tick PROVE PausesKept'
  <2>1. now' = now + 1 /\ UNCHANGED <<job, context, ended, pc, target, wake>>
    BY <1>19 DEF Tick, durable, local
  <2>2. ASSUME NEW q \in Procs, Rested(q, now) PROVE Rested(q, now)'
    BY <1>19, <2>1, <2>2, TickAdvances
  <2> QED BY <2>1, <2>2
<1>20. CASE UNCHANGED vars
  BY <1>20 DEF vars, durable, local, durable, local
<1> QED
  BY <1>1, <1>2, <1>3, <1>4, <1>5, <1>6, <1>7, <1>8, <1>9, <1>10, <1>11, <1>12, <1>13, <1>14, <1>15, <1>16, <1>17, <1>18, <1>19, <1>20 DEF Next, Command, Body

(***************************************************************************)
(* The theorems.                                                           *)
(***************************************************************************)

(* Every step keeps the invariant. *)
LEMMA InvariantStep == IInv /\ [Next]_vars => IInv'
BY TypeStep, LockStep, SharedStep, AwareStep, PauseStep DEF IInv

(* The invariant holds however many processes run, die and resume. *)
THEOREM Invariant == Spec => []IInv
<1>1. Init => IInv
  BY InitHolds
<1>2. IInv /\ [Next]_vars => IInv'
  BY InvariantStep
<1> QED
  BY <1>1, <1>2, PTL DEF Spec

(* The lock file, the rows and the memory of the commands keep their types. *)
THEOREM TypeCorrect == Spec => []TypeOK
<1>1. IInv => TypeOK
  BY DEF IInv
<1> QED
  BY <1>1, Invariant, PTL

(* One process at most is inside _operator_capture_gate, the one whose pid the
   lock file holds. *)
THEOREM OneCaptureAtATime == Spec => []LockNamesHolder
<1>1. IInv => LockNamesHolder
  BY DEF IInv
<1> QED
  BY <1>1, Invariant, PTL

(* Between captures of different Groups lies the pause: what a process reads
   once before it sleeps stays true, because nobody else can end a job. *)
THEOREM GroupsArePaused == Spec => []PausedBetweenGroups
<1>1. IInv => PausedBetweenGroups
  BY DEF IInv, PausesKept, Rested, PausedBetweenGroups
<1> QED
  BY <1>1, Invariant, PTL

(* Whoever captures pages has a running job and its Group. *)
THEOREM OnlyRunningJobs == Spec => []CapturesRunningJob
<1>1. IInv => CapturesRunningJob
  BY DEF IInv, CommandsAware, Aware, Named, CapturesRunningJob
<1> QED
  BY <1>1, Invariant, PTL

(* What a step may do to a job that has ended: nothing. *)
EndedKept ==
  \A j \in Jobs : job[j] \in {"succeeded", "failed"} => job'[j] = job[j] /\ ended'[j] = ended[j]
(* No step reopens an ended job: the rows are written for a job that is
   absent, startable or running. *)
LEMMA EndedStep ==
  ASSUME IInv, [Next]_vars
  PROVE  EndedKept
<1> USE DEF EndedKept, CommandsAware, Aware, IInv
<1>1. ASSUME NEW p \in Procs, NEW j \in Jobs, NEW g \in Groups, CaptureCommand(p, j, g)
      PROVE EndedKept
  BY <1>1 DEF CaptureCommand, Goto, durable, local
<1>2. ASSUME NEW p \in Procs, NEW j \in Jobs, ResumeCommand(p, j)
      PROVE EndedKept
  BY <1>2 DEF ResumeCommand, Goto, durable, local
<1>3. ASSUME NEW p \in Procs, Enter(p) PROVE EndedKept
  BY <1>3 DEF Enter, LockIsFree, Goto, durable, local
<1>4. ASSUME NEW p \in Procs, Refused(p) PROVE EndedKept
  BY <1>4 DEF Refused, Goto, durable, local
<1>5. ASSUME NEW p \in Procs, ReadPause(p) PROVE EndedKept
  BY <1>5 DEF ReadPause, Goto, durable, local
<1>6. ASSUME NEW p \in Procs, Wake(p) PROVE EndedKept
  BY <1>6 DEF Wake, Goto, durable, local
<1>7. ASSUME NEW p \in Procs, CreateJob(p) PROVE EndedKept
  BY <1>7 DEF CreateJob, Goto, durable, local
<1>8. ASSUME NEW p \in Procs, CreateContext(p) PROVE EndedKept
  BY <1>8 DEF CreateContext, Goto, durable, local
<1>9. ASSUME NEW p \in Procs, StartRun(p) PROVE EndedKept
  BY <1>9 DEF StartRun, Goto, durable, local, Startable
<1>10. ASSUME NEW p \in Procs, NotRunnable(p) PROVE EndedKept
  BY <1>10 DEF NotRunnable, Leave, Goto, durable, local
<1>11. ASSUME NEW p \in Procs, Succeed(p) PROVE EndedKept
  BY <1>11 DEF Succeed, Goto, durable, local
<1>12. ASSUME NEW p \in Procs, Stop(p) PROVE EndedKept
  <2>1. pc[p] = "pages" /\ job' = [job EXCEPT ![me[p]] = "failed"] /\ UNCHANGED ended
    BY <1>12 DEF Stop
  <2>2. job[me[p]] = "running"
    BY <2>1
  <2> QED BY <2>1, <2>2
<1>13. ASSUME NEW p \in Procs, Fail(p) PROVE EndedKept
  BY <1>13 DEF Fail, Leave, Goto, durable, local
<1>14. ASSUME NEW p \in Procs, Deliver(p) PROVE EndedKept
  BY <1>14 DEF Deliver, Goto, durable, local
<1>15. ASSUME NEW p \in Procs, WriteReceipt(p) PROVE EndedKept
  BY <1>15 DEF WriteReceipt, Leave, Goto, durable, local
<1>16. ASSUME NEW p \in Procs, Raise(p) PROVE EndedKept
  BY <1>16 DEF Raise, Leave, Goto, durable, local
<1>17. ASSUME NEW p \in Procs, Die(p) PROVE EndedKept
  BY <1>17 DEF Die, Goto, durable, local
<1>18. ASSUME ClearLock PROVE EndedKept
  BY <1>18 DEF ClearLock, durable, local
<1>19. ASSUME Tick PROVE EndedKept
  BY <1>19 DEF Tick, durable, local
<1>20. CASE UNCHANGED vars
  BY <1>20 DEF vars, durable, local, durable, local
<1> QED
  BY <1>1, <1>2, <1>3, <1>4, <1>5, <1>6, <1>7, <1>8, <1>9, <1>10, <1>11, <1>12, <1>13, <1>14, <1>15, <1>16, <1>17, <1>18, <1>19, <1>20 DEF Next, Command, Body

(* A job that ended stays as it ended, also under resume commands that read
   its row before they had the gate. *)
THEOREM EndedJobsStay == Spec => EndedStays
<1>1. IInv /\ [Next]_vars => [EndedKept]_vars
  BY EndedStep
<1>2. EndedStays <=> [][EndedKept]_vars
  BY PTL DEF EndedStays, EndedKept
<1> QED
  BY <1>1, <1>2, Invariant, PTL DEF Spec
=============================================================================
