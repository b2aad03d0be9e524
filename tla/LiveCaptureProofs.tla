-------------------------- MODULE LiveCaptureProofs --------------------------
(***************************************************************************)
(* Proofs about LiveCapture for every set of jobs, renderings, records and *)
(* cursors, every page bound and every number of process deaths.           *)
(***************************************************************************)
EXTENDS LiveCapture, FiniteSetTheorems, SequenceTheorems, TLAPS

(***************************************************************************)
(* The resume position of a contiguous checkpoint table.                   *)
(***************************************************************************)

(* A contiguous non-empty table resumes at its last row. *)
LEMMA LatestIsLast ==
  ASSUME NEW table, NEW k \in Nat, k > 0, DOMAIN table = 1..k
  PROVE  Latest(table) = k
BY DEF Latest

(* The position of a table of k rows. *)
LEMMA PositionOfTable ==
  ASSUME NEW table, NEW k \in Nat, DOMAIN table = 1..k
  PROVE  /\ k = 0 => ResumePosition(table) = [cursor |-> NoCursor, pages |-> 0, seen |-> {}]
         /\ k > 0 => ResumePosition(table) =
              [cursor |-> table[k].cursor, pages |-> k,
               seen |-> {table[n].cursor : n \in 1..k} \ {NoCursor}]
<1>1. CASE k = 0
  BY <1>1 DEF ResumePosition
<1>2. CASE k > 0
  <2>1. Latest(table) = k
    BY <1>2, LatestIsLast
  <2>2. DOMAIN table # {}
    BY <1>2
  <2>3. ResumePosition(table) =
          [cursor |-> table[Latest(table)].cursor, pages |-> Latest(table),
           seen |-> {table[n].cursor : n \in DOMAIN table} \ {NoCursor}]
    BY <2>2, Zenon DEF ResumePosition
  <2>4. ResumePosition(table) =
          [cursor |-> table[k].cursor, pages |-> k,
           seen |-> {table[n].cursor : n \in 1..k} \ {NoCursor}]
    BY <2>1, <2>3, Zenon
  <2> QED
    BY <1>2, <2>4
<1> QED
  BY <1>1, <1>2

(* Appending a row that leaves cursor c moves the position the way the running
   loop moves its own. *)
LEMMA PositionAdvances ==
  ASSUME NEW table, NEW k \in Nat, DOMAIN table = 1..k,
         NEW row, row.cursor \in Cursors
  PROVE  ResumePosition(Upsert(table, k + 1, row)) =
           [cursor |-> row.cursor, pages |-> k + 1,
            seen |-> ResumePosition(table).seen \cup {row.cursor}]
<1> DEFINE up == Upsert(table, k + 1, row)
<1>1. DOMAIN up = 1..(k + 1) /\ up[k + 1] = row /\ \A n \in 1..k : up[n] = table[n]
  BY DEF Upsert
<1>2. ResumePosition(up) = [cursor |-> up[k + 1].cursor, pages |-> k + 1,
                            seen |-> {up[n].cursor : n \in 1..(k + 1)} \ {NoCursor}]
  <2> HIDE DEF up
  <2> QED BY <1>1, PositionOfTable
<1>3. ResumePosition(table).seen = {table[n].cursor : n \in 1..k} \ {NoCursor}
  <2>1. CASE k = 0
    BY <2>1, PositionOfTable
  <2>2. CASE k > 0
    BY <2>2, PositionOfTable
  <2> QED BY <2>1, <2>2
<1>4. {up[n].cursor : n \in 1..(k + 1)} = {table[n].cursor : n \in 1..k} \cup {row.cursor}
  <2> HIDE DEF up
  <2>1. 1..(k + 1) = 1..k \cup {k + 1}
    OBVIOUS
  <2> QED BY <1>1, <2>1
<1>5. row.cursor # NoCursor
  BY ConstantsAssumption
<1> HIDE DEF up
<1>6. {up[n].cursor : n \in 1..(k + 1)} \ {NoCursor}
        = ResumePosition(table).seen \cup {row.cursor}
  BY <1>3, <1>4, <1>5, Zenon
<1>7. up[k + 1].cursor = row.cursor
  BY <1>1
<1>8. ResumePosition(up) = [cursor |-> row.cursor, pages |-> k + 1,
                            seen |-> ResumePosition(table).seen \cup {row.cursor}]
  BY <1>2, <1>6, <1>7, Zenon
<1> QED
  BY <1>8 DEF up

(* Rows of the type read from a table give a position of the type. *)
LEMMA PositionType ==
  ASSUME NEW table, NEW k \in 0..MaxPages, DOMAIN table = 1..k,
         table \in [1..k -> CheckpointRows]
  PROVE  ResumePosition(table) \in
           [cursor : CursorsOrNone, pages : 0..MaxPages, seen : SUBSET Cursors]
<1>1. \A n \in 1..k : table[n].cursor \in CursorsOrNone
  BY DEF CheckpointRows
<1>2. CASE k = 0
  BY <1>2, PositionOfTable DEF CursorsOrNone
<1>3. CASE k > 0
  BY <1>1, <1>3, PositionOfTable DEF CursorsOrNone
<1> QED
  BY <1>2, <1>3

(***************************************************************************)
(* Types.                                                                  *)
(***************************************************************************)

(* A page being worked on is within the page budget. *)
LEMMA PagesType ==
  ASSUME TypeOK, ControlOK, pc \in PageSteps
  PROVE  pos.pages \in Nat /\ pos.pages + 1 \in 1..MaxPages
<1>1. pos.pages \in 0..MaxPages
  BY DEF TypeOK
<1>2. pos.pages < MaxPages
  BY DEF ControlOK
<1> QED
  BY <1>1, <1>2, ConstantsAssumption

(* While a page is being worked on, its capture id is well formed. *)
LEMMA CaptureType ==
  ASSUME TypeOK, ControlOK, pc \in PageSteps
  PROVE  Capture \in Captures
<1>1. me \in Jobs /\ pos.cursor \in CursorsOrNone /\ page.bytes \in Bytes
  BY DEF TypeOK
<1> QED
  BY <1>1, PagesType DEF Capture, Captures

(* An upsert of a row of the type keeps a table in its type. *)
LEMMA UpsertType ==
  ASSUME NEW table, DOMAIN table \subseteq 1..MaxPages,
         table \in [DOMAIN table -> CheckpointRows],
         NEW n \in 1..MaxPages, NEW row \in CheckpointRows
  PROVE  /\ DOMAIN Upsert(table, n, row) \subseteq 1..MaxPages
         /\ Upsert(table, n, row) \in [DOMAIN Upsert(table, n, row) -> CheckpointRows]
<1>1. DOMAIN Upsert(table, n, row) = DOMAIN table \cup {n}
  BY DEF Upsert
<1>2. \A m \in DOMAIN table \cup {n} :
        (IF m = n THEN row ELSE table[m]) \in CheckpointRows
  OBVIOUS
<1>3. Upsert(table, n, row) \in [DOMAIN table \cup {n} -> CheckpointRows]
  BY <1>2 DEF Upsert
<1> QED
  BY <1>1, <1>3

(* The memory of a process that starts is of the type. *)
LEMMA StartType ==
  /\ Start \in [cursor : CursorsOrNone, pages : 0..MaxPages, seen : SUBSET Cursors]
  /\ NoPage \in [bytes : Bytes, next : CursorsOrNone, at : Nat]
  /\ NoClass \in Classes
<1>0. NoClass \in Classes
  BY ConstantsAssumption DEF NoClass
<1>1. (CHOOSE b \in Bytes : TRUE) \in Bytes
  BY ConstantsAssumption
<1>2. Start = [cursor |-> NoCursor, pages |-> 0, seen |-> {}]
  BY DEF Start, ResumePosition
<1> QED
  BY <1>0, <1>1, <1>2, ConstantsAssumption DEF NoPage, CursorsOrNone

(* The position that a table of the type leaves is of the type. *)
LEMMA TablePositionType ==
  ASSUME TypeOK, TablesOK, NEW j \in Jobs
  PROVE  ResumePosition(checkpoints[j]) \in
           [cursor : CursorsOrNone, pages : 0..MaxPages, seen : SUBSET Cursors]
<1>1. PICK k \in 0..MaxPages : DOMAIN checkpoints[j] = 1..k
  BY DEF TablesOK, TableOK
<1>2. checkpoints[j] \in [1..k -> CheckpointRows]
  BY <1>1 DEF TypeOK
<1> QED
  BY <1>1, <1>2, PositionType

(* A process that ends leaves the types alone. *)
LEMMA ExitType ==
  ASSUME TypeOK, Exit, UNCHANGED <<task, checkpoints, files, rawRows, canon, attempts>>,
         job' \in [Jobs -> JobStates]
  PROVE  TypeOK'
BY StartType DEF TypeOK, Exit, Steps

LEMMA TypeStep == IInv /\ [Next]_vars => TypeOK'
<1> SUFFICES ASSUME IInv, [Next]_vars PROVE TypeOK'
  OBVIOUS
<1> USE DEF Steps
<1>0. TypeOK /\ TablesOK /\ ControlOK
  BY DEF IInv
<1>1. ASSUME NEW j \in Jobs, Begin(j) PROVE TypeOK'
  <2>1. job' \in [Jobs -> JobStates]
    BY <1>0, <1>1 DEF Begin, Transition, TypeOK, JobStates
  <2>2. starts' \in 0..MaxStarts
    BY <1>0, <1>1, ConstantsAssumption DEF Begin, TypeOK
  <2> QED
    BY <1>0, <1>1, <2>1, <2>2 DEF Begin, TypeOK
<1>2. CASE Open
  <2>1. pos' \in [cursor : CursorsOrNone, pages : 0..MaxPages, seen : SUBSET Cursors]
    BY <1>0, <1>2, TablePositionType DEF Open, TypeOK
  <2>2. task' \in [Jobs -> TaskStates]
    BY <1>0, <1>2 DEF Open, TypeOK, TaskStates
  <2> QED
    BY <1>0, <1>2, <2>1, <2>2 DEF Open, TypeOK
<1>3. CASE Fetch
  <2>1. PICK b \in Bytes, next \in CursorsOrNone :
          LET cap == [job |-> me, page |-> pos.pages + 1, cursor |-> pos.cursor, bytes |-> b]
          IN  /\ page' = [bytes |-> b, next |-> next,
                          at |-> IF rawRows[cap] # 0 THEN rawRows[cap] ELSE clock + 1]
              /\ clock' = IF rawRows[cap] # 0 THEN clock ELSE clock + 1
    BY <1>3 DEF Fetch
  <2> DEFINE cap == [job |-> me, page |-> pos.pages + 1, cursor |-> pos.cursor, bytes |-> b]
  <2>2. cap \in Captures
    BY <1>0, <1>3, ConstantsAssumption DEF Fetch, TypeOK, ControlOK, PageSteps, Captures
  <2>3. rawRows[cap] \in Nat /\ clock \in Nat
    BY <1>0, <2>2 DEF TypeOK
  <2>4. page' \in [bytes : Bytes, next : CursorsOrNone, at : Nat] /\ clock' \in Nat
    BY <2>1, <2>3
  <2> QED
    BY <1>0, <1>3, <2>4 DEF Fetch, TypeOK, durable
<1>4. CASE FetchStops
  BY <1>0, <1>4 DEF FetchStops, TypeOK, durable, local
<1>5. CASE WriteRaw
  <2>1. Capture \in Captures
    BY <1>0, <1>5, CaptureType DEF WriteRaw, PageSteps
  <2> QED
    BY <1>0, <1>5, <2>1 DEF WriteRaw, TypeOK, local
<1>6. CASE AddRow
  <2>1. Capture \in Captures
    BY <1>0, <1>6, CaptureType DEF AddRow, PageSteps
  <2>2. rawRows' \in [Captures -> Nat]
    BY <1>0, <1>6, <2>1 DEF AddRow, TypeOK
  <2>3. todo' \subseteq Records
    <3>1. page.bytes \in Bytes /\ todo \subseteq Records
      BY <1>0 DEF TypeOK
    <3>2. Content[page.bytes] \subseteq Records
      BY <3>1, ConstantsAssumption
    <3> QED
      BY <1>6, <3>1, <3>2 DEF AddRow
  <2> QED
    BY <1>0, <1>6, <2>2, <2>3 DEF AddRow, TypeOK
<1>7. ASSUME NEW r \in Records, Save(r) PROVE TypeOK'
  <2>1. Capture \in Captures
    BY <1>0, <1>7, CaptureType DEF Save, PageSteps
  <2>2. canon' \in [Records -> [at : Nat, capture : Captures \cup {NoCapture}, class : Classes]]
    <3>1. Row \in [at : Nat, capture : Captures \cup {NoCapture}, class : Classes]
      BY <1>0, <2>1 DEF TypeOK, Row
    <3> QED
      BY <1>0, <1>7, <3>1, Zenon DEF Save, TypeOK
  <2> QED
    BY <1>0, <1>7, <2>2 DEF Save, TypeOK
<1>8. ASSUME NEW r \in Records, SaveRefused(r) PROVE TypeOK'
  BY <1>0, <1>8, ExitType DEF SaveRefused, TypeOK, durable
<1>9. CASE Commit
  <2>1. page' \in [bytes : Bytes, next : CursorsOrNone, at : Nat]
    BY <1>9, StartType DEF Commit
  <2>2. /\ Capture \in Captures
        /\ pos.pages + 1 \in 1..MaxPages
        /\ page.next \in CursorsOrNone
    <3>1. pc \in PageSteps
      BY <1>9 DEF Commit, PageSteps
    <3>2. pos.pages + 1 \in 1..MaxPages
      BY <1>0, <3>1, PagesType
    <3> QED
      BY <1>0, <3>1, <3>2, CaptureType DEF TypeOK
  <2>3. pos' \in [cursor : CursorsOrNone, pages : 0..MaxPages, seen : SUBSET Cursors]
    <3>1. CASE pos' = pos
      BY <1>0, <3>1 DEF TypeOK
    <3>2. CASE page.next # NoCursor /\ pos' = Advanced(page.next)
      <4>1. pos.seen \subseteq Cursors /\ page.next \in Cursors
        BY <1>0, <2>2, <3>2 DEF TypeOK, CursorsOrNone
      <4>2. pos.pages + 1 \in 0..MaxPages /\ pos.seen \cup {page.next} \in SUBSET Cursors
        BY <2>2, <4>1, ConstantsAssumption
      <4> QED
        BY <2>2, <3>2, <4>2 DEF Advanced
    <3> QED
      BY <1>9, <3>1, <3>2 DEF Commit
  <2>4. CASE checkpoints' = checkpoints
    BY <1>0, <1>9, <2>1, <2>3, <2>4 DEF Commit, TypeOK
  <2>5. CASE checkpoints' = [checkpoints EXCEPT ![me] =
               Upsert(@, pos.pages + 1, [capture |-> Capture, cursor |-> page.next])]
    <3> DEFINE row == [capture |-> Capture, cursor |-> page.next]
    <3>1. row \in CheckpointRows
      BY <2>2 DEF CheckpointRows
    <3>2. DOMAIN checkpoints' = Jobs
      BY <1>0, <2>5 DEF TypeOK
    <3>3. ASSUME NEW j \in Jobs
          PROVE  /\ DOMAIN checkpoints'[j] \subseteq 1..MaxPages
                 /\ checkpoints'[j] \in [DOMAIN checkpoints'[j] -> CheckpointRows]
      <4>1. CASE j = me
        <5>1. checkpoints'[j] = Upsert(checkpoints[j], pos.pages + 1, row)
          BY <1>0, <2>5, <4>1 DEF TypeOK
        <5>2. /\ DOMAIN checkpoints[j] \subseteq 1..MaxPages
              /\ checkpoints[j] \in [DOMAIN checkpoints[j] -> CheckpointRows]
          BY <1>0 DEF TypeOK
        <5> HIDE DEF row
        <5> QED
          BY <2>2, <3>1, <5>1, <5>2, UpsertType
      <4>2. CASE j # me
        <5>1. checkpoints'[j] = checkpoints[j]
          BY <1>0, <2>5, <4>2 DEF TypeOK
        <5> QED
          BY <1>0, <5>1 DEF TypeOK
      <4> QED BY <4>1, <4>2
    <3>4. /\ pc' \in Steps
          /\ verdict' \in {"succeeded", "failed", "interrupted"}
          /\ UNCHANGED <<job, task, files, rawRows, canon, attempts, clock, me, class, todo, starts>>
      BY <1>0, <1>9 DEF Commit, TypeOK
    <3> QED
      BY <1>0, <2>1, <2>3, <3>2, <3>3, <3>4 DEF TypeOK
  <2> QED
    BY <1>9, <2>4, <2>5 DEF Commit
<1>10. CASE RecordFailure
  <2>1. attempts' \in [Jobs -> Nat]
    <3>1. attempts \in [Jobs -> Nat] /\ me \in Jobs
      BY <1>0 DEF TypeOK
    <3>2. attempts' = [attempts EXCEPT ![me] = @ + 1]
      BY <1>10 DEF RecordFailure
    <3> QED
      BY <3>1, <3>2
  <2> QED
    BY <1>0, <1>10, <2>1 DEF RecordFailure, TypeOK
<1>11. CASE SetTask
  BY <1>0, <1>11 DEF SetTask, TypeOK, TaskStates, local
<1>12. CASE SetJob
  <2>1. job' \in [Jobs -> JobStates]
    BY <1>0, <1>12 DEF SetJob, Transition, TypeOK, JobStates
  <2> QED
    BY <1>0, <1>12, <2>1, ExitType DEF SetJob
<1>13. CASE Die
  BY <1>0, <1>13, ExitType DEF Die, TypeOK, durable
<1>14. CASE UNCHANGED vars
  BY <1>0, <1>14 DEF TypeOK, vars, durable, local
<1> QED
  BY <1>1, <1>2, <1>3, <1>4, <1>5, <1>6, <1>7, <1>8, <1>9, <1>10, <1>11, <1>12, <1>13,
     <1>14 DEF Next, Step

(***************************************************************************)
(* The checkpoint tables.                                                  *)
(***************************************************************************)

(* What a commit does, without the IF: it stops at a bound, or checkpoints the
   page and stops or goes on. *)
LEMMA CommitCases ==
  ASSUME Commit
  PROVE  \/ /\ page.next # NoCursor
            /\ pc' = "record failure"
            /\ UNCHANGED <<checkpoints, pos, verdict>>
         \/ /\ page.next # NoCursor => ~OverLimit /\ ~Looping
            /\ checkpoints' = [checkpoints EXCEPT ![me] =
                 Upsert(@, pos.pages + 1, [capture |-> Capture, cursor |-> page.next])]
            /\ \/ pc' = "set task" /\ verdict' = "interrupted"
               \/ page.next = NoCursor /\ pc' = "set task" /\ verdict' = "succeeded"
               \/ page.next # NoCursor /\ pc' = "fetch" /\ pos' = Advanced(page.next)
BY Zenon DEF Commit

(* Only a commit writes checkpoints, and only its own job's. *)
LEMMA CheckpointsChange ==
  ASSUME [Next]_vars, checkpoints' # checkpoints
  PROVE  Commit
BY DEF Next, Step, vars, durable, local, Begin, Open, Fetch, FetchStops, WriteRaw, AddRow, Save,
       SaveRefused, RecordFailure, SetTask, SetJob, Die

(* The table of the job being captured has as many rows as the position counts,
   none of them terminal while a page is being worked on. *)
LEMMA TableOfJob ==
  ASSUME IInv, pc \in PageSteps
  PROVE  /\ pos.pages \in Nat /\ pos.pages + 1 \in 1..MaxPages
         /\ DOMAIN checkpoints[me] = 1..pos.pages
         /\ \A n \in 1..pos.pages : checkpoints[me][n].cursor # NoCursor
         /\ pos = ResumePosition(checkpoints[me])
<1>1. TypeOK /\ TablesOK /\ ControlOK /\ ResumeContinues
  BY DEF IInv
<1>2. me \in Jobs
  BY <1>1 DEF TypeOK
<1>3. PICK k \in 0..MaxPages : DOMAIN checkpoints[me] = 1..k
  BY <1>1, <1>2 DEF TablesOK, TableOK
<1>4. pos = ResumePosition(checkpoints[me])
  BY <1>1 DEF ResumeContinues, PageSteps
<1>5. pos.pages = k
  BY <1>3, <1>4, PositionOfTable
<1>6. ~Terminal(checkpoints[me])
  BY <1>1 DEF ControlOK
<1> QED
  BY <1>1, <1>3, <1>4, <1>5, <1>6, PagesType DEF Terminal

(* The table after a commit that checkpoints its page. *)
LEMMA TableAfterCommit ==
  ASSUME IInv, Commit, checkpoints' # checkpoints
  PROVE  /\ me \in Jobs
         /\ page.next # NoCursor => ~OverLimit /\ ~Looping
         /\ DOMAIN checkpoints' = Jobs
         /\ DOMAIN checkpoints'[me] = 1..(pos.pages + 1)
         /\ checkpoints'[me][pos.pages + 1] = [capture |-> Capture, cursor |-> page.next]
         /\ \A n \in 1..pos.pages : checkpoints'[me][n] = checkpoints[me][n]
         /\ \A j \in Jobs \ {me} : checkpoints'[j] = checkpoints[j]
         /\ checkpoints'[me] = Upsert(checkpoints[me], pos.pages + 1,
                                      [capture |-> Capture, cursor |-> page.next])
<1>1. me \in Jobs /\ DOMAIN checkpoints = Jobs
  BY DEF IInv, TypeOK
<1>2. pc \in PageSteps
  BY DEF Commit, PageSteps
<1>3. /\ page.next # NoCursor => ~OverLimit /\ ~Looping
      /\ checkpoints' = [checkpoints EXCEPT ![me] =
           Upsert(@, pos.pages + 1, [capture |-> Capture, cursor |-> page.next])]
  BY CommitCases
<1> DEFINE row == [capture |-> Capture, cursor |-> page.next]
<1>4. checkpoints'[me] = Upsert(checkpoints[me], pos.pages + 1, row)
  BY <1>1, <1>3
<1>5. DOMAIN checkpoints' = Jobs /\ \A j \in Jobs \ {me} : checkpoints'[j] = checkpoints[j]
  BY <1>1, <1>3
<1>6. pos.pages \in Nat /\ DOMAIN checkpoints[me] = 1..pos.pages
  BY <1>2, TableOfJob
<1> HIDE DEF row
<1>7. /\ DOMAIN checkpoints'[me] = 1..(pos.pages + 1)
      /\ checkpoints'[me][pos.pages + 1] = row
      /\ \A n \in 1..pos.pages : checkpoints'[me][n] = checkpoints[me][n]
  BY <1>4, <1>6 DEF Upsert
<1> QED
  BY <1>1, <1>3, <1>4, <1>5, <1>7 DEF row

LEMMA TablesStep == IInv /\ [Next]_vars => TablesOK'
<1> SUFFICES ASSUME IInv, [Next]_vars, NEW j \in Jobs PROVE TableOK(checkpoints'[j])
  BY DEF TablesOK, TableOK
<1>1. TableOK(checkpoints[j])
  BY DEF IInv, TablesOK
<1>2. CASE checkpoints'[j] = checkpoints[j]
  BY <1>1, <1>2
<1>3. CASE checkpoints'[j] # checkpoints[j]
  <2>1. Commit /\ checkpoints' # checkpoints
    BY <1>3, CheckpointsChange
  <2>2. j = me
    BY <1>3, <2>1, TableAfterCommit
  <2>3. /\ pos.pages \in Nat /\ pos.pages + 1 \in 1..MaxPages
        /\ \A n \in 1..pos.pages : checkpoints[me][n].cursor # NoCursor
    BY <2>1, TableOfJob DEF Commit, PageSteps
  <2> DEFINE k == pos.pages + 1
  <2>4. k \in 0..MaxPages /\ DOMAIN checkpoints'[me] = 1..k
    BY <2>1, <2>3, TableAfterCommit
  <2>5. \A n \in 1..k : n # k => checkpoints'[me][n].cursor # NoCursor
    BY <2>1, <2>3, TableAfterCommit
  <2>6. k # MaxPages \/ checkpoints'[me][k].cursor = NoCursor
    BY <2>1, <2>3, TableAfterCommit, ConstantsAssumption DEF OverLimit
  <2>7. \A n \in 1..k : n < k \/ n = MaxPages =>
          (checkpoints'[me][n].cursor = NoCursor <=> n = k)
    BY <2>3, <2>5, <2>6, ConstantsAssumption
  <2> HIDE DEF k
  <2> QED
    BY <2>2, <2>4, <2>7 DEF TableOK
<1> QED
  BY <1>2, <1>3

(***************************************************************************)
(* Control.                                                                *)
(***************************************************************************)

LEMMA ControlStep == IInv /\ [Next]_vars => ControlOK'
<1> SUFFICES ASSUME IInv, [Next]_vars PROVE ControlOK'
  OBVIOUS
<1>0. TypeOK /\ TablesOK /\ ControlOK /\ ResumeContinues /\ me \in Jobs
  BY DEF IInv, TypeOK
<1> USE DEF PageSteps
<1>1. ASSUME NEW j \in Jobs, Begin(j) PROVE ControlOK'
  <2>1. job'[j] = "running" /\ me' = j /\ pc' = "open"
    BY <1>0, <1>1 DEF Begin, Transition, TypeOK
  <2> QED
    BY <2>1 DEF ControlOK
<1>2. CASE Open
  <2>1. PICK k \in 0..MaxPages :
          /\ DOMAIN checkpoints[me] = 1..k
          /\ \A n \in 1..k : n < k \/ n = MaxPages =>
               (checkpoints[me][n].cursor = NoCursor <=> n = k)
    BY <1>0 DEF TablesOK, TableOK
  <2>2. pos'.pages = k /\ (k > 0 => pos'.cursor = checkpoints[me][k].cursor)
    <3>1. pos' = ResumePosition(checkpoints[me])
      BY <1>2 DEF Open
    <3>2. k \in Nat /\ DOMAIN checkpoints[me] = 1..k
      BY <2>1, ConstantsAssumption
    <3>3. CASE k = 0
      <4>1. pos' = [cursor |-> NoCursor, pages |-> 0, seen |-> {}]
        BY <3>1, <3>2, <3>3, PositionOfTable
      <4> QED
        BY <3>3, <4>1
    <3>4. CASE k > 0
      <4>1. pos' = [cursor |-> checkpoints[me][k].cursor, pages |-> k,
                    seen |-> {checkpoints[me][n].cursor : n \in 1..k} \ {NoCursor}]
        BY <3>1, <3>2, <3>4, PositionOfTable
      <4> QED
        BY <4>1
    <3> QED
      BY <3>2, <3>3, <3>4
  <2>3. me' = me /\ job' = job /\ checkpoints' = checkpoints /\ job[me] = "running"
    BY <1>0, <1>2 DEF Open, ControlOK
  <2>4. CASE pos'.cursor = NoCursor /\ pos'.pages > 0
    <3>1. pc' = "set task" /\ verdict' = "succeeded"
      BY <1>2, <2>4 DEF Open
    <3>2. Terminal(checkpoints[me])
      BY <2>1, <2>2, <2>4 DEF Terminal
    <3> QED
      BY <2>3, <3>1, <3>2 DEF ControlOK, Terminal
  <2>5. CASE ~(pos'.cursor = NoCursor /\ pos'.pages > 0)
    <3>1. pc' = "fetch"
      BY <1>2, <2>5 DEF Open
    <3>2. k < MaxPages
      BY <2>1, <2>2, <2>5, ConstantsAssumption
    <3>3. ~Terminal(checkpoints[me])
      BY <2>1, <2>2, <2>5 DEF Terminal
    <3> QED
      BY <2>2, <2>3, <3>1, <3>2, <3>3 DEF ControlOK, Terminal
  <2> QED
    BY <2>4, <2>5
<1>3. CASE Fetch
  BY <1>0, <1>3 DEF Fetch, ControlOK, Terminal, durable
<1>4. CASE FetchStops
  BY <1>0, <1>4 DEF FetchStops, ControlOK, Terminal, durable, local
<1>5. CASE WriteRaw
  BY <1>0, <1>5 DEF WriteRaw, ControlOK, Terminal, local
<1>6. CASE AddRow
  BY <1>0, <1>6 DEF AddRow, ControlOK, Terminal
<1>7. ASSUME NEW r \in Records, Save(r) PROVE ControlOK'
  BY <1>0, <1>7 DEF Save, ControlOK, Terminal
<1>8. ASSUME pc' = "idle" PROVE ControlOK'
  BY <1>8 DEF ControlOK
<1>9. CASE Commit
  <2>1. UNCHANGED <<job, me, attempts, task>> /\ job[me] = "running"
    BY <1>0, <1>9 DEF Commit, ControlOK
  <2>2. /\ pos.pages \in Nat /\ pos.pages + 1 \in 1..MaxPages
        /\ \A n \in 1..pos.pages : checkpoints[me][n].cursor # NoCursor
        /\ ~Terminal(checkpoints[me])
    BY <1>0, <1>9, TableOfJob DEF Commit, ControlOK
  <2>3. CASE pc' = "record failure" /\ checkpoints' = checkpoints
    BY <2>1, <2>2, <2>3 DEF ControlOK, Terminal
  <2>4. CASE ~(pc' = "record failure" /\ checkpoints' = checkpoints)
    <3>1. /\ page.next # NoCursor => ~OverLimit
          /\ checkpoints' = [checkpoints EXCEPT ![me] =
               Upsert(@, pos.pages + 1, [capture |-> Capture, cursor |-> page.next])]
          /\ \/ pc' = "set task" /\ verdict' = "interrupted"
             \/ page.next = NoCursor /\ pc' = "set task" /\ verdict' = "succeeded"
             \/ page.next # NoCursor /\ pc' = "fetch" /\ pos' = Advanced(page.next)
      BY <1>9, <2>4, CommitCases
    <3> DEFINE row == [capture |-> Capture, cursor |-> page.next]
    <3>2. checkpoints'[me] = Upsert(checkpoints[me], pos.pages + 1, row)
      BY <1>0, <3>1 DEF TypeOK
    <3>3. DOMAIN checkpoints[me] = 1..pos.pages
      BY <1>9, TableOfJob DEF Commit
    <3>4. row.cursor = page.next
      OBVIOUS
    <3> HIDE DEF row
    <3>5. /\ DOMAIN checkpoints'[me] = 1..(pos.pages + 1)
          /\ checkpoints'[me][pos.pages + 1] = row
          /\ \A n \in 1..pos.pages : checkpoints'[me][n] = checkpoints[me][n]
      BY <2>2, <3>2, <3>3 DEF Upsert
    <3>6. page.next = NoCursor => Terminal(checkpoints'[me])
      BY <2>2, <3>4, <3>5 DEF Terminal
    <3>7. page.next # NoCursor => ~Terminal(checkpoints'[me])
      <4> SUFFICES ASSUME page.next # NoCursor, NEW n \in 1..(pos.pages + 1)
                   PROVE  checkpoints'[me][n].cursor # NoCursor
        BY <3>5 DEF Terminal
      <4>1. CASE n = pos.pages + 1
        BY <3>4, <3>5, <4>1
      <4>2. CASE n \in 1..pos.pages
        BY <2>2, <3>5, <4>2
      <4> QED BY <2>2, <4>1, <4>2
    <3>8. DOMAIN checkpoints'[me] # {}
      BY <2>2, <3>5
    <3>9. pc' = "fetch" => pos'.pages < MaxPages
      BY <2>2, <3>1, ConstantsAssumption DEF Advanced, OverLimit
    <3> QED
      BY <2>1, <3>1, <3>6, <3>7, <3>8, <3>9, Zenon DEF ControlOK, Terminal
  <2> QED
    BY <2>3, <2>4
<1>10. CASE RecordFailure
  <2>1. attempts' = [attempts EXCEPT ![me] = @ + 1] /\ attempts \in [Jobs -> Nat]
    BY <1>0, <1>10 DEF RecordFailure, TypeOK
  <2>2. attempts'[me] > 0
    BY <1>0, <2>1
  <2> QED
    BY <1>0, <1>10, <2>2 DEF RecordFailure, ControlOK, Terminal
<1>11. CASE SetTask
  <2>1. task'[me] = verdict
    BY <1>0, <1>11 DEF SetTask, TypeOK
  <2> QED
    BY <1>0, <1>11, <2>1 DEF SetTask, ControlOK, Terminal, local
<1>12. CASE UNCHANGED vars
  BY <1>0, <1>12 DEF ControlOK, Terminal, vars, durable, local
<1> QED
  BY <1>1, <1>2, <1>3, <1>4, <1>5, <1>6, <1>7, <1>8, <1>9, <1>10, <1>11, <1>12
     DEF Next, Step, SaveRefused, SetJob, Die, Exit

(***************************************************************************)
(* Instants.                                                               *)
(***************************************************************************)

(* The capture id of the page in hand is its job, page, cursor and rendering. *)
LEMMA CaptureStays ==
  ASSUME UNCHANGED <<me, pos, page>>
  PROVE  Capture' = Capture
BY DEF Capture

LEMMA InstantsStep == IInv /\ [Next]_vars => InstantsOK'
<1> SUFFICES ASSUME IInv, [Next]_vars PROVE InstantsOK'
  OBVIOUS
<1>0. TypeOK /\ ControlOK /\ InstantsOK
  BY DEF IInv
<1>a. clock \in Nat /\ rawRows \in [Captures -> Nat]
  BY <1>0 DEF TypeOK
<1> USE DEF HoldsPage
<1>1. ASSUME pc' \in {"idle", "open", "fetch", "record failure", "set task", "set job"},
             UNCHANGED <<rawRows, clock>>
      PROVE  InstantsOK'
  BY <1>0, <1>1 DEF InstantsOK
<1>2. ASSUME UNCHANGED <<rawRows, clock, me, pos, page>>, files \subseteq files',
             pc \in {"raw", "row", "save", "commit"},
             pc' \in {"row", "save", "commit"},
             pc' = "row" => Capture \in files',
             pc' \in {"save", "commit"} => pc \in {"save", "commit"}
      PROVE  InstantsOK'
  <2>1. Capture' = Capture
    BY <1>2, CaptureStays
  <2> QED
    BY <1>0, <1>2, <2>1 DEF InstantsOK
<1>3. CASE Fetch
  <2>1. PICK b \in Bytes, next \in CursorsOrNone :
          LET cap == [job |-> me, page |-> pos.pages + 1, cursor |-> pos.cursor, bytes |-> b]
          IN  /\ page' = [bytes |-> b, next |-> next,
                          at |-> IF rawRows[cap] # 0 THEN rawRows[cap] ELSE clock + 1]
              /\ clock' = IF rawRows[cap] # 0 THEN clock ELSE clock + 1
    BY <1>3 DEF Fetch
  <2> DEFINE cap == [job |-> me, page |-> pos.pages + 1, cursor |-> pos.cursor, bytes |-> b]
  <2>2. me' = me /\ pos' = pos /\ rawRows' = rawRows /\ pc' = "raw" /\ pc = "fetch"
    BY <1>3 DEF Fetch, durable
  <2>3. Capture' = cap
    BY <2>1, <2>2 DEF Capture
  <2>4. cap \in Captures
    BY <1>0, <2>2, PagesType DEF TypeOK, PageSteps, Captures
  <2>5. /\ page'.at = IF rawRows[cap] # 0 THEN rawRows[cap] ELSE clock + 1
        /\ clock' = IF rawRows[cap] # 0 THEN clock ELSE clock + 1
    BY <2>1
  <2> HIDE DEF cap
  <2>6. \A c \in Captures : rawRows[c] \in Nat /\ rawRows[c] <= clock
    BY <1>0, <1>a DEF InstantsOK
  <2>7. /\ page'.at # 0 /\ page'.at <= clock' /\ clock <= clock' /\ clock' \in Nat
        /\ IF rawRows[cap] # 0 THEN rawRows[cap] = page'.at
           ELSE \A c \in Captures : rawRows[c] < page'.at
    BY <1>a, <2>4, <2>5, <2>6
  <2>8. \A c \in Captures : rawRows'[c] <= clock'
    BY <1>a, <2>2, <2>6, <2>7
  <2>9. \A c, d \in Captures : rawRows'[c] = rawRows'[d] /\ rawRows'[c] # 0 => c = d
    BY <1>0, <2>2 DEF InstantsOK
  <2> QED
    BY <2>2, <2>3, <2>7, <2>8, <2>9 DEF InstantsOK
<1>4. CASE WriteRaw
  BY <1>2, <1>4 DEF WriteRaw, local
<1>5. CASE AddRow
  <2>1. /\ pc = "row" /\ pc' \in {"save", "record failure"}
        /\ UNCHANGED <<me, pos, page, clock>>
        /\ rawRows' = [rawRows EXCEPT ![Capture] = IF @ = 0 THEN page.at ELSE @]
    BY <1>5 DEF AddRow
  <2>2. Capture \in Captures /\ Capture' = Capture
    BY <1>0, <2>1, CaptureType, CaptureStays DEF PageSteps
  <2>3. /\ page.at # 0 /\ page.at <= clock /\ page.at \in Nat
        /\ IF rawRows[Capture] # 0 THEN rawRows[Capture] = page.at
           ELSE \A c \in Captures : rawRows[c] < page.at
    BY <1>0, <2>1 DEF InstantsOK, TypeOK
  <2>4. /\ rawRows'[Capture] = page.at
        /\ \A c \in Captures \ {Capture} : rawRows'[c] = rawRows[c]
    BY <1>a, <2>1, <2>2, <2>3
  <2>5. \A c \in Captures : rawRows[c] \in Nat /\ rawRows[c] <= clock
    BY <1>0, <1>a DEF InstantsOK
  <2>6. \A c, d \in Captures : rawRows[c] = rawRows[d] /\ rawRows[c] # 0 => c = d
    BY <1>0 DEF InstantsOK
  <2>7. \A c \in Captures \ {Capture} : rawRows[c] # page.at
    BY <2>2, <2>3, <2>5, <2>6
  <2>8. \A c \in Captures : rawRows'[c] <= clock'
    BY <2>1, <2>3, <2>4, <2>5
  <2>9. \A c, d \in Captures : rawRows'[c] = rawRows'[d] /\ rawRows'[c] # 0 => c = d
    BY <2>4, <2>6, <2>7
  <2> QED
    BY <2>1, <2>2, <2>3, <2>4, <2>8, <2>9 DEF InstantsOK
<1>6. ASSUME NEW r \in Records, Save(r) PROVE InstantsOK'
  BY <1>2, <1>6 DEF Save
<1>7. CASE Commit
  <2>1. pc' \in {"record failure", "set task", "fetch"}
    BY <1>7, CommitCases
  <2> QED
    BY <1>1, <1>7, <2>1 DEF Commit
<1>8. CASE UNCHANGED vars
  <2>1. Capture' = Capture
    BY <1>8, CaptureStays DEF vars, local
  <2> QED
    BY <1>0, <1>8, <2>1 DEF InstantsOK, vars, durable, local
<1>9. ASSUME NEW j \in Jobs, Begin(j) PROVE InstantsOK'
  BY <1>1, <1>9 DEF Begin
<1>10. CASE Open
  BY <1>1, <1>10 DEF Open
<1>11. CASE FetchStops \/ RecordFailure \/ SetTask \/ SetJob \/ Die
  BY <1>1, <1>11 DEF FetchStops, RecordFailure, SetTask, SetJob, Die, Exit, durable
<1>12. ASSUME NEW r \in Records, SaveRefused(r) PROVE InstantsOK'
  BY <1>1, <1>12 DEF SaveRefused, Exit, durable
<1> QED
  BY <1>3, <1>4, <1>5, <1>6, <1>7, <1>8, <1>9, <1>10, <1>11, <1>12 DEF Next, Step

(***************************************************************************)
(* Saving a page.                                                          *)
(***************************************************************************)

(* What saving a record does to the canonical rows. *)
LEMMA SaveEffect ==
  ASSUME IInv, NEW r \in Records, Save(r)
  PROVE  /\ canon'[r] = Row /\ Row.at = page.at /\ Row.capture = Capture
         /\ ~OtherIdentity(r) /\ ~Stale(r)
         /\ \A s \in Records \ {r} : canon'[s] = canon[s]
         /\ canon[r].at <= page.at
         /\ page.at \in Nat /\ page.at # 0
         /\ rawRows[Capture] = page.at /\ Capture \in Captures
         /\ \A s \in Records : canon[s].at \in Nat /\ canon'[s].at \in Nat
         /\ \A s \in Records : canon[s].at <= canon'[s].at
<1>1. TypeOK /\ ControlOK /\ InstantsOK /\ pc = "save"
  BY DEF IInv, Save
<1>2. /\ canon \in [Records -> [at : Nat, capture : Captures \cup {NoCapture}, class : Classes]]
      /\ page.at \in Nat
  BY <1>1 DEF TypeOK
<1>3. Capture \in Captures
  BY <1>1, CaptureType DEF PageSteps
<1>4. page.at # 0 /\ rawRows[Capture] = page.at
  BY <1>1 DEF InstantsOK, HoldsPage
<1>5. canon' = [canon EXCEPT ![r] = Row]
  BY DEF Save
<1>6. Row.at = page.at /\ Row.capture = Capture
  BY DEF Row
<1>7. \A s \in Records : canon[s].at \in Nat
  BY <1>2
<1>a. ~OtherIdentity(r) /\ ~Stale(r)
  BY DEF Save, Refuses
<1>8. canon[r].at <= page.at
  BY <1>2, <1>7, <1>a DEF Stale
<1>9. canon'[r] = Row /\ \A s \in Records \ {r} : canon'[s] = canon[s]
  BY <1>2, <1>5
<1>10. \A s \in Records : canon'[s].at \in Nat /\ canon[s].at <= canon'[s].at
  BY <1>2, <1>6, <1>7, <1>8, <1>9
<1> QED
  BY <1>2, <1>3, <1>4, <1>6, <1>7, <1>8, <1>9, <1>10, <1>a

(* Only saving writes canonical rows. *)
LEMMA CanonChange ==
  ASSUME [Next]_vars, canon' # canon
  PROVE  \E r \in Records : Save(r)
BY DEF Next, Step, vars, durable, local, Begin, Open, Fetch, FetchStops, WriteRaw, AddRow,
       SaveRefused, Commit, RecordFailure, SetTask, SetJob, Die

(* Only AddRow writes raw_captures rows, and only of a capture without one. *)
LEMMA RawRowsChange ==
  ASSUME IInv, [Next]_vars, rawRows' # rawRows
  PROVE  /\ AddRow
         /\ Capture \in Captures /\ Capture \in files /\ rawRows[Capture] = 0
         /\ \A c \in Captures \ {Capture} : rawRows'[c] = rawRows[c]
<1>1. AddRow
  BY DEF Next, Step, vars, durable, local, Begin, Open, Fetch, FetchStops, WriteRaw, Save,
         SaveRefused, Commit, RecordFailure, SetTask, SetJob, Die
<1>2. /\ TypeOK /\ ControlOK /\ InstantsOK /\ pc = "row"
      /\ rawRows' = [rawRows EXCEPT ![Capture] = IF @ = 0 THEN page.at ELSE @]
  BY <1>1 DEF IInv, AddRow
<1>3. rawRows \in [Captures -> Nat]
  BY <1>2 DEF TypeOK
<1>4. Capture \in Captures
  BY <1>2, CaptureType DEF PageSteps
<1>5. Capture \in files
  BY <1>2 DEF InstantsOK
<1>6. rawRows[Capture] = 0
  <2> SUFFICES ASSUME rawRows[Capture] # 0 PROVE rawRows' = rawRows
    OBVIOUS
  <2>1. rawRows' = [rawRows EXCEPT ![Capture] = rawRows[Capture]]
    BY <1>2
  <2> QED
    BY <1>3, <2>1
<1> QED
  BY <1>1, <1>2, <1>3, <1>4, <1>5, <1>6

LEMMA SavingStep == IInv /\ [Next]_vars => SavingOK'
<1> SUFFICES ASSUME IInv, [Next]_vars PROVE SavingOK'
  OBVIOUS
<1>0. TypeOK /\ SavingOK
  BY DEF IInv
<1>1. CASE pc' \notin {"save", "commit"}
  BY <1>1 DEF SavingOK
<1>2. CASE AddRow /\ pc' = "save"
  <2>1. page' = page /\ page.bytes \notin Drift /\ todo' = Content[page.bytes]
    BY <1>2 DEF AddRow, Rejected
  <2> QED
    BY <1>2, <2>1 DEF SavingOK
<1>3. ASSUME NEW r \in Records, Save(r) PROVE SavingOK'
  <2>1. /\ page' = page /\ todo' = todo \ {r} /\ r \in todo
        /\ \A s \in todo : Level[r] <= Level[s]
        /\ pc' = IF todo' = {} THEN "commit" ELSE "save"
        /\ pc = "save" /\ Row' = Row
    BY <1>3 DEF Save, NextToSave, Row, Capture
  <2>2. /\ page.bytes \notin Drift /\ todo \subseteq Content[page.bytes]
        /\ \A s \in Content[page.bytes] \ todo :
             canon[s] = Row /\ \A t \in todo : Level[s] <= Level[t]
    BY <1>0, <2>1 DEF SavingOK
  <2>3. Content[page.bytes] \subseteq Records
    BY <1>0, ConstantsAssumption DEF TypeOK
  <2>4. /\ canon'[r] = Row
        /\ \A s \in Records \ {r} : canon'[s] = canon[s]
    BY <1>3, SaveEffect
  <2>5. ASSUME NEW s \in Content[page.bytes] \ todo'
        PROVE  canon'[s] = Row /\ \A t \in todo' : Level[s] <= Level[t]
    BY <2>1, <2>2, <2>3, <2>4
  <2> QED
    BY <2>1, <2>2, <2>5 DEF SavingOK
<1>4. CASE UNCHANGED vars
  BY <1>0, <1>4 DEF SavingOK, vars, durable, local, Row, Capture
<1>5. ASSUME Next, ~AddRow, \A r \in Records : ~Save(r) PROVE pc' \notin {"save", "commit"}
  BY <1>5, CommitCases DEF Next, Step, Begin, Open, Fetch, FetchStops, WriteRaw, SaveRefused,
         RecordFailure, SetTask, SetJob, Die, Exit
<1>6. AddRow => pc' \in {"save", "record failure"}
  BY DEF AddRow
<1> QED
  BY <1>1, <1>2, <1>3, <1>4, <1>5, <1>6

(***************************************************************************)
(* The safety properties.                                                  *)
(***************************************************************************)

LEMMA RawFirstStep == IInv /\ [Next]_vars => RawFirst'
<1> SUFFICES ASSUME IInv, [Next]_vars PROVE RawFirst'
  OBVIOUS
<1>0. TypeOK /\ RawFirst /\ InstantsOK
  BY DEF IInv
<1>1. \A c \in Captures : rawRows[c] # 0 => rawRows'[c] = rawRows[c]
  BY RawRowsChange
<1>2. files \subseteq files'
  BY <1>0 DEF Next, Step, vars, durable, local, Begin, Open, Fetch, FetchStops, WriteRaw, AddRow,
         Save, SaveRefused, Commit, RecordFailure, SetTask, SetJob, Die
<1>3. ASSUME NEW c \in Captures, rawRows'[c] # 0 PROVE c \in files'
  <2>1. CASE rawRows[c] # 0
    BY <1>0, <1>2, <2>1 DEF RawFirst
  <2>2. CASE rawRows[c] = 0
    <3>1. c = Capture /\ Capture \in files
      BY <1>3, <2>2, RawRowsChange
    <3> QED
      BY <1>2, <3>1
  <2> QED BY <2>1, <2>2
<1>4. ASSUME NEW r \in Records, canon'[r].at # 0
      PROVE  canon'[r].capture \in Captures /\ rawRows'[canon'[r].capture] = canon'[r].at
  <2>1. CASE canon'[r] = canon[r]
    <3>1. /\ canon[r].at # 0 /\ canon[r].capture \in Captures
          /\ rawRows[canon[r].capture] = canon[r].at
      BY <1>0, <1>4, <2>1 DEF RawFirst
    <3> QED
      BY <1>1, <2>1, <3>1
  <2>2. CASE canon'[r] # canon[r]
    <3>1. PICK s \in Records : Save(s)
      BY <2>2, CanonChange
    <3>2. /\ canon'[r].at = page.at /\ canon'[r].capture = Capture
          /\ page.at # 0 /\ rawRows[Capture] = page.at /\ Capture \in Captures
      BY <2>2, <3>1, SaveEffect
    <3> QED
      BY <1>1, <3>2
  <2> QED BY <2>1, <2>2
<1>5. ASSUME NEW j \in Jobs, NEW n \in DOMAIN checkpoints'[j]
      PROVE  rawRows'[checkpoints'[j][n].capture] # 0
  <2>1. CASE n \in DOMAIN checkpoints[j] /\ checkpoints'[j][n] = checkpoints[j][n]
    <3>1. checkpoints[j][n].capture \in Captures
      BY <1>0, <2>1 DEF TypeOK, CheckpointRows
    <3>2. rawRows[checkpoints[j][n].capture] # 0
      BY <1>0, <2>1 DEF RawFirst
    <3> QED
      BY <1>1, <2>1, <3>1, <3>2
  <2>2. CASE ~(n \in DOMAIN checkpoints[j] /\ checkpoints'[j][n] = checkpoints[j][n])
    <3>1. Commit /\ checkpoints' # checkpoints
      BY <1>5, <2>2, CheckpointsChange
    <3>2. pos.pages \in Nat /\ DOMAIN checkpoints[me] = 1..pos.pages
      BY <3>1, TableOfJob DEF Commit, PageSteps
    <3>3. j = me
      BY <1>5, <2>2, <3>1, TableAfterCommit
    <3>4. n = pos.pages + 1
      BY <1>5, <2>2, <3>1, <3>2, <3>3, TableAfterCommit
    <3>5. checkpoints'[j][n].capture = Capture
      BY <3>1, <3>3, <3>4, TableAfterCommit
    <3>6. rawRows[Capture] # 0 /\ rawRows' = rawRows
      BY <1>0, <3>1 DEF InstantsOK, Commit
    <3> QED
      BY <3>5, <3>6
  <2> QED BY <2>1, <2>2
<1> QED
  BY <1>3, <1>4, <1>5 DEF RawFirst

(* The levels: a record that is no Group has its parent and its Group on the same
   page, both above it. *)
LEMMA ParentAbove ==
  ASSUME NEW b \in Bytes \ Drift, NEW r \in Content[b], r \notin Groups
  PROVE  /\ r \in Records /\ Level[r] \in 1..2
         /\ Parent[b][r] \in Records /\ Parent[b][r] \in Content[b]
         /\ Level[Parent[b][r]] \in 0..1 /\ Level[Parent[b][r]] + 1 = Level[r]
         /\ GroupOf[b] \in Content[b] /\ GroupOf[b] \in Records /\ Level[GroupOf[b]] = 0
<1>1. r \in Records /\ Content[b] \subseteq Records /\ GroupOf[b] \in Groups
  BY ConstantsAssumption
<1>2. Level[r] \in 1..2
  BY <1>1, ConstantsAssumption DEF Groups
<1>3. Parent[b][r] \in Content[b] /\ Level[Parent[b][r]] + 1 = Level[r]
  BY <1>1, ConstantsAssumption
<1>4. Level[Parent[b][r]] \in 0..2
  BY <1>1, <1>3, ConstantsAssumption
<1> QED
  BY <1>1, <1>2, <1>3, <1>4, ConstantsAssumption DEF Groups

(* The rendering of a row, and its parents. *)
LEMMA RowType ==
  ASSUME IInv, NEW s \in Records, canon[s].at # 0
  PROVE  /\ canon[s].capture \in Captures /\ canon[s].capture.bytes \in Bytes \ Drift
         /\ s \in Content[canon[s].capture.bytes]
BY DEF IInv, RawFirst, RowsOK, Captures

(* When a record is saved, everything of the page above it is saved already. *)
LEMMA SaveContext ==
  ASSUME IInv, NEW r \in Records, Save(r)
  PROVE  /\ page.bytes \in Bytes \ Drift /\ r \in Content[page.bytes]
         /\ Row.capture.bytes = page.bytes
         /\ \A t \in Content[page.bytes] : Level[t] < Level[r] => canon[t] = Row
<1>1. /\ page.bytes \in Bytes \ Drift /\ todo \subseteq Content[page.bytes] /\ r \in todo
      /\ \A t \in todo : Level[r] <= Level[t]
      /\ \A t \in Content[page.bytes] \ todo : canon[t] = Row
  BY DEF IInv, TypeOK, SavingOK, Save, NextToSave
<1>2. \A t \in Content[page.bytes] : t \in Records /\ Level[t] \in 0..2
  BY <1>1, ConstantsAssumption
<1>3. Level[r] \in 0..2
  BY ConstantsAssumption
<1>4. \A t \in Content[page.bytes] : Level[t] < Level[r] => t \notin todo
  BY <1>1, <1>2, <1>3
<1> QED
  BY <1>1, <1>4 DEF Row, Capture

LEMMA ParentsStep == IInv /\ [Next]_vars => ParentsAsRecent'
<1> SUFFICES ASSUME IInv, [Next]_vars, NEW s \in Records \ Groups, canon'[s].at # 0
             PROVE  canon'[s].at <= canon'[Parent[canon'[s].capture.bytes][s]].at
  BY DEF ParentsAsRecent
<1>1. canon[s].at # 0 => /\ canon[s].at <= canon[Parent[canon[s].capture.bytes][s]].at
                         /\ Parent[canon[s].capture.bytes][s] \in Records
  BY RowType, ParentAbove DEF IInv, ParentsAsRecent
<1>2. CASE canon' = canon
  BY <1>1, <1>2
<1>3. ASSUME NEW r \in Records, Save(r)
      PROVE  canon'[s].at <= canon'[Parent[canon'[s].capture.bytes][s]].at
  <2>0. \A t \in Records : canon[t].at \in Nat /\ canon'[t].at \in Nat /\ canon[t].at <= canon'[t].at
    BY <1>3, SaveEffect
  <2>1. CASE s # r
    <3>1. canon'[s] = canon[s]
      BY <1>3, <2>1, SaveEffect
    <3> QED
      BY <1>1, <2>0, <3>1
  <2>2. CASE s = r
    <3> DEFINE p == Parent[page.bytes][r]
    <3>1. /\ p \in Records /\ p # r /\ canon[p] = Row
          /\ canon'[r] = Row /\ Row.capture.bytes = page.bytes /\ Row.at = page.at
          /\ page.at \in Nat
      BY <1>3, <2>2, SaveContext, SaveEffect, ParentAbove
    <3>2. canon'[p] = Row
      BY <1>3, <3>1, SaveEffect
    <3> QED
      BY <2>2, <3>1, <3>2
  <2> QED BY <2>1, <2>2
<1> QED
  BY <1>2, <1>3, CanonChange

LEMMA RowsStep == IInv /\ [Next]_vars => RowsOK'
<1> SUFFICES ASSUME IInv, [Next]_vars PROVE RowsOK'
  OBVIOUS
<1>0. RowsOK /\ ParentsAsRecent
  BY DEF IInv
<1>1. CASE canon' = canon
  BY <1>0, <1>1 DEF RowsOK
<1>2. ASSUME NEW r \in Records, Save(r), NEW s \in Records, canon'[s].at # 0
      PROVE  LET b == canon'[s].capture.bytes
             IN  /\ b \notin Drift /\ s \in Content[b]
                 /\ canon'[s].at <= canon'[GroupOf[b]].at
                 /\ canon'[s].at = canon'[GroupOf[b]].at => canon'[s] = canon'[GroupOf[b]]
                 /\ Level[s] = 2 => GroupOf[canon'[Parent[b][s]].capture.bytes] = GroupOf[b]
  <2>0. /\ canon'[r] = Row /\ Row.at = page.at /\ page.at \in Nat
        /\ \A t \in Records \ {r} : canon'[t] = canon[t]
        /\ \A t \in Records : canon[t].at \in Nat
        /\ canon[r].at <= page.at
    BY <1>2, SaveEffect
  <2>1. /\ page.bytes \in Bytes \ Drift /\ r \in Content[page.bytes]
        /\ Row.capture.bytes = page.bytes
        /\ \A t \in Content[page.bytes] : Level[t] < Level[r] => canon[t] = Row
    BY <1>2, SaveContext
  <2>2. CASE s = r /\ r \in Groups
    <3>1. GroupOf[page.bytes] = r /\ Level[r] = 0
      BY <2>1, <2>2, ConstantsAssumption DEF Groups
    <3> QED
      BY <2>0, <2>1, <2>2, <3>1
  <2>3. CASE s = r /\ r \notin Groups
    <3> DEFINE g == GroupOf[page.bytes]
               p == Parent[page.bytes][r]
    <3>1. /\ g \in Records /\ g \in Content[page.bytes] /\ Level[g] < Level[r]
          /\ p \in Records /\ p \in Content[page.bytes] /\ Level[p] < Level[r]
      BY <2>1, <2>3, ParentAbove
    <3>2. canon[g] = Row /\ canon[p] = Row /\ g # r /\ p # r
      BY <2>1, <3>1, ConstantsAssumption
    <3>3. canon'[g] = Row /\ canon'[p] = Row
      BY <2>0, <3>1, <3>2
    <3> QED
      BY <2>0, <2>1, <2>3, <3>3
  <2>4. CASE s # r
    <3> DEFINE b == canon[s].capture.bytes
               g == GroupOf[b]
               p == Parent[b][s]
    <3>1. canon'[s] = canon[s] /\ canon[s].at # 0
      BY <1>2, <2>0, <2>4
    <3>2. b \in Bytes \ Drift /\ s \in Content[b] /\ g \in Records
      BY <3>1, RowType, ConstantsAssumption DEF Groups
    <3>3. /\ canon[s].at <= canon[g].at
          /\ canon[s].at = canon[g].at => canon[s] = canon[g]
          /\ Level[s] = 2 => GroupOf[canon[p].capture.bytes] = g
      BY <1>0, <3>1 DEF RowsOK
    <3>4. /\ canon[s].at <= canon'[g].at
          /\ canon[s].at = canon'[g].at => canon[s] = canon'[g]
      <4>1. CASE g # r
        BY <2>0, <3>2, <3>3, <4>1
      <4>2. CASE g = r
        <5>1. canon'[g].at = page.at /\ canon[s].at \in Nat /\ canon[g].at \in Nat
          BY <2>0, <4>2
        <5>2. canon[s].at <= page.at
          BY <2>0, <3>3, <4>2, <5>1
        <5>3. ASSUME canon[s].at = page.at PROVE canon[s] = canon'[g]
          <6>1. canon[r].at = page.at
            BY <2>0, <3>3, <4>2, <5>1, <5>3
          <6>2. canon[r] = Row
            BY <1>2, <6>1, SaveEffect DEF Stale
          <6> QED
            BY <2>0, <3>3, <4>2, <5>3, <6>1, <6>2
        <5> QED
          BY <5>1, <5>2, <5>3
      <4> QED BY <4>1, <4>2
    <3>5. ASSUME Level[s] = 2 PROVE GroupOf[canon'[p].capture.bytes] = g
      <4>0. s \notin Groups
        BY <3>5 DEF Groups
      <4>1. p \in Records /\ Level[p] = 1
        BY <3>2, <3>5, <4>0, ParentAbove
      <4>2. CASE p # r
        BY <2>0, <3>3, <3>5, <4>1, <4>2
      <4>3. CASE p = r
        <5>1. canon[s].at <= canon[r].at
          BY <1>0, <3>1, <4>0, <4>3 DEF ParentsAsRecent
        <5>2. canon[r].at # 0
          BY <2>0, <3>1, <5>1
        <5>3. r \notin Groups
          BY <4>1, <4>3 DEF Groups
        <5>4. GroupOf[canon[r].capture.bytes] = GroupOf[page.bytes]
          BY <1>2, <5>2, <5>3, SaveEffect DEF OtherIdentity, Identity
        <5> QED
          BY <2>0, <2>1, <3>3, <3>5, <4>3, <5>4
      <4> QED BY <4>2, <4>3
    <3> QED
      BY <3>1, <3>2, <3>4, <3>5
  <2> QED
    BY <2>2, <2>3, <2>4
<1> QED
  BY <1>1, <1>2, CanonChange DEF RowsOK

LEMMA CheckpointedStep == IInv /\ [Next]_vars => CheckpointedPagesSaved'
<1> SUFFICES ASSUME IInv, [Next]_vars, NEW j \in Jobs, NEW n \in DOMAIN checkpoints'[j]
             PROVE  LET c == checkpoints'[j][n].capture
                    IN  /\ c.bytes \notin Drift
                        /\ \A r \in Content[c.bytes] : rawRows'[c] <= canon'[r].at
  BY DEF CheckpointedPagesSaved
<1>0. TypeOK /\ RawFirst /\ CheckpointedPagesSaved /\ InstantsOK /\ SavingOK
  BY DEF IInv
<1>1. /\ canon \in [Records -> [at : Nat, capture : Captures \cup {NoCapture}, class : Classes]]
      /\ rawRows \in [Captures -> Nat]
  BY <1>0 DEF TypeOK
<1>2. \A r \in Records : canon[r].at \in Nat /\ canon'[r].at \in Nat /\ canon[r].at <= canon'[r].at
  <2>1. CASE canon' = canon
    BY <1>1, <2>1
  <2>2. CASE canon' # canon
    BY <2>2, CanonChange, SaveEffect
  <2> QED BY <2>1, <2>2
<1>3. CASE n \in DOMAIN checkpoints[j] /\ checkpoints'[j][n] = checkpoints[j][n]
  <2> DEFINE c == checkpoints[j][n].capture
  <2>1. c \in Captures /\ rawRows[c] # 0
    BY <1>0, <1>3 DEF TypeOK, CheckpointRows, RawFirst
  <2>2. rawRows'[c] = rawRows[c] /\ rawRows[c] \in Nat
    BY <1>1, <2>1, RawRowsChange
  <2>3. c.bytes \notin Drift /\ \A r \in Content[c.bytes] : rawRows[c] <= canon[r].at
    BY <1>0, <1>3 DEF CheckpointedPagesSaved
  <2>4. Content[c.bytes] \subseteq Records
    BY <2>1, ConstantsAssumption DEF Captures
  <2>5. checkpoints'[j][n].capture = c
    BY <1>3
  <2> HIDE DEF c
  <2>6. \A r \in Content[c.bytes] : rawRows'[c] <= canon'[r].at
    BY <1>2, <2>2, <2>3, <2>4
  <2> QED
    BY <2>3, <2>5, <2>6
<1>4. CASE ~(n \in DOMAIN checkpoints[j] /\ checkpoints'[j][n] = checkpoints[j][n])
  <2>1. Commit /\ checkpoints' # checkpoints
    BY <1>4, CheckpointsChange
  <2>2. pos.pages \in Nat /\ DOMAIN checkpoints[me] = 1..pos.pages
    BY <2>1, TableOfJob DEF Commit, PageSteps
  <2>3. j = me
    BY <1>4, <2>1, TableAfterCommit
  <2>4. n = pos.pages + 1
    BY <1>4, <2>1, <2>2, <2>3, TableAfterCommit
  <2>5. checkpoints'[j][n].capture = Capture
    BY <2>1, <2>3, <2>4, TableAfterCommit
  <2>6. /\ pc = "commit" /\ rawRows' = rawRows /\ canon' = canon
    BY <2>1 DEF Commit
  <2>7. rawRows[Capture] = page.at
    BY <1>0, <2>6 DEF InstantsOK, HoldsPage
  <2>8. page.bytes \notin Drift /\ \A r \in Content[page.bytes] : canon[r].at = page.at
    BY <1>0, <2>6 DEF SavingOK, Row
  <2>9. Capture.bytes = page.bytes
    BY DEF Capture
  <2>10. page.at \in Nat
    BY <1>0 DEF TypeOK
  <2> QED
    BY <2>5, <2>6, <2>7, <2>8, <2>9, <2>10
<1> QED
  BY <1>3, <1>4

LEMMA ResumeStep == IInv /\ [Next]_vars => ResumeContinues'
<1> SUFFICES ASSUME IInv, [Next]_vars, pc' \in PageSteps
             PROVE  pos' = ResumePosition(checkpoints'[me'])
  BY DEF ResumeContinues, PageSteps
<1>1. CASE Open
  BY <1>1 DEF Open
<1>2. CASE Commit
  <2>1. /\ checkpoints' = [checkpoints EXCEPT ![me] =
             Upsert(@, pos.pages + 1, [capture |-> Capture, cursor |-> page.next])]
        /\ page.next # NoCursor /\ pos' = Advanced(page.next)
    BY <1>2, CommitCases DEF PageSteps
  <2>2. me' = me /\ me \in Jobs /\ DOMAIN checkpoints = Jobs /\ page.next \in Cursors
    BY <1>2, <2>1 DEF Commit, IInv, TypeOK, CursorsOrNone
  <2>3. /\ pos.pages \in Nat /\ DOMAIN checkpoints[me] = 1..pos.pages
        /\ pos = ResumePosition(checkpoints[me])
    BY <1>2, TableOfJob DEF Commit, PageSteps
  <2> DEFINE row == [capture |-> Capture, cursor |-> page.next]
  <2>4. checkpoints'[me] = Upsert(checkpoints[me], pos.pages + 1, row)
    BY <2>1, <2>2
  <2>5. row.cursor = page.next
    OBVIOUS
  <2> HIDE DEF row
  <2>6. ResumePosition(checkpoints'[me]) =
          [cursor |-> page.next, pages |-> pos.pages + 1,
           seen |-> ResumePosition(checkpoints[me]).seen \cup {page.next}]
    BY <2>2, <2>3, <2>4, <2>5, PositionAdvances
  <2> QED
    BY <2>1, <2>2, <2>3, <2>6 DEF Advanced
<1>3. CASE ~Open /\ ~Commit
  <2>1. pc \in PageSteps /\ pos' = pos /\ me' = me /\ checkpoints' = checkpoints
    BY <1>3 DEF PageSteps, Next, Step, vars, durable, local, Begin, Fetch, FetchStops, WriteRaw,
         AddRow, Save, SaveRefused, RecordFailure, SetTask, SetJob, Die, Exit
  <2> QED
    BY <2>1 DEF IInv, ResumeContinues, PageSteps
<1> QED
  BY <1>1, <1>2, <1>3

LEMMA OutcomeStep == IInv /\ [Next]_vars => OutcomeAgrees'
<1> SUFFICES ASSUME IInv, [Next]_vars PROVE OutcomeAgrees'
  OBVIOUS
<1>0. /\ TypeOK /\ OutcomeAgrees /\ ControlOK /\ me \in Jobs
      /\ job \in [Jobs -> JobStates] /\ task \in [Jobs -> TaskStates]
      /\ attempts \in [Jobs -> Nat] /\ DOMAIN checkpoints = Jobs
  BY DEF IInv, TypeOK
<1> DEFINE Agrees(j) ==
      /\ job[j] = "succeeded" => task[j] = "succeeded" /\ Terminal(checkpoints[j])
      /\ job[j] = "failed" => task[j] = "failed" /\ attempts[j] > 0 /\ ~Terminal(checkpoints[j])
      /\ job[j] = "interrupted" => task[j] = "interrupted" /\ DOMAIN checkpoints[j] # {}
<1>1. \A j \in Jobs : Agrees(j)
  BY <1>0 DEF OutcomeAgrees
<1>2. ASSUME \A j \in Jobs : job'[j] = job[j] \/ job'[j] = "running",
             \A j \in Jobs : \/ job'[j] = "running"
                             \/ /\ task'[j] = task[j] /\ attempts'[j] = attempts[j]
                                /\ checkpoints'[j] = checkpoints[j]
      PROVE  OutcomeAgrees'
  <2> SUFFICES ASSUME NEW j \in Jobs PROVE Agrees(j)'
    BY DEF OutcomeAgrees
  <2>1. CASE job'[j] = "running"
    BY <2>1
  <2>2. CASE job'[j] # "running"
    BY <1>1, <1>2, <2>2 DEF Terminal
  <2> QED BY <2>1, <2>2
<1>3. ASSUME NEW j \in Jobs, Begin(j) PROVE OutcomeAgrees'
  <2>1. \A i \in Jobs : job'[i] = job[i] \/ job'[i] = "running"
    BY <1>0, <1>3 DEF Begin, Transition
  <2> QED
    BY <1>2, <1>3, <2>1 DEF Begin
<1>4. ASSUME UNCHANGED job, job[me] = "running",
             \A j \in Jobs \ {me} : /\ task'[j] = task[j] /\ attempts'[j] = attempts[j]
                                    /\ checkpoints'[j] = checkpoints[j]
      PROVE  OutcomeAgrees'
  BY <1>2, <1>4
<1>5. pc # "idle" => job[me] = "running"
  BY <1>0 DEF ControlOK
<1>6. CASE Open
  <2>1. \A j \in Jobs \ {me} : task'[j] = task[j]
    BY <1>0, <1>6 DEF Open
  <2> QED
    BY <1>4, <1>5, <1>6, <2>1 DEF Open
<1>7. CASE SetTask
  <2>1. \A j \in Jobs \ {me} : task'[j] = task[j]
    BY <1>0, <1>7 DEF SetTask
  <2> QED
    BY <1>4, <1>5, <1>7, <2>1 DEF SetTask
<1>8. CASE RecordFailure
  <2>1. \A j \in Jobs \ {me} : attempts'[j] = attempts[j]
    BY <1>0, <1>8 DEF RecordFailure
  <2> QED
    BY <1>4, <1>5, <1>8, <2>1 DEF RecordFailure
<1>9. CASE Commit
  <2>1. \A j \in Jobs \ {me} : checkpoints'[j] = checkpoints[j]
    BY <1>9, TableAfterCommit
  <2> QED
    BY <1>4, <1>5, <1>9, <2>1 DEF Commit
<1>10. CASE SetJob
  <2>1. /\ job' = [job EXCEPT ![me] = verdict] /\ job[me] = "running"
        /\ UNCHANGED <<task, checkpoints, attempts>> /\ task[me] = verdict
        /\ verdict = "succeeded" => Terminal(checkpoints[me])
        /\ verdict = "failed" => ~Terminal(checkpoints[me]) /\ attempts[me] > 0
        /\ verdict = "interrupted" => DOMAIN checkpoints[me] # {}
    BY <1>0, <1>10 DEF SetJob, Transition, ControlOK
  <2> SUFFICES ASSUME NEW j \in Jobs PROVE Agrees(j)'
    BY DEF OutcomeAgrees
  <2>2. CASE j = me
    BY <1>0, <2>1, <2>2 DEF Terminal
  <2>3. CASE j # me
    BY <1>0, <1>1, <2>1, <2>3 DEF Terminal
  <2> QED BY <2>2, <2>3
<1>11. CASE UNCHANGED <<job, task, attempts, checkpoints>>
  BY <1>2, <1>11
<1>12. ASSUME \A j \in Jobs : ~Begin(j),
              ~Open, ~SetTask, ~RecordFailure, ~Commit, ~SetJob
       PROVE  UNCHANGED <<job, task, attempts, checkpoints>>
  BY <1>12 DEF Next, Step, vars, durable, local, Fetch, FetchStops, WriteRaw, AddRow, Save,
       SaveRefused, Die
<1> QED
  BY <1>3, <1>6, <1>7, <1>8, <1>9, <1>10, <1>11, <1>12

(***************************************************************************)
(* The inductive invariant and what follows from it.                       *)
(***************************************************************************)

LEMMA InitInvariant == Init => IInv
<1> SUFFICES ASSUME Init PROVE IInv
  OBVIOUS
<1>1. TypeOK
  <2>1. job \in [Jobs -> JobStates] /\ task \in [Jobs -> TaskStates]
    BY DEF Init, JobStates, TaskStates
  <2>2. DOMAIN checkpoints = Jobs /\ \A j \in Jobs : checkpoints[j] = <<>>
    BY DEF Init
  <2>3. <<>> \in [DOMAIN <<>> -> CheckpointRows] /\ DOMAIN <<>> \subseteq 1..MaxPages
    OBVIOUS
  <2>4. files \subseteq Captures /\ rawRows \in [Captures -> Nat] /\ attempts \in [Jobs -> Nat]
    BY DEF Init
  <2>5. canon \in [Records -> [at : Nat, capture : Captures \cup {NoCapture}, class : Classes]]
    BY StartType DEF Init
  <2>6. /\ clock \in Nat /\ pc \in Steps /\ me \in Jobs /\ todo \subseteq Records
        /\ verdict \in {"succeeded", "failed", "interrupted"} /\ starts \in 0..MaxStarts
        /\ pos = Start /\ page = NoPage /\ class = NoClass
    BY ConstantsAssumption DEF Init, Steps
  <2> QED
    BY <2>1, <2>2, <2>3, <2>4, <2>5, <2>6, StartType, Zenon DEF TypeOK
<1>2. TablesOK
  <2>1. DOMAIN <<>> = 1..0 /\ 0 \in 0..MaxPages
    BY ConstantsAssumption
  <2> SUFFICES ASSUME NEW j \in Jobs PROVE TableOK(checkpoints[j])
    BY DEF TablesOK
  <2>2. checkpoints[j] = <<>>
    BY DEF Init
  <2> QED
    BY <2>1, <2>2 DEF TableOK
<1>3. ControlOK /\ SavingOK
  BY DEF Init, ControlOK, SavingOK, PageSteps
<1>4. InstantsOK
  BY DEF Init, InstantsOK, HoldsPage
<1>5. RawFirst
  BY DEF Init, RawFirst
<1>6. ParentsAsRecent /\ RowsOK
  BY DEF Init, ParentsAsRecent, RowsOK
<1>7. CheckpointedPagesSaved
  BY DEF Init, CheckpointedPagesSaved
<1>8. ResumeContinues /\ OutcomeAgrees
  BY DEF Init, ResumeContinues, OutcomeAgrees
<1> QED
  BY <1>1, <1>2, <1>3, <1>4, <1>5, <1>6, <1>7, <1>8 DEF IInv

(* Every reachable state satisfies the inductive invariant. *)
THEOREM Invariant == Spec => []IInv
<1>1. Init => IInv
  BY InitInvariant
<1>2. IInv /\ [Next]_vars => IInv'
  <2> SUFFICES ASSUME IInv, [Next]_vars PROVE IInv'
    OBVIOUS
  <2> QED
    BY TypeStep, TablesStep, ControlStep, InstantsStep, SavingStep, RawFirstStep, ParentsStep, RowsStep,
       CheckpointedStep, ResumeStep, OutcomeStep DEF IInv
<1> QED
  BY <1>1, <1>2, PTL DEF Spec

(* Type correctness. *)
THEOREM TypeCorrect == Spec => []TypeOK
<1>1. IInv => TypeOK
  BY DEF IInv
<1> QED
  BY <1>1, Invariant, PTL

(* Raw evidence is durable before anything derived from it, in every crash. *)
THEOREM RawEvidenceFirst == Spec => []RawFirst
<1>1. IInv => RawFirst
  BY DEF IInv
<1> QED
  BY <1>1, Invariant, PTL

(* A checkpointed page has all its records in the database. *)
THEOREM CheckpointsAreSaved == Spec => []CheckpointedPagesSaved
<1>1. IInv => CheckpointedPagesSaved
  BY DEF IInv
<1> QED
  BY <1>1, Invariant, PTL

(* A process that dies continues where it was. *)
THEOREM ResumeIsExact == Spec => []ResumeContinues
<1>1. IInv => ResumeContinues
  BY DEF IInv
<1> QED
  BY <1>1, Invariant, PTL

(* Parents are as recent as their children. *)
THEOREM ParentsRecent == Spec => []ParentsAsRecent
<1>1. IInv => ParentsAsRecent
  BY DEF IInv
<1> QED
  BY <1>1, Invariant, PTL

(* A job's state agrees with its task, checkpoints and failures. *)
THEOREM OutcomesAgree == Spec => []OutcomeAgrees
<1>1. IInv => OutcomeAgrees
  BY DEF IInv
<1> QED
  BY <1>1, Invariant, PTL

(* Staleness and payload conflicts refuse a page before its first record is saved,
   or not at all: the Group row is the page's own, no record of the Group is newer
   than it, and one of its instant is of the same capture and session.  What may
   still be refused is a record that another Group owns. *)
THEOREM RefusalsAreWhole == Spec => []RefusedBeforeSaved
<1>1. IInv => RefusedBeforeSaved
  <2> DEFINE g == GroupOf[page.bytes]
  <2> SUFFICES ASSUME IInv, pc = "save", g \notin todo, NEW r \in todo, Stale(r),
                      GroupOf[canon[r].capture.bytes] = g
               PROVE  FALSE
    BY DEF RefusedBeforeSaved
  <2>0. TypeOK /\ SavingOK /\ InstantsOK /\ RowsOK
    BY DEF IInv
  <2>1. page.bytes \in Bytes \ Drift /\ r \in Records
    BY <2>0 DEF SavingOK, TypeOK
  <2>2. g \in Content[page.bytes]
    BY <2>1, ConstantsAssumption
  <2>3. canon[g] = Row
    BY <2>0, <2>2 DEF SavingOK
  <2>4. Row.at = page.at /\ page.at \in Nat /\ canon[r].at \in Nat
    BY <2>0, <2>1 DEF Row, TypeOK
  <2>5. page.at # 0
    BY <2>0 DEF InstantsOK, HoldsPage
  <2>6. canon[r].at # 0
    BY <2>4, <2>5 DEF Stale
  <2>7. canon[r].at <= page.at /\ (canon[r].at = page.at => canon[r] = Row)
    BY <2>0, <2>1, <2>3, <2>4, <2>6 DEF RowsOK
  <2> QED
    BY <2>4, <2>7 DEF Stale
<1> QED
  BY <1>1, Invariant, PTL

(***************************************************************************)
(* The refinement: checkpoints is the log of PageLog, Outcome its outcome. *)
(***************************************************************************)

LEMMA PromiseInit == Init => Promise!Init
BY DEF Init, Promise!Init, Outcome

(* The table of a job, read as a sequence. *)
LEMMA TableSequence ==
  ASSUME IInv, NEW j \in Jobs
  PROVE  /\ checkpoints[j] \in Seq(CheckpointRows)
         /\ DOMAIN checkpoints[j] = 1..Len(checkpoints[j])
         /\ Terminal(checkpoints[j]) <=> Promise!Complete(checkpoints[j])
<1>1. PICK k \in 0..MaxPages :
        /\ DOMAIN checkpoints[j] = 1..k
        /\ \A n \in 1..k : n < k \/ n = MaxPages =>
             (checkpoints[j][n].cursor = NoCursor <=> n = k)
  BY DEF IInv, TablesOK, TableOK
<1>2. checkpoints[j] \in [1..k -> CheckpointRows]
  BY <1>1 DEF IInv, TypeOK
<1>3. checkpoints[j] \in Seq(CheckpointRows) /\ Len(checkpoints[j]) = k
  <2>1. k \in Nat
    BY ConstantsAssumption
  <2>2. checkpoints[j] \in Seq(CheckpointRows)
    BY <1>2, <2>1
  <2>3. DOMAIN checkpoints[j] = 1..k
    BY <1>1
  <2> QED
    BY <2>1, <2>2, <2>3, LenProperties
<1>4. Terminal(checkpoints[j]) <=> k > 0 /\ checkpoints[j][k].cursor = NoCursor
  BY <1>1 DEF Terminal
<1>5. checkpoints[j] # <<>> <=> k > 0
  BY <1>1, <1>2, <1>3
<1> QED
  BY <1>1, <1>3, <1>4, <1>5 DEF Promise!Complete

(* A commit that checkpoints its page is a step of the log. *)
LEMMA CommitRefines ==
  ASSUME IInv, Commit, checkpoints' # checkpoints
  PROVE  Promise!Commit(me, page.bytes, page.next)
<1> DEFINE table == checkpoints[me]
           row == [capture |-> Capture, cursor |-> page.next]
<1>1. /\ TypeOK /\ ControlOK /\ me \in Jobs /\ DOMAIN checkpoints = Jobs
      /\ job[me] = "running" /\ job' = job /\ pc \in PageSteps
      /\ ~Terminal(table)
  BY DEF IInv, TypeOK, ControlOK, Commit, PageSteps
<1>2. /\ pos.pages \in Nat /\ pos.pages + 1 \in 1..MaxPages
      /\ DOMAIN table = 1..pos.pages
      /\ pos = ResumePosition(table)
  BY <1>1, TableOfJob
<1>3. table \in Seq(CheckpointRows) /\ Len(table) = pos.pages
  BY <1>1, <1>2, TableSequence
<1>4. Outcome[me] = "open"
  BY <1>1 DEF Outcome
<1>5. ~Promise!Complete(table)
  BY <1>1, TableSequence
<1>6. page.next # NoCursor => ~OverLimit /\ ~Looping
  BY TableAfterCommit
<1>7. Len(table) < (IF page.next = NoCursor THEN MaxPages ELSE MaxPages - 1)
  BY <1>2, <1>3, <1>6, ConstantsAssumption DEF OverLimit
<1>8. page.next # NoCursor => \A n \in DOMAIN table : table[n].cursor # page.next
  <2> SUFFICES ASSUME page.next # NoCursor, NEW n \in 1..pos.pages,
                      table[n].cursor = page.next
               PROVE  FALSE
    BY <1>2
  <2>1. pos.seen = {table[m].cursor : m \in 1..pos.pages} \ {NoCursor}
    BY <1>2, PositionOfTable
  <2>2. page.next \in pos.seen
    BY <2>1
  <2> QED
    BY <1>6, <2>2 DEF Looping
<1>9. pos.cursor = Promise!NextCursor(table)
  <2>1. CASE pos.pages = 0
    BY <1>2, <1>3, <2>1, PositionOfTable DEF Promise!NextCursor
  <2>2. CASE pos.pages > 0
    <3>1. table # <<>> /\ pos.cursor = table[pos.pages].cursor
      BY <1>2, <1>3, <2>2, PositionOfTable
    <3> QED
      BY <1>3, <3>1 DEF Promise!NextCursor
  <2> QED BY <1>2, <2>1, <2>2
<1>10. row = [capture |-> [job |-> me, page |-> Len(table) + 1,
                           cursor |-> Promise!NextCursor(table), bytes |-> page.bytes],
              cursor |-> page.next]
  BY <1>3, <1>9 DEF Capture
<1>11. Upsert(table, pos.pages + 1, row) = Append(table, row)
  <2>1. row \in CheckpointRows
    BY <1>1, CaptureType DEF CheckpointRows, CursorsOrNone, IInv, TypeOK
  <2> HIDE DEF row, table
  <2>2. DOMAIN table \cup {pos.pages + 1} = 1..(Len(table) + 1)
    BY <1>2, <1>3
  <2>3. /\ Append(table, row) \in Seq(CheckpointRows)
        /\ Len(Append(table, row)) = Len(table) + 1
        /\ \A n \in 1..Len(table) : Append(table, row)[n] = table[n]
        /\ Append(table, row)[Len(table) + 1] = row
    BY <1>3, <2>1, AppendProperties
  <2> DEFINE app == Append(table, row)
  <2> HIDE DEF app
  <2>4. app \in [1..(Len(table) + 1) -> CheckpointRows]
    BY <2>3, LenProperties DEF app
  <2>5. \A n \in 1..(Len(table) + 1) : app[n] = IF n = Len(table) + 1 THEN row ELSE table[n]
    BY <1>2, <1>3, <2>3 DEF app
  <2>6. app = [n \in 1..(Len(table) + 1) |-> IF n = Len(table) + 1 THEN row ELSE table[n]]
    BY <2>4, <2>5
  <2> QED
    BY <1>3, <2>2, <2>6 DEF Upsert, app
<1>12. checkpoints' = [checkpoints EXCEPT ![me] = Upsert(@, pos.pages + 1, row)]
  BY CommitCases
<1>13. checkpoints' = [checkpoints EXCEPT ![me] = Append(table, row)]
  BY <1>11, <1>12
<1>14. Outcome' = Outcome
  BY <1>1 DEF Outcome
<1> QED
  BY <1>4, <1>5, <1>7, <1>8, <1>10, <1>13, <1>14 DEF Promise!Commit

(* The last step of a process closes its job, or changes nothing of the log. *)
LEMMA SetJobRefines ==
  ASSUME IInv, SetJob
  PROVE  Promise!Close(me) \/ UNCHANGED <<checkpoints, Outcome>>
<1>1. /\ me \in Jobs /\ job \in [Jobs -> JobStates] /\ job[me] = "running"
      /\ job' = [job EXCEPT ![me] = verdict] /\ checkpoints' = checkpoints
      /\ verdict \in {"succeeded", "failed", "interrupted"}
      /\ verdict = "succeeded" => Terminal(checkpoints[me])
      /\ verdict = "failed" => ~Terminal(checkpoints[me])
  BY DEF IInv, TypeOK, ControlOK, SetJob, Transition
<1>2. Outcome' = [Outcome EXCEPT ![me] =
                    IF verdict \in {"succeeded", "failed"} THEN verdict ELSE "open"]
  BY <1>1 DEF Outcome
<1>3. Outcome[me] = "open"
  BY <1>1 DEF Outcome
<1>4. CASE verdict = "interrupted"
  <2>1. Outcome' = [Outcome EXCEPT ![me] = "open"]
    BY <1>2, <1>4
  <2> QED
    BY <1>1, <1>3, <2>1 DEF Outcome
<1>5. CASE verdict # "interrupted"
  <2>1. verdict = IF Promise!Complete(checkpoints[me]) THEN "succeeded" ELSE "failed"
    BY <1>1, <1>5, TableSequence
  <2>2. Outcome' = [Outcome EXCEPT ![me] = verdict]
    BY <1>1, <1>2, <1>5
  <2> QED
    BY <1>1, <1>3, <2>1, <2>2 DEF Promise!Close
<1> QED
  BY <1>4, <1>5

LEMMA PromiseStep == IInv /\ [Next]_vars => [Promise!Next]_Promise!vars
<1> SUFFICES ASSUME IInv, [Next]_vars PROVE Promise!Next \/ UNCHANGED <<checkpoints, Outcome>>
  BY DEF Promise!vars
<1>0. me \in Jobs /\ page.bytes \in Bytes /\ page.next \in Cursors \cup {NoCursor}
  BY DEF IInv, TypeOK, CursorsOrNone
<1>1. CASE Commit /\ checkpoints' # checkpoints
  BY <1>0, <1>1, CommitRefines DEF Promise!Next
<1>2. CASE SetJob
  BY <1>0, <1>2, SetJobRefines DEF Promise!Next
<1>3. CASE checkpoints' = checkpoints /\ ~SetJob
  <2>1. CASE job' = job
    BY <1>3, <2>1 DEF Outcome
  <2>2. ASSUME NEW j \in Jobs, Begin(j) PROVE Outcome' = Outcome
    <3>1. \A i \in Jobs : job'[i] = job[i] \/
            (i = j /\ job[i] \notin {"succeeded", "failed"} /\ job'[i] = "running")
      BY <2>2 DEF Begin, Transition, IInv, TypeOK
    <3> QED
      BY <3>1 DEF Outcome
  <2>3. job' = job \/ \E j \in Jobs : Begin(j)
    BY <1>3 DEF Next, Step, vars, durable, local, Open, Fetch, FetchStops, WriteRaw, AddRow,
         Save, SaveRefused, Commit, RecordFailure, SetTask, Die
  <2> QED
    BY <1>3, <2>1, <2>2, <2>3
<1> QED
  BY <1>1, <1>2, <1>3, CheckpointsChange

(* The capture loop implements the page log: through every crash, resume and
   refusal a job's checkpoints grow by whole pages at their end, each from the
   cursor the last one left, and its state closes them once. *)
THEOREM Refinement == Spec => KeepsPromise
<1>1. Init => Promise!Init
  BY PromiseInit
<1>2. IInv /\ [Next]_vars => [Promise!Next]_Promise!vars
  BY PromiseStep
<1> QED
  BY <1>1, <1>2, Invariant, PTL DEF Spec, KeepsPromise, Promise!Spec

(***************************************************************************)
(* Termination, without fairness: every step of a running process lowers a *)
(* rank, and a running process always has a step.                          *)
(***************************************************************************)

(* The pages, the steps of the page and the records that are left. *)
PagesLeft ==
  IF pc = "open" THEN MaxPages + 1 ELSE IF pc \in PageSteps THEN MaxPages - pos.pages ELSE 0
StepsLeft ==
  CASE pc = "idle"    -> 0 [] pc = "set job" -> 1 [] pc = "set task" -> 2
    [] pc = "record failure" -> 3
    [] pc = "commit"  -> 4 [] pc = "save"    -> 5 [] pc = "row"      -> 6
    [] pc = "raw"     -> 7 [] pc = "fetch"   -> 8 [] OTHER           -> 9
RecordsLeft == IF pc = "save" THEN Cardinality(todo) ELSE 0
Ranked == PagesLeft \in Nat /\ StepsLeft \in Nat /\ RecordsLeft \in Nat

(* The step goes down in the lexicographic order of the three. *)
Descends ==
  \/ PagesLeft' < PagesLeft
  \/ PagesLeft' = PagesLeft /\ StepsLeft' < StepsLeft
  \/ PagesLeft' = PagesLeft /\ StepsLeft' = StepsLeft /\ RecordsLeft' < RecordsLeft

(* The guards of the steps of a running process. *)
CanStep ==
  \/ pc \in Steps \ {"idle", "save", "set job"}
  \/ pc = "save" /\ \E r \in Records : NextToSave(r)
  \/ pc = "set job" /\ verdict \in Allowed[job[me]]

(* A page has finitely many records. *)
FinitePages == \A b \in Bytes : IsFiniteSet(Content[b])

(* The rank is of natural numbers, for what is left of a page is finite. *)
LEMMA RankType ==
  ASSUME FinitePages, IInv
  PROVE  Ranked /\ IsFiniteSet(Content[page.bytes]) /\ (pc = "save" => IsFiniteSet(todo))
<1>1. /\ TypeOK /\ ControlOK /\ SavingOK /\ page.bytes \in Bytes
      /\ pos.pages \in 0..MaxPages /\ (pc \in PageSteps => pos.pages < MaxPages)
  BY DEF IInv, TypeOK, ControlOK
<1>2. IsFiniteSet(Content[page.bytes])
  BY <1>1 DEF FinitePages
<1>3. pc = "save" => IsFiniteSet(todo)
  BY <1>1, <1>2, FS_Subset DEF SavingOK
<1>4. RecordsLeft \in Nat
  BY <1>3, FS_CardinalityType DEF RecordsLeft
<1>5. PagesLeft \in Nat
  BY <1>1, ConstantsAssumption DEF PagesLeft
<1>6. StepsLeft \in Nat
  BY DEF StepsLeft
<1> QED
  BY <1>2, <1>3, <1>4, <1>5, <1>6 DEF Ranked

(* A page that is committed and left with a cursor leaves one page less. *)
LEMMA CommitDescends ==
  ASSUME IInv, IInv', Commit
  PROVE  PagesLeft' < PagesLeft
<1>1. /\ TypeOK /\ pc = "commit" /\ pos.pages \in 0..MaxPages /\ pos.pages < MaxPages
      /\ MaxPages \in Nat
  BY ConstantsAssumption DEF IInv, TypeOK, ControlOK, Commit, PageSteps
<1>2. PagesLeft = MaxPages - pos.pages
  BY <1>1 DEF PagesLeft, PageSteps
<1>3. CASE pc' \in {"record failure", "set task"}
  <2>1. PagesLeft' = 0
    BY <1>3 DEF PagesLeft, PageSteps
  <2> QED
    BY <1>1, <1>2, <2>1
<1>4. CASE pc' = "fetch" /\ pos' = Advanced(page.next)
  <2>1. pos'.pages = pos.pages + 1
    BY <1>4 DEF Advanced
  <2>2. PagesLeft' = MaxPages - pos'.pages
    BY <1>4 DEF PagesLeft, PageSteps
  <2> QED
    BY <1>1, <1>2, <2>1, <2>2
<1> QED
  BY <1>3, <1>4 DEF Commit

(* Every step of a running process lowers the rank. *)
LEMMA StepDescends ==
  ASSUME FinitePages, IInv, IInv', Ranked, Ranked', Step
  PROVE  Descends
<1>a. MaxPages \in Nat /\ PagesLeft \in Nat /\ PagesLeft' \in Nat
  BY ConstantsAssumption DEF Ranked
<1>b. ASSUME pc \in {"idle", "record failure", "set task", "set job"} PROVE PagesLeft = 0
  BY <1>b DEF PagesLeft, PageSteps
<1>c. ASSUME pc' \in {"idle", "record failure", "set task", "set job"} PROVE PagesLeft' = 0
  BY <1>c DEF PagesLeft, PageSteps
<1>d. ASSUME pc \in PageSteps PROVE PagesLeft > 0
  <2>1. pos.pages \in 0..MaxPages /\ pos.pages < MaxPages
    BY <1>d DEF IInv, TypeOK, ControlOK
  <2>2. PagesLeft = MaxPages - pos.pages
    BY <1>d DEF PagesLeft, PageSteps
  <2> QED
    BY <1>a, <2>1, <2>2
<1>1. CASE Open
  <2>1. PagesLeft = MaxPages + 1
    BY <1>1 DEF Open, PagesLeft
  <2>2. pos'.pages \in 0..MaxPages
    BY DEF IInv, TypeOK
  <2>3. pc' \in {"set task", "fetch"}
    BY <1>1 DEF Open
  <2>4. PagesLeft' <= MaxPages
    <3>1. CASE pc' = "set task"
      <4>1. PagesLeft' = 0
        BY <1>c, <3>1
      <4> QED
        BY <1>a, <4>1
    <3>2. CASE pc' = "fetch"
      <4>1. PagesLeft' = MaxPages - pos'.pages
        BY <3>2 DEF PagesLeft, PageSteps
      <4> QED
        BY <1>a, <2>2, <4>1
    <3> QED
      BY <2>3, <3>1, <3>2
  <2> QED
    BY <1>a, <2>1, <2>4 DEF Descends
<1>2. CASE Fetch
  BY <1>2 DEF Fetch, Descends, PagesLeft, StepsLeft, PageSteps
<1>3. CASE FetchStops
  <2>1. pc \in PageSteps /\ pc' = "record failure"
    BY <1>3 DEF FetchStops, PageSteps
  <2> QED
    BY <1>a, <1>c, <1>d, <2>1 DEF Descends
<1>4. CASE WriteRaw
  BY <1>4 DEF WriteRaw, Descends, PagesLeft, StepsLeft, PageSteps, local
<1>5. CASE AddRow
  <2>1. pc = "row" /\ pc' \in {"record failure", "save"} /\ pos' = pos
    BY <1>5 DEF AddRow
  <2>2. CASE pc' = "record failure"
    BY <1>a, <1>c, <1>d, <2>1, <2>2 DEF Descends, PageSteps
  <2>3. CASE pc' = "save"
    BY <2>1, <2>3 DEF Descends, PagesLeft, StepsLeft, PageSteps
  <2> QED
    BY <2>1, <2>2, <2>3
<1>6. CASE \E r \in Records : Save(r)
  <2>1. PICK r \in Records : Save(r)
    BY <1>6
  <2>2. /\ pc = "save" /\ r \in todo /\ todo' = todo \ {r} /\ pos' = pos
        /\ pc' = IF todo' = {} THEN "commit" ELSE "save"
    BY <2>1 DEF Save, NextToSave
  <2>3. PagesLeft' = PagesLeft
    BY <2>2 DEF PagesLeft, PageSteps
  <2>4. CASE pc' = "commit"
    BY <2>2, <2>3, <2>4 DEF Descends, StepsLeft
  <2>5. CASE pc' = "save"
    <3>1. IsFiniteSet(todo)
      BY <2>2, RankType
    <3>2. Cardinality(todo') = Cardinality(todo) - 1 /\ Cardinality(todo) \in Nat
      BY <2>2, <3>1, FS_RemoveElement, FS_CardinalityType
    <3>3. StepsLeft' = StepsLeft /\ RecordsLeft' < RecordsLeft
      BY <2>2, <2>5, <3>2 DEF StepsLeft, RecordsLeft
    <3> QED
      BY <2>3, <3>3 DEF Descends
  <2> QED
    BY <2>2, <2>4, <2>5
<1>7. CASE \E r \in Records : SaveRefused(r)
  <2>1. pc \in PageSteps /\ pc' = "idle"
    BY <1>7 DEF SaveRefused, Exit, PageSteps
  <2> QED
    BY <1>a, <1>c, <1>d, <2>1 DEF Descends
<1>8. CASE Commit
  BY <1>8, CommitDescends DEF Descends
<1>9. CASE RecordFailure
  <2>1. pc = "record failure" /\ pc' = "set task"
    BY <1>9 DEF RecordFailure
  <2>2. StepsLeft = 3 /\ StepsLeft' = 2
    BY <2>1 DEF StepsLeft
  <2>3. PagesLeft = 0 /\ PagesLeft' = 0
    BY <2>1, <1>b, <1>c
  <2> QED
    BY <2>2, <2>3 DEF Descends
<1>10. CASE SetTask
  <2>1. pc = "set task" /\ pc' = "set job"
    BY <1>10 DEF SetTask
  <2>2. StepsLeft = 2 /\ StepsLeft' = 1
    BY <2>1 DEF StepsLeft
  <2>3. PagesLeft = 0 /\ PagesLeft' = 0
    BY <2>1, <1>b, <1>c
  <2> QED
    BY <2>2, <2>3 DEF Descends
<1>11. CASE SetJob
  <2>1. pc = "set job" /\ pc' = "idle"
    BY <1>11 DEF SetJob, Exit
  <2>2. StepsLeft = 1 /\ StepsLeft' = 0
    BY <2>1 DEF StepsLeft
  <2>3. PagesLeft = 0 /\ PagesLeft' = 0
    BY <2>1, <1>b, <1>c
  <2> QED
    BY <2>2, <2>3 DEF Descends
<1> QED
  BY <1>1, <1>2, <1>3, <1>4, <1>5, <1>6, <1>7, <1>8, <1>9, <1>10, <1>11 DEF Step

(* No run goes on for ever: every step of a running process lowers a rank of three
   natural numbers, whatever pages and cursors it is given. *)
THEOREM RunsDescend ==
  ASSUME FinitePages
  PROVE  Spec => [](Ranked) /\ [][Step => Descends]_vars
<1>1. IInv => Ranked
  BY RankType
<1>2. IInv /\ IInv' /\ Ranked /\ Ranked' /\ [Next]_vars => [Step => Descends]_vars
  BY StepDescends
<1> QED
  BY <1>1, <1>2, Invariant, PTL DEF Spec

(* What is saved next is of the lowest level that is left. *)
LEMMA LowestLeft ==
  ASSUME TypeOK, todo # {}
  PROVE  \E r \in Records : NextToSave(r)
<1>1. todo \subseteq Records /\ \A r \in Records : Level[r] \in 0..2
  BY ConstantsAssumption DEF TypeOK
<1>2. CASE \E r \in todo : Level[r] = 0
  BY <1>1, <1>2 DEF NextToSave
<1>3. CASE (\A r \in todo : Level[r] # 0) /\ \E r \in todo : Level[r] = 1
  BY <1>1, <1>3 DEF NextToSave
<1>4. CASE \A r \in todo : Level[r] = 2
  BY <1>1, <1>4 DEF NextToSave
<1> QED
  BY <1>1, <1>2, <1>3, <1>4

(* There is a record to save as long as the process is saving. *)
LeftToSave == pc = "save" => todo # {}
LEMMA LeftStep == IInv /\ LeftToSave /\ [Next]_vars => LeftToSave'
<1> SUFFICES ASSUME IInv, LeftToSave, [Next]_vars PROVE LeftToSave'
  OBVIOUS
<1>1. CASE AddRow
  BY <1>1, ConstantsAssumption DEF AddRow, LeftToSave, IInv, TypeOK, Rejected
<1>2. CASE ~AddRow
  BY <1>2 DEF LeftToSave, Next, Step, vars, local, Begin, Open, Fetch, FetchStops,
     WriteRaw, Save, SaveRefused, Commit, RecordFailure, SetTask, SetJob, Die, Exit
<1> QED
  BY <1>1, <1>2

(* No run is ever stuck: a running process has a record to save next while it saves,
   and its job may take the state it has decided on. *)
THEOREM NeverStuck == Spec => [](pc # "idle" => CanStep)
<1>1. Init => LeftToSave
  BY DEF Init, LeftToSave
<1>2. IInv /\ LeftToSave /\ [Next]_vars => LeftToSave'
  BY LeftStep
<1>3. IInv /\ LeftToSave => (pc # "idle" => CanStep)
  <2> SUFFICES ASSUME IInv, LeftToSave, pc # "idle" PROVE CanStep
    OBVIOUS
  <2>1. TypeOK /\ ControlOK /\ pc \in Steps
    BY DEF IInv, TypeOK
  <2>2. CASE pc = "save"
    BY <2>1, <2>2, LowestLeft DEF LeftToSave, CanStep
  <2>3. CASE pc = "set job"
    <3>1. job[me] = "running" /\ verdict \in {"succeeded", "failed", "interrupted"}
      BY <2>1, <2>3 DEF ControlOK, TypeOK
    <3>2. verdict \in Allowed[job[me]]
      BY <3>1 DEF Allowed, JobStates
    <3> QED
      BY <2>3, <3>2 DEF CanStep
  <2> QED
    BY <2>1, <2>2, <2>3 DEF CanStep
<1> QED
  BY <1>1, <1>2, <1>3, Invariant, PTL DEF Spec
=============================================================================
