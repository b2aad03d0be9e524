----------------------------- MODULE LiveCapture -----------------------------
(***************************************************************************)
(* The raw-first, resumable page loop of LiveCaptureWorkflow               *)
(* (src/src/app/workflows/live_capture.py) over its SQLite tables and the  *)
(* gzip capture directory.                                                 *)
(*                                                                         *)
(* Every SQLite transaction and every file replacement is one action, and  *)
(* the process may die between any two of them.  One capture runs at a     *)
(* time (the operator gate), for any of several jobs, so canonical rows    *)
(* are shared and checkpoints are not.  Jobs may capture one Group, or     *)
(* Groups that own the same Posts: a Group reached under its slug and      *)
(* under its number has two Group rows and one row per Post.               *)
(***************************************************************************)
EXTENDS Naturals

CONSTANTS
  Jobs,       \* job ids: jobs.job_id, also the task id of the job's only task
  Bytes,      \* renderings: the distinct HTML documents a page can return
  Drift,      \* the renderings the parser rejects
  Records,    \* canonical rows: Groups, their Posts and their Comments
  Level,      \* Level[r]: 0 for a Group, 1 for a Post, 2 for a Comment
  Content,    \* Content[b]: the in-bound records rendering b parses to
  GroupOf,    \* GroupOf[b]: the Group rendering b is of
  Parent,     \* Parent[b][r]: the Post of a Comment, the Group of a Post, on b
  Target,     \* Target[j]: live_runs.group_id, the Group job j captures
  Classes,    \* session classes of a profile
  Cursors,    \* pagination cursors
  NoCursor,   \* the NULL cursor
  NoCapture,  \* "no row yet"
  MaxPages,   \* max_pages
  MaxStarts   \* bound on the number of processes ever started

Groups == {r \in Records : Level[r] = 0}

ASSUME ConstantsAssumption ==
  /\ Drift \subseteq Bytes
  /\ Level \in [Records -> 0..2]
  /\ Content \in [Bytes -> SUBSET Records]
  /\ GroupOf \in [Bytes -> Groups]
  /\ Parent \in [Bytes -> [Records -> Records]]
  /\ Target \in [Jobs -> Groups]
  /\ Bytes # {} /\ Classes # {}
  /\ \A b \in Bytes \ Drift :
       /\ Content[b] \cap Groups = {GroupOf[b]}
       /\ \A r \in Content[b] \ Groups :
            Parent[b][r] \in Content[b] /\ Level[Parent[b][r]] + 1 = Level[r]
  /\ NoCursor \notin Cursors
  /\ MaxPages \in Nat \ {0}
  /\ MaxStarts \in Nat

VARIABLES
  job,          \* jobs.state
  task,         \* tasks.state ("none": no row)
  checkpoints,  \* pagination_checkpoints: interaction number -> row, per job
  files,        \* capture files that exist under raw_root
  rawRows,      \* raw_captures.collected_at by capture (0: no row)
  canon,        \* groups, posts and comments: the current row of each record
  attempts,     \* number of attempts rows, each with its failures row
  clock,        \* the wall clock: the last instant handed out
  pc,           \* where the running process is ("idle": no process runs)
  me,           \* the job it captures
  class,        \* the session class it read, part of every record it saves
  pos,          \* its cursor, pages_completed and seen_cursors
  page,         \* the rendering it fetched, the cursor it leaves, observed_at
  todo,         \* records of the page that are not saved yet
  verdict,      \* the state it is about to give the task and the job
  starts        \* processes started so far

durable == <<job, task, checkpoints, files, rawRows, canon, attempts>>
local == <<me, class, pos, page, todo, verdict>>
vars == <<durable, clock, pc, local, starts>>

JobStates == {"planned", "running", "partial", "succeeded", "failed",
              "interrupted", "cancelled"}
TaskStates == {"none", "running", "succeeded", "failed", "interrupted"}
Steps == {"idle", "open", "fetch", "raw", "row", "save", "commit",
          "record failure", "set task", "set job"}
CursorsOrNone == Cursors \cup {NoCursor}
Captures == [job : Jobs, page : 1..MaxPages, cursor : CursorsOrNone, bytes : Bytes]
CheckpointRows == [capture : Captures, cursor : CursorsOrNone]

-----------------------------------------------------------------------------
(* JobRepository.transition: the states a job may move to. *)
Allowed == [s \in JobStates |->
  CASE s = "planned"     -> {"running", "cancelled"}
    [] s = "running"     -> {"partial", "succeeded", "failed", "interrupted", "cancelled"}
    [] s = "partial"     -> {"running", "succeeded", "failed", "cancelled"}
    [] s = "interrupted" -> {"running", "cancelled"}
    [] OTHER             -> {}]

Transition(j, target) ==
  /\ target \in Allowed[job[j]]
  /\ job' = [job EXCEPT ![j] = target]

(* INSERT ... ON CONFLICT(task_id, interaction_number) DO UPDATE. *)
Upsert(table, n, row) ==
  [m \in DOMAIN table \cup {n} |-> IF m = n THEN row ELSE table[m]]

(* _resume_position: the position the durable checkpoints stand for. *)
Latest(table) == CHOOSE n \in DOMAIN table : \A m \in DOMAIN table : m <= n
(* Mutant of ResumePosition: the NULL cursor of a terminal row counts as seen. *)
ResumePositionSeesNull(table) ==
  IF DOMAIN table = {} THEN [cursor |-> NoCursor, pages |-> 0, seen |-> {}]
  ELSE [cursor |-> table[Latest(table)].cursor,
        pages  |-> Latest(table),
        seen   |-> {table[n].cursor : n \in DOMAIN table}]
ResumePosition(table) ==
  IF DOMAIN table = {} THEN [cursor |-> NoCursor, pages |-> 0, seen |-> {}]
  ELSE [cursor |-> table[Latest(table)].cursor,
        pages  |-> Latest(table),
        seen   |-> {table[n].cursor : n \in DOMAIN table} \ {NoCursor}]

(* The capture id: job, page number, cursor and digest of the rendering. *)
Capture == [job |-> me, page |-> pos.pages + 1, cursor |-> pos.cursor,
            bytes |-> page.bytes]

(* The memory of a process that has not read or fetched anything. *)
Start == ResumePosition(<<>>)
NoClass == CHOOSE k \in Classes : TRUE
NoPage == [bytes |-> CHOOSE b \in Bytes : TRUE, next |-> NoCursor, at |-> 0]

(* The process ends: its memory is lost, the database and the files stay. *)
Exit == /\ pc' = "idle"
        /\ class' = NoClass
        /\ pos' = Start
        /\ page' = NoPage
        /\ todo' = {}
        /\ verdict' = "failed"
        /\ UNCHANGED <<me, clock, starts>>

(* Mutant of NextToSave: records are saved in any order. *)
NextToSaveUnordered(r) == r \in todo
(* The record _persist_page saves next: the Group, then Posts, then Comments. *)
NextToSave(r) == r \in todo /\ \A s \in todo : Level[r] <= Level[s]

(* Only the page of the job's own Group is saved. *)
Rejected == page.bytes \in Drift \/ GroupOf[page.bytes] # Target[me]

(* The current row of a record, as its payload determines it. *)
Row == [at |-> page.at, capture |-> Capture, class |-> class]

(* The columns of a row that may not change: group_id and a Comment's post_id. *)
Identity(b, r) == <<GroupOf[b], Parent[b][r]>>

(* _guard_current_record.  A row of a Post or Comment that names other parents is
   a conflict, whatever its instant; then the row may be newer, or be of the same
   instant with another payload. *)
OtherIdentity(r) ==
  /\ canon[r].at # 0 /\ r \notin Groups
  /\ Identity(canon[r].capture.bytes, r) # Identity(page.bytes, r)
Stale(r) ==
  \/ page.at < canon[r].at
  \/ page.at = canon[r].at /\ canon[r] # Row

Refuses(r) == OtherIdentity(r) \/ Stale(r)

(* Mutant of OverLimit: off by one. *)
OverLimitLate == pos.pages + 1 > MaxPages
(* The two bounds that end pagination with a failure. *)
OverLimit == pos.pages + 1 >= MaxPages
Looping == page.next \in pos.seen

-----------------------------------------------------------------------------
Init ==
  /\ job = [j \in Jobs |-> "planned"]
  /\ task = [j \in Jobs |-> "none"]
  /\ checkpoints = [j \in Jobs |-> <<>>]
  /\ files = {}
  /\ rawRows = [c \in Captures |-> 0]
  /\ canon = [r \in Records |-> [at |-> 0, capture |-> NoCapture, class |-> NoClass]]
  /\ attempts = [j \in Jobs |-> 0]
  /\ clock = 0
  /\ pc = "idle"
  /\ me \in Jobs
  /\ class = NoClass
  /\ pos = Start
  /\ page = NoPage
  /\ todo = {}
  /\ verdict = "failed"
  /\ starts = 0

(* capture_pages is entered for job j: a run, a resume, or a retry of a job
   whose process died. *)
Begin(j) ==
  /\ pc = "idle"
  /\ starts < MaxStarts
  /\ \/ /\ job[j] \in {"planned", "interrupted", "partial"}
        /\ Transition(j, "running")
     \/ /\ job[j] = "running"
        /\ UNCHANGED job
  /\ me' = j
  /\ pc' = "open"
  /\ starts' = starts + 1
  /\ UNCHANGED <<task, checkpoints, files, rawRows, canon, attempts, clock,
                 class, pos, page, todo, verdict>>

(* _ensure_task, then the position its checkpoints leave: a job whose last
   checkpoint is terminal has nothing left to fetch.  Otherwise the profile's
   class is read, which may have been replaced since an earlier process. *)
Open ==
  /\ pc = "open"
  /\ task' = [task EXCEPT ![me] = "running"]
  /\ pos' = ResumePosition(checkpoints[me])
  /\ IF pos'.cursor = NoCursor /\ pos'.pages > 0
       THEN pc' = "set task" /\ verdict' = "succeeded" /\ UNCHANGED class
       ELSE pc' = "fetch" /\ class' \in Classes /\ UNCHANGED verdict
  /\ UNCHANGED <<job, checkpoints, files, rawRows, canon, attempts, clock,
                 me, page, todo, starts>>

(* capture_page(cursor) returns rendering b, which leaves cursor next.  The
   instant of an identical earlier capture is reused. *)
Fetch ==
  /\ pc = "fetch"
  /\ \E b \in Bytes, next \in CursorsOrNone :
       LET cap   == [job |-> me, page |-> pos.pages + 1, cursor |-> pos.cursor,
                     bytes |-> b]
           known == rawRows[cap] # 0
       IN  /\ page' = [bytes |-> b, next |-> next,
                       at |-> IF known THEN rawRows[cap] ELSE clock + 1]
           /\ clock' = IF known THEN clock ELSE clock + 1
  /\ pc' = "raw"
  /\ UNCHANGED <<durable, me, class, pos, todo, verdict, starts>>

(* capture_page raises BrowserStateError: _record_browser_failure. *)
FetchStops ==
  /\ pc = "fetch"
  /\ pc' = "record failure"
  /\ UNCHANGED <<durable, clock, local, starts>>

(* Mutant of WriteRaw: the file is still buffered when its row is written. *)
WriteRawBuffered ==
  /\ pc = "raw"
  /\ pc' = "row"
  /\ UNCHANGED <<durable, clock, local, starts>>

(* GzipRawCaptureStore.write: the file is replaced in one step. *)
WriteRaw ==
  /\ pc = "raw"
  /\ files' = files \cup {Capture}
  /\ pc' = "row"
  /\ UNCHANGED <<job, task, checkpoints, rawRows, canon, attempts, clock, local, starts>>

(* RawCaptureMetadataRepository.add inserts the row, or keeps the equal one;
   then the page is parsed and its target checked, and a drifted layout or another
   Group fails the job before anything of the page is saved. *)
AddRow ==
  /\ pc = "row"
  /\ rawRows' = [rawRows EXCEPT ![Capture] = IF @ = 0 THEN page.at ELSE @]
  /\ IF Rejected
       THEN pc' = "record failure" /\ UNCHANGED todo
       ELSE pc' = "save" /\ todo' = Content[page.bytes]
  /\ UNCHANGED <<job, task, checkpoints, files, canon, attempts, clock,
                 me, class, pos, page, verdict, starts>>

(* Mutant of Save: the page is checkpointed after its first record. *)
SaveFirstOnly(r) ==
  /\ pc = "save"
  /\ NextToSave(r)
  /\ ~Refuses(r)
  /\ canon' = [canon EXCEPT ![r] = Row]
  /\ todo' = todo \ {r}
  /\ pc' = "commit"
  /\ UNCHANGED <<job, task, checkpoints, files, rawRows, attempts, clock,
                 me, class, pos, page, verdict, starts>>

(* Mutant of Save: the upsert leaves observed_at of an existing Group alone. *)
SaveKeepsGroupTime(r) ==
  /\ pc = "save"
  /\ NextToSave(r)
  /\ ~Refuses(r)
  /\ canon' = [canon EXCEPT ![r] =
       IF r \in Groups /\ @.at # 0 THEN [Row EXCEPT !.at = canon[r].at] ELSE Row]
  /\ todo' = todo \ {r}
  /\ pc' = IF todo' = {} THEN "commit" ELSE "save"
  /\ UNCHANGED <<job, task, checkpoints, files, rawRows, attempts, clock,
                 me, class, pos, page, verdict, starts>>

(* save_group, save_post, save_comment: one transaction per record. *)
Save(r) ==
  /\ pc = "save"
  /\ NextToSave(r)
  /\ ~Refuses(r)
  /\ canon' = [canon EXCEPT ![r] = Row]
  /\ todo' = todo \ {r}
  /\ pc' = IF todo' = {} THEN "commit" ELSE "save"
  /\ UNCHANGED <<job, task, checkpoints, files, rawRows, attempts, clock,
                 me, class, pos, page, verdict, starts>>

(* CanonicalIdentityConflict, StaleObservation or ObservationConflict escapes the
   workflow, which records nothing: the process ends and the job stays RUNNING. *)
SaveRefused(r) ==
  /\ pc = "save"
  /\ NextToSave(r)
  /\ Refuses(r)
  /\ Exit
  /\ UNCHANGED durable

(* Mutant of Advanced: the loop check forgets the new cursor. *)
AdvancedUnseen(next) == [cursor |-> next, pages |-> pos.pages + 1, seen |-> pos.seen]
(* Mutant of Advanced: the loop goes on where it was. *)
AdvancedNowhere(next) == pos
(* The position after the page that leaves cursor next is committed. *)
Advanced(next) == [cursor |-> next, pages |-> pos.pages + 1,
                   seen |-> pos.seen \cup {next}]

(* The page's records are durable.  A page that leaves a cursor is checked
   against both bounds before it is checkpointed; the last one is not. *)
Commit ==
  /\ pc = "commit"
  /\ IF page.next # NoCursor /\ (OverLimit \/ Looping)
       THEN /\ pc' = "record failure"
            /\ UNCHANGED <<checkpoints, pos, verdict>>
       ELSE /\ checkpoints' = [checkpoints EXCEPT ![me] =
                 Upsert(@, pos.pages + 1, [capture |-> Capture, cursor |-> page.next])]
            /\ \/ \* interrupt_after_pages is reached
                  /\ pc' = "set task"
                  /\ verdict' = "interrupted"
                  /\ UNCHANGED pos
               \/ /\ page.next = NoCursor
                  /\ pc' = "set task"
                  /\ verdict' = "succeeded"
                  /\ UNCHANGED pos
               \/ /\ page.next # NoCursor
                  /\ pc' = "fetch"
                  /\ pos' = Advanced(page.next)
                  /\ UNCHANGED verdict
  /\ page' = NoPage
  /\ UNCHANGED <<job, task, files, rawRows, canon, attempts, clock, me, class,
                 todo, starts>>

(* _record_failure: the attempts and failures rows in one transaction. *)
RecordFailure ==
  /\ pc = "record failure"
  /\ attempts' = [attempts EXCEPT ![me] = @ + 1]
  /\ pc' = "set task"
  /\ verdict' = "failed"
  /\ UNCHANGED <<job, task, checkpoints, files, rawRows, canon, clock, me, class,
                 pos, page, todo, starts>>

(* Mutant of SetTask: the task's final state is not written. *)
SetTaskSkipped ==
  /\ pc = "set task"
  /\ pc' = "set job"
  /\ UNCHANGED <<durable, clock, local, starts>>

(* _set_task_state, a transaction of its own before the job's. *)
SetTask ==
  /\ pc = "set task"
  /\ task' = [task EXCEPT ![me] = verdict]
  /\ pc' = "set job"
  /\ UNCHANGED <<job, checkpoints, files, rawRows, canon, attempts, clock, local, starts>>

SetJob ==
  /\ pc = "set job"
  /\ Transition(me, verdict)
  /\ Exit
  /\ UNCHANGED <<task, checkpoints, files, rawRows, canon, attempts>>

(* The process is killed, or an exception the workflow does not handle (OSError,
   a locked database, Ctrl-C) escapes it: nothing more is written. *)
Die ==
  /\ pc # "idle"
  /\ Exit
  /\ UNCHANGED durable

Step == \/ Open \/ Fetch \/ FetchStops \/ WriteRaw \/ AddRow
        \/ \E r \in Records : Save(r) \/ SaveRefused(r)
        \/ Commit \/ RecordFailure \/ SetTask \/ SetJob

Next == (\E j \in Jobs : Begin(j)) \/ Step \/ Die

Spec == Init /\ [][Next]_vars

(* A process that runs takes its next step: the loop blocks on nothing that
   has no timeout of its own. *)
FairSpec == Spec /\ WF_vars(Step)

-----------------------------------------------------------------------------
(* Every variable stays in its type. *)
TypeOK ==
  /\ job \in [Jobs -> JobStates]
  /\ task \in [Jobs -> TaskStates]
  /\ DOMAIN checkpoints = Jobs
  /\ \A j \in Jobs : /\ DOMAIN checkpoints[j] \subseteq 1..MaxPages
                     /\ checkpoints[j] \in [DOMAIN checkpoints[j] -> CheckpointRows]
  /\ files \subseteq Captures
  /\ rawRows \in [Captures -> Nat]
  /\ canon \in [Records -> [at : Nat, capture : Captures \cup {NoCapture}, class : Classes]]
  /\ attempts \in [Jobs -> Nat]
  /\ clock \in Nat
  /\ pc \in Steps
  /\ me \in Jobs
  /\ class \in Classes
  /\ pos \in [cursor : CursorsOrNone, pages : 0..MaxPages, seen : SUBSET Cursors]
  /\ page \in [bytes : Bytes, next : CursorsOrNone, at : Nat]
  /\ todo \subseteq Records
  /\ verdict \in {"succeeded", "failed", "interrupted"}
  /\ starts \in 0..MaxStarts

Terminal(table) == \E n \in DOMAIN table : table[n].cursor = NoCursor

(* Raw first ("The raw file becomes durable before any parser sees the bytes"):
   whatever crash happened, a metadata row has its file, and a record or a
   checkpoint has the metadata row it was derived from. *)
RawFirst ==
  /\ \A c \in Captures : rawRows[c] # 0 => c \in files
  /\ \A r \in Records : canon[r].at # 0 =>
       canon[r].capture \in Captures /\ rawRows[canon[r].capture] = canon[r].at
  /\ \A j \in Jobs : \A n \in DOMAIN checkpoints[j] :
       rawRows[checkpoints[j][n].capture] # 0

(* A checkpoint is a promise that its page needs no further work: every record
   the page parses to is in the database, at least as recent as the page, so a
   resume that skips the page loses nothing. *)
CheckpointedPagesSaved ==
  \A j \in Jobs : \A n \in DOMAIN checkpoints[j] :
    LET c == checkpoints[j][n].capture
    IN  /\ c.bytes \notin Drift
        /\ \A r \in Content[c.bytes] : rawRows[c] <= canon[r].at

(* The position a running process holds in memory is the one a process started
   now would read: dying at any point repeats no committed page, skips none and
   forgets no cursor of the loop check. *)
ResumeContinues ==
  pc \in {"fetch", "raw", "row", "save", "commit"} =>
    pos = ResumePosition(checkpoints[me])

(* A Group row is never older than its Posts, nor a Post than its Comments, in
   the parents the rows name, however runs of several jobs and repeated pages
   interleave: retention, which deletes rows older than a cutoff with foreign keys
   enforced, needs it. *)
ParentsAsRecent ==
  \A r \in Records \ Groups : canon[r].at # 0 =>
    canon[r].at <= canon[Parent[canon[r].capture.bytes][r]].at

(* Once the Group row of a page is accepted, no Post or Comment of it is refused
   for its time or its payload: StaleObservation and ObservationConflict reject a
   page as a whole.  The one refusal that can leave a page half saved is that of a
   record that another Group owns, whose identity the guard compares first. *)
RefusedBeforeSaved ==
  pc = "save" /\ GroupOf[page.bytes] \notin todo =>
    \A r \in todo : Stale(r) => GroupOf[canon[r].capture.bytes] # GroupOf[page.bytes]

(* The job's final state agrees with the evidence written in other
   transactions: its task, its checkpoints and its failures. *)
OutcomeAgrees ==
  \A j \in Jobs :
    /\ job[j] = "succeeded" => task[j] = "succeeded" /\ Terminal(checkpoints[j])
    /\ job[j] = "failed" =>
         task[j] = "failed" /\ attempts[j] > 0 /\ ~Terminal(checkpoints[j])
    /\ job[j] = "interrupted" => task[j] = "interrupted" /\ DOMAIN checkpoints[j] # {}

(* What the proofs need besides: the inductive invariant, part by part.  It is
   checked by TLC like the others. *)

PageSteps == {"fetch", "raw", "row", "save", "commit"}
HoldsPage == pc \in {"raw", "row", "save", "commit"}

(* The interaction numbers of a job are 1..k, only the last page may leave no
   cursor, and a page that leaves one is not the last of the page budget. *)
TableOK(table) ==
  \E k \in 0..MaxPages :
    /\ DOMAIN table = 1..k
    /\ \A n \in 1..k : n < k \/ n = MaxPages => (table[n].cursor = NoCursor <=> n = k)
TablesOK == \A j \in Jobs : TableOK(checkpoints[j])

(* What a process at each step has established about its job. *)
ControlOK ==
  /\ pc # "idle" => job[me] = "running"
  /\ pc \in PageSteps => pos.pages < MaxPages
  /\ pc \in PageSteps \cup {"record failure"} => ~Terminal(checkpoints[me])
  /\ pc \in {"set task", "set job"} =>
       /\ verdict = "succeeded" => Terminal(checkpoints[me])
       /\ verdict = "failed" => ~Terminal(checkpoints[me]) /\ attempts[me] > 0
       /\ verdict = "interrupted" => DOMAIN checkpoints[me] # {}
  /\ pc = "set job" => task[me] = verdict

(* Instants: no capture is from the future, two captures never share one, and
   the page in hand has its row's instant or a fresh one. *)
InstantsOK ==
  /\ \A c \in Captures : rawRows[c] <= clock
  /\ \A c, d \in Captures : rawRows[c] = rawRows[d] /\ rawRows[c] # 0 => c = d
  /\ HoldsPage =>
       /\ page.at # 0 /\ page.at <= clock
       /\ IF rawRows[Capture] # 0 THEN rawRows[Capture] = page.at
          ELSE \A c \in Captures : rawRows[c] < page.at
  /\ pc = "row" => Capture \in files
  /\ pc \in {"save", "commit"} => rawRows[Capture] # 0

(* Saving goes down the levels: what is saved is of this page, and nothing
   left to save is above what is saved. *)
SavingOK ==
  /\ pc \in {"save", "commit"} =>
       /\ page.bytes \notin Drift
       /\ todo \subseteq Content[page.bytes]
       /\ \A r \in Content[page.bytes] \ todo :
            /\ canon[r] = Row
            /\ \A s \in todo : Level[r] <= Level[s]
  /\ pc = "commit" => todo = {}

(* A row is never newer than the row of the Group it was captured for, and of the
   same capture and session if it is of the same instant; and a Comment's row
   names the Group that the row of its Post names. *)
RowsOK ==
  \A r \in Records : canon[r].at # 0 =>
    LET b == canon[r].capture.bytes
    IN  /\ b \notin Drift /\ r \in Content[b]
        /\ canon[r].at <= canon[GroupOf[b]].at
        /\ canon[r].at = canon[GroupOf[b]].at => canon[r] = canon[GroupOf[b]]
        /\ Level[r] = 2 => GroupOf[canon[Parent[b][r]].capture.bytes] = GroupOf[b]

IInv == /\ TypeOK /\ TablesOK /\ ControlOK /\ InstantsOK /\ SavingOK /\ RowsOK
        /\ RawFirst /\ ParentsAsRecent /\ CheckpointedPagesSaved
        /\ ResumeContinues /\ OutcomeAgrees

(* Every process ends by itself: the page limit and the loop check bound the
   page loop whatever cursors the pages return. *)
RunsEnd == pc # "idle" ~> pc = "idle"

(* The refinement: the checkpoint table is an append-only log of pages, and the
   job's state closes it once. *)
Outcome == [j \in Jobs |-> IF job[j] \in {"succeeded", "failed"} THEN job[j] ELSE "open"]
Promise == INSTANCE PageLog WITH log <- checkpoints, outcome <- Outcome
KeepsPromise == Promise!Spec
=============================================================================
