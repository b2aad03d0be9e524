# Formal models of the Group scanner

TLA+ modules of the capture system in `src/src/app`, checked with TLC on small
instances and, where a theorem is stated, proved with TLAPS for every value of
the constants. Paths below are relative to `src/src/app` unless they start with
`src/`.

## The system

A command-line program captures public Group pages in a browser, stores the raw
HTML first, parses it into canonical records in one SQLite database, and
delivers what it captured by replaying the stored pages.

| component | state it keeps | operations | interacts with |
|---|---|---|---|
| live capture (`workflows/live_capture.py`) | position and seen cursors in memory | capture_pages: run, resume, interrupt, fail | repositories, raw store, a page callback |
| repositories (`storage/repositories.py`) | jobs, raw_captures, groups, posts, comments | transition, add, save_* with the stale guard | every workflow |
| raw store (`capture/raw_store.py`) | gzip files | write (atomic), read (verified) | live capture, replay |
| operator batch (`workflows/operator_batch.py`) | receipt file, identifier sidecar | run, resume | calls live capture per Group |
| operator commands (`cli/main.py`) | lock file, job and live run rows | capture, resume, replay, clean, target and session commands, batch | everything below |
| target preparation (`targets/preparation.py`, `protection_join.py`) | campaigns, hits, membership_transitions | plan_join, complete_join, select | discovery, commands |
| browser capture (`capture/playwright_adapter.py`) | open page, completed actions | capture page, replay actions | live capture (callback) |
| replay (`workflows/html_replay.py`, `workflows/operator_receipt.py`) | exports, receipts | replay | checkpoints, raw store |
| sessions (`session/*.py`) | envelope files, session rows, Chrome pid marker | save, read, probe, attach | commands |
| retention (`retention.py`) | none | clean raw, clean normalized | files and canonical rows |
| migrations (`storage/database.py`) | schema_migrations | migrate | everyone, at every start |
| fixture run and batch (`workflows/fixture_run.py`, `batch_run.py`) | jobs, exports, receipt | run, replay, resume | repositories |
| parsers, contracts, metrics, comparison, preflight, configuration, DPAPI | none | pure or environment checks | – |

Hard parts. A capture is a sequence of SQLite transactions and file
replacements, and the process can die, be interrupted or be refused between any
two. Rows are shared by all jobs of a Group, while checkpoints belong to one
job. Instants of earlier captures are reused, so time can go backwards for a
record. The batch keeps one fact in two files. The gate is a file that outlives
its process. `PROJECT.json` lists the hazards line by line.

What makes each component correct, in a sentence: live capture loses and repeats
no committed page and tells the truth about its outcome; the repositories never
regress a record; the raw store has the evidence of everything derived; the
batch reports each Group once, with its own identifiers; the gate admits one
capture and always reopens; a join is attempted at most once per Group; the
browser repeats on resume exactly what was recorded; replay delivers what was
captured; a session is readable at every instant; retention never breaks a
reference or a replay.

## Modules

| module | kind | models |
|---|---|---|
| `PageLog` | abstract specification | what a job's checkpoints promise |
| `LiveCapture` | detailed specification | `_capture_pages` over its tables and files; implements `PageLog` |
| `OperatorBatch` | detailed specification | `OperatorBatchWorkflow.run` over receipt and sidecar |
| `CaptureGate` | detailed specification | the `capture` and `resume` commands of several processes: lock file, pause, job and live run rows |
| `TargetPreparation` | detailed specification | campaigns, the guarded Join, the selection |
| `BrowserCapture` | detailed specification | the Playwright adapter of one job over several browsers |
| `Delivery` | detailed specification | replay, exports, manifest, receipt and raw cleanup of one job |
| `SessionProfiles` | detailed specification | envelope file and row of one profile |
| `ChromeAttachment` | composition | `SessionProfiles` with the scanner's Chrome, its marker and endpoint files |
| `FixtureBatch` | detailed specification | fixture workflow and fixture batch over one database |
| `LiveCaptureProofs`, `CaptureGateProofs`, `OperatorBatchProofs`, `TargetPreparationProofs`, `BrowserCaptureProofs`, `DeliveryProofs`, `FixtureBatchProofs` | proofs | the theorems about those modules |
| `ChromeAttachmentProofs` | proofs | the theorems about `ChromeAttachment` and the `SessionProfiles` in it |
| `MC...` | instances | the constants of the runs |

How they fit together: `CaptureGate` takes the page loop of `LiveCapture` as one
step with its outcomes (succeeded, stopped, failed, interrupted, killed), and
`LiveCapture` takes the page callback as any rendering with any next cursor;
`BrowserCapture` is that callback, and commits a page in one step that
`LiveCapture` takes apart. `Delivery` begins where `LiveCapture` ends, and takes
the checkpointed pages as a number. `TargetPreparation` ends with the selected
Group that `CaptureGate` starts from.

### LiveCapture

Durable state: `job` and `task` (jobs.state, tasks.state; the task id is the job
id), `checkpoints` (pagination_checkpoints as a table from interaction number to
row), `files` (capture files present), `rawRows` (collected_at of each
raw_captures row, 0 for none), `canon` (observed_at, capture and session class of
the current groups, posts and comments rows) and `attempts` (attempts rows; the
failures row is in the same transaction). In memory, lost when the process ends:
`me`, `class` (the session class of the profile, read once), `pos` (cursor,
pages_completed, seen_cursors), `page`, `todo` (records of the page not
saved yet), `verdict` (the final state about to be written). `clock` is the last
instant handed out by `datetime.now`, taken to be monotone and never to repeat.

Actions follow the loop statement by statement, cut at transaction and file
boundaries: `Begin` (state check and transition to RUNNING), `Open`
(`_ensure_task`, `_resume_position`, the early return of a finished table),
`Fetch` (the callback, the capture id, the reused instant), `FetchStops`
(BrowserStateError), `WriteRaw`, `AddRow` (with the parse and the target checks
that follow it and write nothing), `Save` and `SaveRefused` (one record each),
`Commit` (both bounds, the checkpoint, the interruption, the end),
`RecordFailure`, `SetTask`, `SetJob`, and `Die`, enabled everywhere.

Data is abstracted to what the properties tell apart. A rendering is a value; a
rendering parses to the in-bound records `Content` gives or, if it is in
`Drift`, is rejected; a capture id is the tuple that is hashed. The payload of a
record (`Row`) is determined by its capture, which it embeds, and by the session
class, which the process reads again and which a login may have replaced; the
commands write `app_rendered_html/1.0` runs, whose records carry the instant of
their capture. A page may return any rendering and any next cursor at any time.
`Begin` also admits a job left RUNNING by a process that died: the workflow does,
although the `resume` command refuses it.

A Group reached under its slug and under its number has two ids, two rows and two
targets, while its Posts and Comments have one row each, which names the id they
were saved under. `Refuses` is the guard in its two halves: `OtherIdentity`
(CanonicalIdentityConflict), compared first, and `Stale` (StaleObservation,
ObservationConflict). An identity conflict does leave a page half saved, with its
Group row newer and a Post refused; `RefusedBeforeSaved` says that it is the only
refusal that does. CounterObservationConflict cannot follow a guard that
accepted: a counter row is written in the transaction of its record's row, so no
counter is later than that row, a counter at the instant of an accepted record
comes from an equal payload, and retention deletes both by the same cutoff.

Properties: `RawFirst`, `CheckpointedPagesSaved`, `ResumeContinues`,
`ParentsAsRecent`, `RefusedBeforeSaved`, `OutcomeAgrees`, `RunsEnd` and
`KeepsPromise`, the refinement of `PageLog` under which a job's checkpoint table
is its log and its job state closes the log once. Each is stated in words above
its definition.

### OperatorBatch

`receipt` and `sidecar` are the two files, `NoFile` when absent. Memory is
`keys`, `prev` (the results being resumed), `groups`, `values`
(`_identifier_values`) and `after`. Every turn of the loop appends exactly one
result, so the current target is the one after `groups`. `_write_progress` is
two actions, `WriteReceipt` and `WriteSidecar`; a capture's outcome is chosen
freely among success with any identifier set, incomplete, failed, stopped and
Ctrl-C. A failing file replacement raises out of `run` and is covered by `Die`.
A resume whose files are not accepted raises ValueError and changes nothing. The
Markdown report, the metrics and the pause (0 in the command) are left out.

### CaptureGate

`lock` is `.operator-capture.lock`: absent, the pid of a process, or the pid of
none (`Orphan`). `job`, `context` and `ended` are jobs.state, live_runs.group_id
and jobs.updated_at. Each process has `pc`, `me` (its job), `target` (its Group)
and `wake` (the end of its pause). Actions: the command (`CaptureCommand`, and
`ResumeCommand`, which reads the state before the gate), `Enter` (O_EXCL) or
`Refused`, `ReadPause` and `Wake` (`_wait_between_groups`), `CreateJob` and
`CreateContext` in two transactions, `StartRun` or `NotRunnable` (the check of
the workflow), the four outcomes of the page loop, `Deliver`, `WriteReceipt`.
`Raise` runs only the finally block; `Die` runs nothing and leaves the file
behind; `ClearLock` is the operator who deletes it. The operator is assumed to do
so only when its process is gone: that is the one thing the code cannot check
and does not say. The pause reads the wall clock, which is taken not to go back.

### TargetPreparation

One variable per table (`source`: discovery_campaigns, `hits`: candidate_hits in
rank order, `transition`: membership_transitions, `selected`: selected_targets,
`discovery` and `evidence`: raw captures, the discovery page with the controls it
shows beside each Group). What the site shows is free at every look. The code
concludes from it: `Membership` is `_membership_state`, which takes a candidate
with no join and no requested control for joined, and `Outcome` the reading of
the page after the click, joined when no exact Join button is left and nothing
on the page says requested. Whether the account is a member is not modelled, and
no property speaks of it: a page may show no control beside a Group it never
joined, and a member may be put out later. Each process has its command's `method`, campaign, page, resolved candidate and
outcome. A live discovery stores the page (`StoreDiscovery`), creates the
campaign and its candidates one transaction each, resolves a joined candidate
(`ChooseJoined`) or, with `--join-keyword`, one joinable Group nobody reserved
(`ChooseJoinable`), reserves it (`PlanJoin`), stores the page, clicks, reads and
stores the page again, and completes the transition and unlocks the candidate in
one transaction (`CompleteJoin`). `StopJoin` is a BrowserStateError in between;
it completes the transition as stopped. `Leave` is every failing check, exception
and death. `ListTargets` are the operator's own lists (URL, CSV, fixture), whose
candidates count as joined; `SelectCommand` is `target select`. `clicked` and `known` are
history variables: which campaigns clicked, and which reservations a campaign's
process had read.

### BrowserCapture

Durable: the job, the latest checkpoint (`history` of completed interactions and
the pending `next`), the Posts of the job's pages. A process has its browser's
DOM (`feed`, `shown`, `expanded`) and the adapter's fields. `Navigate` is
`_ensure_page`, `Perform` one call with a checkpoint, which derives the next
interaction again (`Derived`, translated from `_derive_next_action`) and rejects
a checkpoint that disagrees (`Rejected`). `Check`, `Operate` and `OperateFails`
are one attempt of `_retry`, whose failure may come before or after the site saw
the click; `Render` is `_bounded_html` and the empty-shell count; `CommitPage`
is the workflow's page and checkpoint. `Respond` delivers a 401, 403 or 429 at
any time; `StopCapture` is any BrowserStateError and `Interrupt` any end that
leaves the job open. Posts are newest first, a scroll shows one more, and a Post
is expanded through its own marked control or the common label; how a control is
looked for is one nondeterministic outcome; that a page loads late, and shows more
without being asked, is not modelled. Bodies, comments and timestamps are
left out: a Post at the lower date bound is where a feed ends here.

### Delivery

`files` are the five exports: records, `Missing`, `Emptied` (opened for writing)
or `Mixed` (written by two). `Script` is the sequence of file operations of
`_export` and of the receipt writer; a process moves along it, one operation per
step, and replay and clean commands run beside it. Only captures take the gate.
What a page parses to is a function of its bytes and of the session class, which
every record carries (`parsing/app_group.py:449`), so records are a set of pages
and a class. The class is not the one the job was captured with: a delivery reads
it from `session_profiles` before it lists the pages (`ReadClass`), and a login
or an import may replace that row at any time (`SaveProfile`). Two deliveries of
the same pages therefore need not leave the same files, and `ReceiptReproduced`
is only about a later delivery that reads the class the receipt's exports have.
Whether a short file written over a longer one leaves a tail depends on the
number of pages, and on the class, whose names differ in length: then `Tails` has
both. A page that cannot be read, or a profile that is gone, ends the delivery
(`Die`). The class and health that the receipt itself quotes are read from the
row once more and compared with nothing.

### SessionProfiles and ChromeAttachment

`envelope` and `row` name the save they come from, because encryption gives each
save bytes of its own. Every command is a script of readings (`Readings`), each
of which reads the file, then the row, then stores a health; `Probe` lets the
site answer in between. `WriteEnvelope` and `Upsert`, `Unlink` and `DropRow` are
the halves of save and delete. `ChromeAttachment` extends it with the launched
processes, the pid marker and the DevTools endpoint file; `SaveCollected` turns
the process that took a session from Chrome into one that saves it, so the
composition checks both over the same profile. Waiting for the endpoint, refused
terminations and failing launches are outcomes; a pid is not reused. Commands that
overlap, and deaths between the halves of a save or a delete, do leave file and row
apart, or a verdict about an older envelope; `SettledAgree` promises nothing then,
only that the next undisturbed save or delete puts it right.

### FixtureBatch

The rows are keyed by capture because a capture's id, job and task are derived
from its bytes. The batch process moves through `file`, `read`, `parse`, the
transactions of `_persist`, the export, and the receipt, which is truncated
(`Truncate`) and then written; replays of other processes run the same steps
over the same rows. `SaveFails` is a refused record (stale, conflicting, or of
another parent) or a database error; the batch isolates the first and not the
second. The exports are rewritten in place, so a success can lose them later:
`ExportFails` is a file that cannot be written, which the batch isolates, `Die`
may come while they are half written, and writers that overlap may leave them
mixed. `spoiled` is history, the captures whose latest export was cut off or
overlapped; `SuccessBacked` asks for whole exports of all others that nobody is
writing. A job that failed once stays failed when a later run of the same bytes
succeeds, and the batch reports that run as a success; `SuccessBacked` says the
job has ended, not how. `Edit` changes a file of the
directory at any time, also between the batch's hash of it and the workflow's
read. `edited` is history: a file changed while this batch, or one it builds on,
ran. A receipt carries the `edited` of the batch that wrote it, so that a batch
started afresh that dies before its first receipt does not clear the history of
the older receipt a resume will read. A result may be recorded under a digest it
was not captured from when such an edit happened, and only then
(`SuccessBacked`); `FinishedCovers` is about batches without one. A receipt left
truncated by a death is unreadable, so a resume raises and a batch has to begin
afresh: nothing is promised of it.

## Runs

| run | instance | shows |
|---|---|---|
| `live_capture` | 1 job, 3 cursors, 3 pages, 2 processes | inductive invariant, types, resume, saved pages, outcome, termination, refinement |
| `shared_group` | 3 jobs (2 of a Group's slug, 1 of its number), 2 renderings, 2 classes, 1 cursor, 2 pages, 3 processes, job symmetry | the properties about shared rows |
| `operator_batch` | 3 Groups, 2 target lists, 2 identifier sets, 4 runs | receipt, sidecar and resume |
| `batch_completed_stays` | same, 3 runs | violation, see Findings |
| `capture_gate` | 2 processes, 3 jobs, 2 Groups, pause 2, clock to 4 | one capture at a time, paused between Groups, on a running job; ended jobs stay |
| `interrupted_can_resume` | same, from no rows | violation, see Findings |
| `target_preparation` | 2 processes, 2 campaigns, 2 Groups, 2 pages, 2 lists | known reservations honoured, clicks accounted for, selections confirmed by the stored pages and Join, selections kept |
| `browser_capture` | 4 Posts, 4 feeds, 3 recent Posts, 5 pages, 3 interactions, 1 retry, 3 processes | truthful checkpoints, Post limit, prompt stop, rejection only on a change |
| `resume_accepted` | same | violation, see Findings |
| `delivery` | 2 processes, 2 pages, 2 session classes, 3 commands, any deaths, one text export and SQLite | exports agree; replays that read the same class reproduce the receipt |
| `sessions` | 2 processes, 2 saves, 2 launches, 1 death | an undisturbed save or delete leaves file and row agreeing; Chrome stays accounted for |
| `fixture_batch` | 2 files, 3 contents, 2 runs, 1 replay, 1 edit, 1 death or error | successes are backed, exports whole but for cut off or overlapped rewrites; a finished batch covers its directory |

Bounds. In `live_capture`, `MaxStarts` bounds the processes (a first run and what
follows a death); two are enough for every single-job property because a new
process reads nothing but the tables, and three let two jobs alternate so that an
old rendering comes back after a newer one. Three cursors with three pages let a
cycle close before and after a resume, and let the page limit and the loop check
compete. One Post with one Comment is the longest chain of parents there is, and
the short rendering is a page from which a record disappeared. In `shared_group`
the two jobs of the slug make a rendering come back older than the rows, and the
job of the number makes another Group own the Post and the Comment; two classes
let a resumed process save the page of its predecessor under another payload. Four batch runs
let a batch be interrupted, resumed, interrupted in the file window and started
afresh. In `capture_gate` the clock reaches twice the pause, so that a pause can
be waited out, begun again by a later success, and read just before or after it;
the third job lets a success of one Group, a success of the other and a waiting
capture exist together. Two campaigns with two Groups are the least in which two
runs can meet over one Group and one run over two. The three interactions of
`browser_capture` are one of each kind, and the feed of three Posts with one
retry lets a click take effect twice and a later process see a Post more, or a
shell first. One text export stands for the three that are truncated and written
alike, in the same order, without a step between them that depends on their
number; two pages let a replay start between two checkpoints and a cleanup remove
one of them. Three commands are a capture, a replay or cleanup that disturbs it or
dies, and a replay that repairs what they left; logins and deaths are not bounded.
Two saves are a session and its replacement; two launches a Chrome
and its replacement. In `fixture_batch` one capture is newer for the Group and
older for the Post than the other, so that refusal comes after a first record was
saved. Deaths are bounded by one where each death only ends a command and the
next command reads nothing but files and rows: a second one adds a repetition of
the same states.

The models count the instants and attempts without a cap of their own: both are
bounded by the processes started. Deadlock is not checked: when the last process
or command allowed has ended, nothing more happens, which is not an error of the
program.

Fairness. `LiveCapture` is the one module with a liveness property. `FairSpec` is
weak fairness of `Step`, a running process's own next step: the loop is
sequential and waits on nothing but SQLite, the disk and a browser whose calls
have timeouts. No fairness is assumed of `Begin` or `Die`, so nothing says that
anyone resumes a job. `RunsEnd` is the only property that uses it. The other
modules state no fairness: their processes are started, ended and cleared by
operators and the site, of whom the code justifies none. Runs with
symmetry check invariants and step properties only.

Each property of a passing run has a mutant, an operator of the module that
changes one definition the way a plausible bug would (`SaveFirstOnly`,
`WriteSidecarOnce`, `LeaveLocked`, `AttemptedDone`, `BoundedLate`,
`ExportHashedFirst`, `ReleaseUnmarked`, `KeptChanged` ...), under which TLC finds
it violated.

### Findings

`CompletedStays`: the phase-4 plan asks a resume to "preserve completed Groups,
and resume incomplete Groups only"
(`src/docs/phase-4/PHASE_4_ONE_SHOT_THREAD_PM_PLAN.md:116`). `run` writes the
results of the targets visited in this pass, not those it loaded
(`workflows/operator_batch.py:292`), so in a batch whose first Group is
incomplete and whose second succeeded, the first write of the resumed run drops
the second. If the run goes on to the end the success is written back, which
`FinishKeepsCompleted` states and the passing run confirms; if it is stopped,
interrupted or killed there, the success is lost, and the next resume captures
the Group again.

`InterruptedCanResume`: `src/README.md:28` promises "Resume after an intentional
interruption." The `resume` command accepts the states INTERRUPTED and PARTIAL
(`cli/main.py:1082`). The run begins without any row (`FreshSpec`): a capture
command takes the gate, creates its job and live run, starts the job and is ended
in the page loop, by Ctrl-C or another exception no handler expects, or by a
death. Its row stays RUNNING, which resume refuses and no other command moves on;
INTERRUPTED is reached only through `interrupt_after_pages`, a parameter of
`LiveCaptureWorkflow.capture_pages` that no command sets. The workflow itself
would take the job up again, which `LiveCapture` models.

`ResumeAccepted`: `src/README.md:169` says "An interrupted run produces the same
final identifier set as an uninterrupted run." `resume` reads the known Posts of
all checkpointed pages of the Group, those of its own job included
(`cli/main.py:1092`), and the adapter skips the controls of known Posts when it
derives an interaction (`capture/playwright_adapter.py:282`). What the checkpoint
says was derived while these Posts were unknown, so the replay derives another
interaction and stops with checkpoint_invalid, over an unchanged feed: in the
run's trace a first page is committed whose pending interaction expands a Post of
that page, and the next process, which knows the Post, derives another (`:215`;
for an interaction of the history it would be `:207`).
`RejectedOnlyOnChange` is the positive form: over an unchanged feed and unchanged
known Posts, and without a click that took effect twice, no checkpoint is
rejected.

Met while modelling, and no document contradicts it:

- `select="1"` of a batch names rank 1, and the preparation fails when that Group
  is not joined, whichever other one is (`cli/main.py:267`).
- Two runs that both read the reservations before either writes one click Join of
  the same Group; `NoKnownRepeat` is stated for the reservations a run has read,
  and the guard of `protection_join.py:53` is made anew for each action.
- `LiveRunRepository.create` compares an existing row by iterating it
  (`storage/live_runs.py:68`), which a second create of the same job would meet;
  no command makes one.
- `_operator_batch_stop_reason` looks for "lock" in the message and finds it
  inside "blocked".
- A labelled control is found by `.first`, which may be the button of a Post that
  is not permitted; `LabelTargets` models it.
- Deleting a profile that a live run refers to unlinks the envelope and then
  raises IntegrityError, which the command does not catch; the row stays.
- The gate closes its descriptor and, on the way out, closes the same number
  again (`cli/main.py:791`, `:796`).
- A replay that overlaps another may hash an export the other has truncated,
  although the docstring of `workflows/fixture_run.py:467` speaks of complete
  files. A cleanup counts files that are gone already.
- A fixture run again after a failure may end with its task succeeded and its job
  failed; a replay of an older fixture is refused as stale and marks its own task
  failed. The fixture batch writes its receipt in place, so a death can leave one
  that resume cannot read, and reads a fixture once for its digest and once for
  its content.

## Proofs

### LiveCaptureProofs

`LiveCaptureProofs` proves, for every set of jobs, renderings, records and
cursors and every bound, from `ConstantsAssumption` alone:

- `Invariant`: `Spec => []IInv`, and from it `TypeCorrect`, `RawEvidenceFirst`,
  `CheckpointsAreSaved`, `ResumeIsExact`, `ParentsRecent`, `OutcomesAgree`;
- `RefusalsAreWhole`: except for another Group's records, the guard refuses a page
  whole;
- `Refinement`: `Spec => KeepsPromise`, the implementation of `PageLog`;
- `RunsDescend` and `NeverStuck`: what `RunsEnd` rests on apart from fairness.

The assumption says that an accepted rendering is of one Group and holds the
parent of each of its Posts and Comments, one level above (`Level`), that drifted
renderings are renderings, that there is a rendering and a class, and that NULL
is not a cursor.

`IInv` is inductive; the properties alone are not. `ResumeContinues` needs
`TablesOK` (interaction numbers have no gap, only the last page may be terminal)
to know what `ResumePosition` reads, and `TablesOK` needs `ControlOK` (a job
being captured has no terminal checkpoint). `ParentsAsRecent` needs `SavingOK`:
when a record is saved its parent already carries the page's instant, because
`_persist_page` goes down the levels. `CheckpointedPagesSaved` needs the same
conjunct at `Commit`, and rows that only grow. `RawFirst` needs `InstantsOK`: a
capture in hand has its row's instant or a fresh one, and no two captures share
an instant. `RefusedBeforeSaved` is not part of `IInv` but follows from it, by way
of `RowsOK`: a row is not newer than the row of the Group it names, and has that
row's capture and class if it is of its instant. With the Group row at the page's
instant, a record of the same Group can be neither newer nor different.

There is one lemma per conjunct (`TypeStep`, `TablesStep`, ...), each by cases on
the actions that can disturb it, over a few facts about the code's helpers
(`PositionOfTable`, `PositionAdvances`, `UpsertType`, `TableAfterCommit`,
`SaveEffect`). The refinement maps each step to a `Commit`, a `Close` or a
stutter.

`RunsDescend` orders states by the pages left of the budget, the steps left of
the page and the records left to save, and says that every step of a running
process goes down in this order of natural numbers, under the one hypothesis that
a page has finitely many records. `NeverStuck` says that the guard of some step
holds while a process runs, which is not obvious where it saves (a record of the
lowest level is left) and where it closes the job (the job may take that state).
A process that takes its steps therefore ends; the last inference needs ENABLED
and fairness and is left to TLC.

### CaptureGateProofs

For every set of processes, jobs and Groups, every pause and any clock, from
`GateAssumption` alone (the lock's two special values are no processes, `None` is
no job or Group): `Invariant`, and from it `TypeCorrect`, `OneCaptureAtATime`
(`LockNamesHolder`), `GroupsArePaused`, `OnlyRunningJobs` and `EndedJobsStay`.

`LockNamesHolder` is inductive with the types: it is used to show that while one
process is in the gate no other one writes a job row. `PausedBetweenGroups` is
not: it needs `PausesKept`, which says that a process that sleeps wakes late
enough after every success of another Group and that one that captures has.
`CapturesRunningJob` needs `SharedJobsExist` and `CommandsAware`, which say that
two processes work on one job only if its rows exist, and what a command knows of
its job at each step. A stale resume is harmless because
`StartRun` looks at the row again.

### OperatorBatchProofs

For every set of targets, target lists and identifier sets and any number of
runs, from `BatchAssumption` alone (lists have no duplicates and between one and
ten targets, no sidecar is taken for a missing one): `Invariant`, and from it
`TypeCorrect`, `Prefix` (`ReceiptIsPrefix`), `OneGroupLost` (`OnlyLastUnbacked`),
`Resumable` (`FinishedIsResumable`), `NoMixedGenerations` (`IdentifiersMatch`)
and the step property `CompletedAreKept` (`FinishKeepsCompleted`).

The invariant relates memory and files at each point of the write: in the loop
the sidecar has the identifiers of every result and of every resumed one
(`Sidecar(Len(groups))`), between the two replacements it may lack the last one,
and before the second the receipt is exactly the progress in memory.
`FinishedIsResumable` follows from the stronger `FinalOK`, which says so whatever
a later run is doing until it replaces the files. Every outcome of a turn is first
reduced to one relation (`Turn`), so each conjunct has one case for the five ways
a Group can come out.

### TargetPreparationProofs

For every set of processes, campaigns and Groups and every page the site may
show, from `PreparationAssumption` alone (a live page names no Group twice, a
list is not empty, nothing is no Group and no campaign): `Invariant`, and from it
`TypeCorrect`, `KnownRepeatsNever` (`NoKnownRepeat`), `ClicksAccounted`
(`ActionsAccountedFor`), `SelectionHasEvidence` (`SelectedOnEvidence`) and the step property
`SelectionKept` (`SelectionStays`).

`Owned` carries the argument: until its target is to be selected, a campaign is
worked on by one process, because a new command takes a campaign nobody has and
`target select` never works on one. So what a process knows of its rows stays
true between its steps (`Progress`: no reservation before the plan, its own
planned one after; `Evident`: the page before the click, then the click, then
the page after). `NoKnownRepeat` needs two facts at once: `KnownApart`, that a
reservation a process had read is of another Group than the one it reserved, and
`Reserves`, that this is already so when the Group is chosen and nothing is
written yet. `SelectedOnEvidence` needs that the joined candidates of a live
campaign are confirmed (`CampaignsTrue`): each was stored from a page that is
itself stored first and never replaced (`OnPage`), or unlocked by the campaign's
one transition, which keeps its outcome; and that a process about to insert has
checked such a candidate (`TrueMemory`). Each action is reduced to one statement
(`Sound`): the rows it may touch (`Frame`), what it proves of its own process,
and that nobody comes to work on a campaign somebody has; `OthersUndisturbed`
shows once that such a step leaves every other process's facts alone.

### BrowserCaptureProofs

For every Group, feed and set of known Posts, all limits and any number of
processes, from `BrowserAssumption` (a feed names no Post twice, marked and
labelled controls are apart, limits are positive) and `NoActionAssumption` (no
interaction is taken for the missing one): `Invariance`, and from it
`TypeCorrect`, `CheckpointIsTold` (`CheckpointTold`), `PostsAreBounded`
(`PostsBounded`), `StopBitesAtOnce` (`StopIsPrompt`) and `RejectionHasCause`
(`RejectedOnlyOnChange`).

`Positioned` says where a process is between the checkpoint and its pages: what
it has completed is a prefix of what the checkpoint wants (`Wanted`), and Posts
are kept only once all of it is done. `Told` extends `CheckpointTold` to every
step of the replay, and adds that a recorded scroll has something to show.
`Prompt` extends `StopIsPrompt` by what is under way when the stop comes.
`PostsBounded` is inductive but needs that of the first positions of a feed only
so many are below the limit (`RankBound`: in a set of naturals at most M members
have fewer than M below them).

`RejectedOnlyOnChange` compares two processes, so its invariant (`Traced`) does:
as long as all browsers of the job had one view, there is a sequence of pages
that a browser with this view shows along the interactions of the checkpoint,
each interaction is the one derived on its page, and the running process shows
the page of its own position. The derivation depends on nothing else
(`DerivedNext`), so a process that comes to the same place derives the same
interaction.

### DeliveryProofs

For every set of processes and session classes, any number of pages, commands,
logins and deaths and any of the text exports, each once, in any order, from
`DeliveryAssumption` alone: `Invariance`,
and from it `TypeCorrect`, `ExportsRepaired` (`ExportsAgree`) and
`ReceiptIsReproduced` (`ReceiptReproduced`).

A first group of lemmas is about the script itself: what the step at a position
is, that there is one write of each kind and an opening before it if it is not
SQLite, that every hash follows its write and the manifest every hash. `Gated`
says what each process has at each step, and that only the one that captures has
the gate. `Undisturbed` says that a delivery that is alone has left, at every
position behind it, what it is to leave there; each file operation disturbs one
file, and the order of the script tells which positions speak of it. `Whole` is
what the last one has left once it is over, `Attested` what a receipt of such a
delivery stands for: the job has ended, its pages do not grow any more, so later
deliveries are of the same pages, and records of the same pages and the same class
are the same. Three frame lemmas (`QuietStep`,
`DeliveryStep`, `DeliveryEnds`) say once what a step of one process leaves of
the facts about the others.

### ChromeAttachmentProofs

For every set of processes and any number of saves, launches and deaths, from
`SessionAssumption`, `ChromeAssumption` and `MissingAssumption` (no envelope is
taken for the missing one): `Invariant`, and from it `TypeCorrect`, `SettledKept`
(`SettledAgree`) and `ChromeNamed` (`ChromeAccountedFor`).

There are two invariants, as there are two modules. In that of the profile
`Undisturbed` says how far a save or a delete has come that no command overlaps,
`Settled` what it leaves: an intact row, and readers (`Reads`) that hold the
envelope of that row, so that none of them marks it invalid or stores a health
about another. In that of Chrome, as long as nothing is `lost`, at most one
process is at a Chrome step and `Knows` what runs there, and between commands
what runs is what the marker names. `ChromeLeavesProfile` and
`ProfileLeavesChrome` say that a step of one half leaves the memory of the other
as it was; the process that takes a session over from Chrome (`SaveCollected`)
belongs to both.

### FixtureBatchProofs

For every set of captures, contents and replaying processes, one to ten files and
any number of runs, edits and deaths, from `FixtureAssumption` alone: `Invariant`,
and from it `TypeCorrect`, `SuccessIsBacked` (`SuccessBacked`) and
`FinishedIsCovered` (`FinishedCovers`).

Rows of the database only grow towards a success (`Grows`: records get no older,
a job that has ended does not go back, an export is not taken away), so what a
result stands on stays there whatever another process does (`BackedStays`,
`HandStays`). `Hand` follows a capture through `_persist`: the records before
`next` are saved, all of them when the export begins. `Closed` is the second half
of `SuccessBacked`, `Collected` the first for the results in memory too. That
exports which exist are whole is a second invariant on top (`Exports`,
`ExportsAttended`): a torn one has a writer at work or is spoiled, because a
writer drops its capture only by finishing alone, or by spoiling it. For
`FinishedCovers`, `Steady` says that while nobody edits, the batch sees the
directory it began with, and that successes it has taken over were of the bytes
they name.

### Only model-checked

`RunsEnd`: liveness under fairness is outside what TLAPS proves; `RunsDescend`
and `NeverStuck` are its safety half. The expected
violations (`CompletedStays`, `InterruptedCanResume`, `ResumeAccepted`) are
refuted by TLC on an instance. Every other property of a run is also a theorem.
No theorem is stated about data defined by induction; the modules use no
recursive operator.

## Not modelled

- Schema migrations: one transaction per version under BEGIN IMMEDIATE; two first
  starts race, and the loser raises and changes nothing.
- Parsers and record contracts: pure functions; the models see what they return
  (`Content`, `Drift`), or that they raise.
- Metrics, comparison, preflight, configuration: arithmetic and reads of the
  environment, at most one report file.
- DPAPI: an operating-system call; each call gives a fresh envelope.
- Counter observations: written in the transaction of their record, they cannot
  refuse one the guard accepted (see LiveCapture).
  In `FixtureBatch` identity conflicts are not derived from the rows: any record
  may meet one.
- The cleanup of canonical rows: one transaction, children before parents; what
  it needs is `ParentsAsRecent`.
- The scoring, waits and text extraction of live discovery: they end the command
  before a row is written, or return a value.
- Inspection, benchmark and report commands, which only read.

## Plan

Done: `LiveCapture` and `PageLog`, `OperatorBatch`, `CaptureGate`,
`TargetPreparation`, `BrowserCapture`, `Delivery`, `SessionProfiles` with
`ChromeAttachment`, `FixtureBatch`, and the proofs listed above. Next:

1. The abstract promise of `Delivery` (a receipt and the files it attests) as a
   specification of its own, and that `Delivery` implements it.
2. Mutual exclusion as the abstract specification of `CaptureGate`.
