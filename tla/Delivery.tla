------------------------------- MODULE Delivery -------------------------------
(***************************************************************************)
(* The delivery of one live job: its checkpointed pages are read again,     *)
(* verified and parsed (workflows/html_replay.py), exported to five files   *)
(* and a manifest row (FixtureWorkflow._export) and recorded in the         *)
(* operator receipt (workflows/operator_receipt.py).                       *)
(*                                                                         *)
(* A capture or resume command delivers inside the capture gate once its    *)
(* job has succeeded.  The replay command delivers the same job without     *)
(* the gate, whatever the job's state, and the clean command unlinks raw    *)
(* files (retention.py), at any time.  What a page parses to is a function  *)
(* of its bytes and of the session class, which every record carries and    *)
(* the delivery reads from the session row; a login or an import may        *)
(* replace that row at any time.  So pages and class stand for the records. *)
(* More pages make longer files.  The exports other than SQLite are         *)
(* truncated and then written in place.  A metrics file is an optional part *)
(* of the receipt and left out.                                             *)
(***************************************************************************)
EXTENDS Integers, Sequences, FiniteSets, Functions

CONSTANTS
  Workers,     \* processes
  Classes,     \* session classes of a live profile
  MaxPages,    \* bound on the pages the job checkpoints
  MaxCommands, \* bound on the commands that operators start
  Texts,       \* the exports written in place, in order: json, csv, markdown
  Nobody,
  Missing,     \* no such file, row or receipt
  Emptied,     \* a file that was opened for writing
  Mixed        \* a short write over a longer one

ASSUME DeliveryAssumption ==
  /\ MaxPages \in Nat \ {0} /\ MaxCommands \in Nat /\ Nobody \notin Workers
  /\ Missing \notin Classes
  /\ Texts \in Seq({"json", "csv", "markdown"}) /\ IsInjective(Texts)

Pages == 1..MaxPages
Hashed == Range(Texts) \cup {"sqlite"}
Kinds == Hashed \cup {"manifest"}

VARIABLES
  class,    \* session_profiles.session_class of the job's profile
  job,      \* "open" (a capture may run or resume), "succeeded" or "failed"
  pages,    \* how many pages are checkpointed
  raw,      \* pages whose raw file is there
  gate,     \* the process that captures, or delivers what it captured
  files,    \* the exports
  row,      \* the export_manifests row: what the manifest it hashed said
  receipt,  \* the operator receipt
  pc,       \* what each process does
  at,       \* its position in the script of the delivery
  todo,     \* pages it found checkpointed, or raw files it is to unlink
  as,       \* the session class it has read
  got,      \* pages it has read
  seen,     \* files it has hashed
  commands, \* commands that have started
  alone,    \* the process whose delivery no other one has overlapped
  settled   \* the latest delivery to finish was not overlapped, and no other
            \* has begun

vars == <<class, job, pages, raw, gate, files, row, receipt, pc, at, todo, as, got, seen,
          commands, alone, settled>>

Records == [pages : SUBSET Pages, class : Classes]
Content == Records \cup {Missing, Emptied, Mixed}
Manifest == [of : Records, hashes : [Hashed -> Content]]
Nothing == [kind \in Kinds |-> Missing]

-----------------------------------------------------------------------------
Do(what, kind) == [do |-> what, kind |-> kind]
Written == [n \in 1..2 * Len(Texts) |->
              Do(IF n % 2 = 1 THEN "open" ELSE "write", Texts[(n + 1) \div 2])]
Hashes == [n \in 1..Len(Texts) |-> Do("hash", Texts[n])] \o <<Do("hash", "sqlite")>>
Manifested == <<Do("open", "manifest"), Do("write", "manifest"), Do("record", "manifest")>>
(* Mutant of Export: the database export is hashed before it is replaced. *)
ExportHashedFirst == Written \o Hashes \o <<Do("write", "sqlite")>> \o Manifested
(* _export, file by file. *)
Export == Written \o <<Do("write", "sqlite")>> \o Hashes \o Manifested
(* OperatorRunReceiptWriter.write, after the export of the same process. *)
Attest == Hashes \o <<Do("hash", "manifest"), Do("attest", "manifest")>>
Script(w) == IF gate = w THEN Export \o Attest ELSE Export

Delivering == {w \in Workers : pc[w] \in {"read", "export"}}

Init ==
  /\ class \in Classes
  /\ job = "open" /\ pages = 0 /\ raw = {} /\ gate = Nobody
  /\ files = Nothing /\ row = Missing /\ receipt = Missing
  /\ pc = [w \in Workers |-> "idle"] /\ at = [w \in Workers |-> 0]
  /\ todo = [w \in Workers |-> {}] /\ got = [w \in Workers |-> {}]
  /\ as = [w \in Workers |-> Missing]
  /\ seen = [w \in Workers |-> Nothing]
  /\ commands = 0 /\ alone = Nobody /\ settled = FALSE

(* The process ends, in whatever it was doing. *)
Ends(w) ==
  /\ pc' = [pc EXCEPT ![w] = "idle"] /\ at' = [at EXCEPT ![w] = 0]
  /\ todo' = [todo EXCEPT ![w] = {}] /\ got' = [got EXCEPT ![w] = {}]
  /\ as' = [as EXCEPT ![w] = Missing]
  /\ seen' = [seen EXCEPT ![w] = Nothing]
  /\ gate' = IF gate = w THEN Nobody ELSE gate
  /\ alone' = IF alone = w THEN Nobody ELSE alone

-----------------------------------------------------------------------------
(* An operator starts one more command. *)
Starts(w, what) == /\ pc[w] = "idle" /\ commands < MaxCommands
                   /\ pc' = [pc EXCEPT ![w] = what]
                   /\ commands' = commands + 1

(* A capture or resume command runs the job; LiveCapture has its steps. *)
StartCapture(w) ==
  /\ Starts(w, "capture") /\ gate = Nobody /\ job = "open"
  /\ gate' = w
  /\ UNCHANGED <<class, job, pages, raw, files, row, receipt, at, todo, as, got, seen,
                 alone, settled>>

CheckpointPage(w) ==
  /\ pc[w] = "capture" /\ pages < MaxPages
  /\ pages' = pages + 1 /\ raw' = raw \cup {pages + 1}
  /\ UNCHANGED <<class, job, gate, files, row, receipt, pc, at, todo, as, got, seen,
                 commands, alone, settled>>

(* Mutant of EndCapture: the job's last transition is forgotten. *)
EndCaptureOpen(w) ==
  /\ pc[w] = "capture" /\ pages > 0
  /\ pc' = [pc EXCEPT ![w] = "profile"]
  /\ UNCHANGED <<class, job, pages, raw, gate, files, row, receipt, at, todo, as, got,
                 seen, commands, alone, settled>>
EndCapture(w) ==
  /\ pc[w] = "capture" /\ pages > 0
  /\ job' = "succeeded"
  /\ pc' = [pc EXCEPT ![w] = "profile"]
  /\ UNCHANGED <<class, pages, raw, gate, files, row, receipt, at, todo, as, got, seen,
                 commands, alone, settled>>

(* A BrowserStateError; the stop receipt is written next, without exports. *)
FailCapture(w) ==
  /\ pc[w] = "capture"
  /\ job' = "failed"
  /\ pc' = [pc EXCEPT ![w] = "stopping"]
  /\ UNCHANGED <<class, pages, raw, gate, files, row, receipt, at, todo, as, got, seen,
                 commands, alone, settled>>
WriteStop(w) ==
  /\ pc[w] = "stopping"
  /\ receipt' = [state |-> job, of |-> Missing, raw |-> 1..pages, files |-> Nothing,
                 lone |-> FALSE]
  /\ Ends(w)
  /\ UNCHANGED <<class, job, pages, raw, files, row, commands, settled>>

-----------------------------------------------------------------------------
(* The replay command. *)
StartReplay(w) ==
  /\ Starts(w, "profile")
  /\ UNCHANGED <<class, job, pages, raw, gate, files, row, receipt, at, todo, as, got,
                 seen, alone, settled>>

(* The session class goes into every record of this delivery. *)
ReadClass(w) ==
  /\ pc[w] = "profile"
  /\ as' = [as EXCEPT ![w] = class]
  /\ pc' = [pc EXCEPT ![w] = "list"]
  /\ UNCHANGED <<class, job, pages, raw, gate, files, row, receipt, at, todo, got, seen,
                 commands, alone, settled>>

(* A login or an import saves the profile again; SessionProfiles has its steps. *)
SaveProfile ==
  /\ class' \in Classes
  /\ UNCHANGED <<job, pages, raw, gate, files, row, receipt, pc, at, todo, as, got, seen,
                 commands, alone, settled>>

(* The checkpoints are read at once, their files one after the other. *)
ListPages(w) ==
  /\ pc[w] = "list" /\ pages > 0
  /\ todo' = [todo EXCEPT ![w] = 1..pages]
  /\ pc' = [pc EXCEPT ![w] = "read"]
  /\ alone' = IF Delivering = {} THEN w ELSE Nobody
  /\ settled' = FALSE
  /\ UNCHANGED <<class, job, pages, raw, gate, files, row, receipt, at, as, got, seen,
                 commands>>

NextPage(w) == Cardinality(got[w]) + 1
ReadPage(w) ==
  /\ pc[w] = "read" /\ got[w] # todo[w]
  /\ NextPage(w) \in raw
  /\ got' = [got EXCEPT ![w] = @ \cup {NextPage(w)}]
  /\ UNCHANGED <<class, job, pages, raw, gate, files, row, receipt, pc, at, todo, as, seen,
                 commands, alone, settled>>

(* Mutant of MayExport: the exports are opened while pages are still read. *)
MayExportEarly(w) == got[w] # {}
MayExport(w) == got[w] = todo[w]
BeginExport(w) ==
  /\ pc[w] = "read" /\ MayExport(w)
  /\ pc' = [pc EXCEPT ![w] = "export"] /\ at' = [at EXCEPT ![w] = 1]
  /\ UNCHANGED <<class, job, pages, raw, gate, files, row, receipt, todo, as, got, seen,
                 commands, alone, settled>>

Step(w) == Script(w)[at[w]]
Advance(w) == at' = [at EXCEPT ![w] = @ + 1]

Open(w) ==
  /\ pc[w] = "export" /\ Step(w).do = "open"
  /\ files' = [files EXCEPT ![Step(w).kind] = Emptied]
  /\ Advance(w)
  /\ UNCHANGED <<class, job, pages, raw, gate, row, receipt, pc, todo, as, got, seen,
                 commands, alone, settled>>

(* What the process writes, and whether bytes that others wrote since remain
   behind it: not behind as many pages, unless the class makes the records
   shorter.  Of markdown and manifest it changes only hashes. *)
Holds(w) == [pages |-> got[w], class |-> as[w]]
Output(w, kind) ==
  IF kind = "manifest" THEN [of |-> Holds(w), hashes |-> [k \in Hashed |-> seen[w][k]]]
  ELSE Holds(w)
Found(kind) == IF kind = "manifest" THEN files[kind].of ELSE files[kind]
Tails(w, kind) ==
  IF kind = "sqlite" \/ files[kind] = Emptied THEN {FALSE}
  ELSE IF \/ files[kind] \in {Missing, Mixed}
          \/ kind \notin {"markdown", "manifest"} /\ Found(kind).class # as[w]
       THEN BOOLEAN ELSE {~(Found(kind).pages \subseteq got[w])}
Write(w) ==
  /\ pc[w] = "export" /\ Step(w).do = "write"
  /\ \E tail \in Tails(w, Step(w).kind) :
       files' = [files EXCEPT ![Step(w).kind] =
                   IF tail THEN Mixed ELSE Output(w, Step(w).kind)]
  /\ Advance(w)
  /\ UNCHANGED <<class, job, pages, raw, gate, row, receipt, pc, todo, as, got, seen,
                 commands, alone, settled>>

Hash(w) ==
  /\ pc[w] = "export" /\ Step(w).do = "hash"
  /\ seen' = [seen EXCEPT ![w][Step(w).kind] = files[Step(w).kind]]
  /\ Advance(w)
  /\ UNCHANGED <<class, job, pages, raw, gate, files, row, receipt, pc, todo, as, got,
                 commands, alone, settled>>

(* The hash in the row is that of the bytes, not of the file. *)
Record(w) ==
  /\ pc[w] = "export" /\ Step(w).do = "record"
  /\ row' = Output(w, "manifest")
  /\ IF gate = w THEN Advance(w) /\ UNCHANGED <<gate, pc, todo, as, got, seen, alone,
                                                settled>>
     ELSE settled' = (alone = w) /\ Ends(w)
  /\ UNCHANGED <<class, job, pages, raw, files, receipt, commands>>

WriteReceipt(w) ==
  /\ pc[w] = "export" /\ Step(w).do = "attest"
  /\ receipt' = [state |-> job, of |-> Holds(w), raw |-> 1..pages, files |-> seen[w],
                 lone |-> alone = w]
  /\ settled' = (alone = w)
  /\ Ends(w)
  /\ UNCHANGED <<class, job, pages, raw, files, row, commands>>

-----------------------------------------------------------------------------
(* The clean command: files of the pages collected before a cutoff. *)
StartClean(w) ==
  /\ Starts(w, "clean")
  /\ \E cutoff \in 1..pages : todo' = [todo EXCEPT ![w] = 1..cutoff]
  /\ UNCHANGED <<class, job, pages, raw, gate, files, row, receipt, at, as, got, seen,
                 alone, settled>>
Unlink(w) ==
  /\ pc[w] = "clean"
  /\ \E p \in todo[w] :
       /\ raw' = raw \ {p}
       /\ IF todo[w] = {p} THEN Ends(w)
          ELSE todo' = [todo EXCEPT ![w] = @ \ {p}] /\ UNCHANGED <<pc, at, as, got, seen,
                                                                   gate, alone>>
  /\ UNCHANGED <<class, job, pages, files, row, receipt, commands, settled>>

(* An error, an interrupt or a death: what is done stays done.  A page whose
   file is missing or altered ends the delivery so, before any export. *)
Die(w) ==
  /\ pc[w] # "idle"
  /\ Ends(w)
  /\ UNCHANGED <<class, job, pages, raw, files, row, receipt, commands, settled>>

Next ==
  \/ SaveProfile
  \/ \E w \in Workers :
       \/ StartCapture(w) \/ CheckpointPage(w) \/ EndCapture(w) \/ FailCapture(w)
       \/ WriteStop(w) \/ StartReplay(w) \/ ReadClass(w) \/ ListPages(w) \/ ReadPage(w)
       \/ BeginExport(w) \/ Open(w) \/ Write(w) \/ Hash(w) \/ Record(w) \/ WriteReceipt(w)
       \/ StartClean(w) \/ Unlink(w) \/ Die(w)

Spec == Init /\ [][Next]_vars

-----------------------------------------------------------------------------
(* Every variable keeps its type, and a receipt with exports is the one of a
   job that has succeeded. *)
TypeOK ==
  /\ class \in Classes
  /\ job \in {"open", "succeeded", "failed"} /\ pages \in 0..MaxPages /\ raw \subseteq 1..pages
  /\ gate \in Workers \cup {Nobody} /\ alone \in Workers \cup {Nobody}
  /\ commands \in 0..MaxCommands /\ settled \in BOOLEAN
  /\ \A kind \in Hashed : files[kind] \in Content
  /\ files["manifest"] \in Manifest \cup {Missing, Emptied, Mixed}
  /\ row \in Manifest \cup {Missing}
  /\ receipt # Missing /\ receipt.of # Missing => receipt.state = "succeeded"
  /\ \A w \in Workers :
       /\ pc[w] \in {"idle", "capture", "stopping", "profile", "list", "read", "export", "clean"}
       /\ at[w] \in 0..Len(Script(w))
       /\ as[w] \in Classes \cup {Missing}
       /\ todo[w] \in SUBSET Pages /\ got[w] \in SUBSET Pages

(* One delivery undisturbed by another repairs whatever commands and overlaps
   have left: the five files hold the same records, the manifest has the hashes
   of the other four, and the row has the manifest's. *)
ExportsAgree ==
  settled =>
    /\ files["manifest"] = row
    /\ \A kind \in Hashed : files[kind] = row.of /\ row.hashes[kind] = files[kind]

(* A later replay, while it is not overlapped, reproduces the files that the
   receipt of an undisturbed delivery attests, however many raw files are
   cleaned between its reads (a delivery that misses a page touches nothing),
   unless the profile it reads has got another session class. *)
ReceiptReproduced ==
  receipt # Missing /\ receipt.lone =>
    /\ receipt.of.pages = receipt.raw /\ receipt.raw = 1..pages
    /\ settled /\ row.of.class = receipt.of.class => receipt.files = files
=============================================================================
