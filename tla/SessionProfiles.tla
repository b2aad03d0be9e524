---------------------------- MODULE SessionProfiles ----------------------------
(***************************************************************************)
(* One encrypted session profile (src/src/app/session/profiles.py): an      *)
(* envelope file and a row with the envelope's hash and the session's       *)
(* health.  Commands of several processes save, read, probe and delete it,  *)
(* and nothing keeps them apart.  Encryption is randomised, so every save   *)
(* makes an envelope of its own, known by its number.                      *)
(***************************************************************************)
EXTENDS Integers, Sequences

CONSTANTS
  Workers,   \* processes
  MaxSaves,  \* bound on the saves
  MaxDeaths, \* bound on the commands that end early
  Nobody,
  Missing    \* no envelope, no row

ASSUME SessionAssumption ==
  {MaxSaves, MaxDeaths} \subseteq Nat /\ Nobody \notin Workers

VARIABLES
  envelope, \* the save whose envelope the file is
  row,      \* the session_profiles row: the save its hash is of, and its health
  used,     \* a live run refers to the row
  saves,    \* saves so far
  deaths,   \* commands that have ended early
  pc, command, reading, \* what each process does, for which command and
                        \* reading of it
  mine,     \* the save whose envelope it has read or written
  verdict,  \* the health it is going to store
  alone,    \* the process whose save or delete no command has overlapped
  settled,  \* what that command has done, once it has finished
  judged    \* the save that the stored health is about

shared == <<envelope, row, used, saves, deaths>>
local == <<pc, command, reading, mine, verdict>>
ghosts == <<alone, settled, judged>>
sessionVars == <<shared, local, ghosts>>

Saves == 1..MaxSaves
(* The expired, challenged and restricted are to this model invalid. *)
Healths == {"observed", "session_invalid"}
(* No envelope and no row are neither. *)
ASSUME MissingAssumption == Missing \notin Saves \cup [hash : Saves, health : Healths]
Idle == {w \in Workers : pc[w] = "idle"}

(* How each command reads the profile: read_state raises, inspect does not,
   probe_health asks the site.  A run reads for its browser, for its metadata
   and for its probe, then twice again inside the gate. *)
Readings ==
  [save |-> <<"inspect">>, inspect |-> <<"inspect">>, health |-> <<"probe">>, delete |-> <<>>,
   run |-> <<"read", "inspect", "probe", "read", "inspect">>]
Reading(w) == Readings[command[w]][reading[w]]

SessionInit ==
  /\ envelope = Missing /\ row = Missing /\ used = FALSE
  /\ saves = 0 /\ deaths = 0
  /\ pc = [w \in Workers |-> "idle"] /\ command = [w \in Workers |-> "inspect"]
  /\ reading = [w \in Workers |-> 1] /\ mine = [w \in Workers |-> Missing]
  /\ verdict = [w \in Workers |-> "observed"]
  /\ alone = Nobody /\ settled = "no" /\ judged = Missing

-----------------------------------------------------------------------------
Goto(w, label) == pc' = [pc EXCEPT ![w] = label]
(* A command begins; a save or a delete is alone while no other one runs. *)
Begins(w, name, label) ==
  /\ pc[w] = "idle"
  /\ Goto(w, label)
  /\ command' = [command EXCEPT ![w] = name]
  /\ reading' = [reading EXCEPT ![w] = 1]
  /\ alone' = IF name \in {"save", "delete"} /\ Idle = Workers THEN w ELSE Nobody
  /\ settled' = IF name \in {"save", "delete"} THEN "no" ELSE settled
  /\ UNCHANGED <<mine, verdict, judged>>
(* It ends, and has done what it promises or not. *)
Ends(w, promise) ==
  /\ Goto(w, "idle")
  /\ mine' = [mine EXCEPT ![w] = Missing]
  /\ verdict' = [verdict EXCEPT ![w] = "observed"]
  /\ alone' = IF alone = w THEN Nobody ELSE alone
  /\ settled' = IF alone = w /\ promise # "no" THEN promise ELSE settled
  /\ command' = [command EXCEPT ![w] = "inspect"]
  /\ reading' = [reading EXCEPT ![w] = 1]
Done(w) == IF command[w] = "save" THEN "saved" ELSE "no"
(* The next reading of the command, or its end; a run goes on to capture. *)
Continue(w) ==
  IF reading[w] < Len(Readings[command[w]])
    THEN Goto(w, "file") /\ reading' = [reading EXCEPT ![w] = @ + 1]
         /\ UNCHANGED <<command, mine, verdict, alone, settled>>
  ELSE IF command[w] = "run"
    THEN Goto(w, "use") /\ UNCHANGED <<command, reading, mine, verdict, alone, settled>>
  ELSE Ends(w, Done(w))

StartRead(w) ==
  /\ \E name \in {"inspect", "health", "run"} : Begins(w, name, "file")
  /\ UNCHANGED shared

(* import_state, save_guided_state. *)
StartSave(w) == Begins(w, "save", "write") /\ UNCHANGED shared

(* _write_envelope replaces the file. *)
WriteEnvelope(w) ==
  /\ pc[w] = "write" /\ saves < MaxSaves
  /\ saves' = saves + 1
  /\ envelope' = saves + 1
  /\ mine' = [mine EXCEPT ![w] = saves + 1]
  /\ Goto(w, "upsert")
  /\ UNCHANGED <<row, used, deaths, command, reading, verdict, ghosts>>

(* Mutant of Upserted: the metadata of an existing row is not replaced. *)
UpsertedOld(n) == [hash |-> IF row = Missing THEN n ELSE row.hash, health |-> "observed"]
Upserted(n) == [hash |-> n, health |-> "observed"]
Upsert(w) ==
  /\ pc[w] = "upsert"
  /\ row' = Upserted(mine[w])
  /\ judged' = mine[w]
  /\ Goto(w, "file")
  /\ UNCHANGED <<envelope, used, saves, deaths, command, reading, mine, verdict,
                 alone, settled>>

(* read_state: the file first, then the row. *)
ReadFile(w) ==
  /\ pc[w] = "file"
  /\ mine' = [mine EXCEPT ![w] = envelope]
  /\ Goto(w, "row")
  /\ UNCHANGED <<shared, command, reading, verdict, ghosts>>
Attested(w) == row # Missing /\ row.hash = mine[w]
ReadRow(w) ==
  /\ pc[w] = "row" /\ Attested(w)
  /\ IF Reading(w) = "probe"
       THEN Goto(w, "probe") /\ UNCHANGED <<command, reading, mine, verdict, alone, settled>>
       ELSE Continue(w)
  /\ UNCHANGED <<shared, judged>>
(* No envelope, no row, or another hash than the row's. *)
ReadFails(w) ==
  /\ pc[w] = "row" /\ ~Attested(w)
  /\ Goto(w, "invalid")
  /\ UNCHANGED <<shared, command, reading, mine, verdict, ghosts>>

(* _set_health, whatever row there is now. *)
Store(w, health) ==
  IF row = Missing THEN UNCHANGED <<row, judged>>
  ELSE row' = [row EXCEPT !.health = health] /\ judged' = mine[w]
SetInvalid(w) ==
  /\ pc[w] = "invalid"
  /\ Store(w, "session_invalid")
  /\ IF Reading(w) = "probe"
       THEN /\ verdict' = [verdict EXCEPT ![w] = "session_invalid"]
            /\ Goto(w, "report")
            /\ UNCHANGED <<command, reading, mine, alone, settled>>
     ELSE IF Reading(w) = "inspect" /\ row # Missing THEN Continue(w)
     ELSE Ends(w, "no")
  /\ UNCHANGED <<envelope, used, saves, deaths>>

(* The site answers for the session that was read; a navigation may fail. *)
Probe(w) ==
  /\ pc[w] = "probe"
  /\ \E health \in Healths : verdict' = [verdict EXCEPT ![w] = health]
  /\ Goto(w, "report")
  /\ UNCHANGED <<shared, command, reading, mine, ghosts>>
Report(w) ==
  /\ pc[w] = "report"
  /\ Store(w, verdict[w])
  /\ IF verdict[w] = "observed" THEN Continue(w) ELSE Ends(w, "no")
  /\ UNCHANGED <<envelope, used, saves, deaths>>

(* The run's LiveRunRepository.create needs the row. *)
Use(w) ==
  /\ pc[w] = "use"
  /\ used' = (used \/ row # Missing)
  /\ Ends(w, "no")
  /\ UNCHANGED <<envelope, row, saves, deaths, judged>>

-----------------------------------------------------------------------------
(* delete. *)
StartDelete(w) ==
  /\ row # Missing
  /\ Begins(w, "delete", "unlink")
  /\ UNCHANGED shared
Unlink(w) ==
  /\ pc[w] = "unlink"
  /\ envelope' = Missing
  /\ Goto(w, "drop")
  /\ UNCHANGED <<row, used, saves, deaths, command, reading, mine, verdict, ghosts>>
(* Mutant of DropRow: foreign keys are not enforced. *)
DropRowForced(w) ==
  /\ pc[w] = "drop"
  /\ row' = Missing
  /\ Ends(w, "deleted")
  /\ UNCHANGED <<envelope, used, saves, deaths, judged>>
(* The row goes, unless a live run refers to it: then the command raises and
   the row stays, without its envelope. *)
DropRow(w) ==
  /\ pc[w] = "drop"
  /\ IF used /\ row # Missing THEN UNCHANGED row /\ Ends(w, "no")
     ELSE row' = Missing /\ Ends(w, "deleted")
  /\ UNCHANGED <<envelope, used, saves, deaths, judged>>

(* An interrupt or a death. *)
Die(w) ==
  /\ pc[w] # "idle" /\ deaths < MaxDeaths
  /\ deaths' = deaths + 1
  /\ Ends(w, "no")
  /\ UNCHANGED <<envelope, row, used, saves, judged>>

SessionStep(w) ==
  \/ StartRead(w) \/ StartSave(w) \/ WriteEnvelope(w) \/ Upsert(w)
  \/ ReadFile(w) \/ ReadRow(w) \/ ReadFails(w) \/ SetInvalid(w)
  \/ Probe(w) \/ Report(w) \/ Use(w)
  \/ StartDelete(w) \/ Unlink(w) \/ DropRow(w)

-----------------------------------------------------------------------------
(* Every variable keeps its type, and a live run never loses its profile's
   row. *)
SessionTypeOK ==
  /\ envelope \in Saves \cup {Missing} /\ used \in BOOLEAN
  /\ row \in [hash : Saves, health : Healths] \cup {Missing}
  /\ saves \in 0..MaxSaves /\ deaths \in 0..MaxDeaths
  /\ \A w \in Workers :
       /\ command[w] \in DOMAIN Readings
       /\ mine[w] \in 1..saves \cup {Missing} /\ verdict[w] \in Healths
  /\ alone \in Workers \cup {Nobody} /\ settled \in {"no", "saved", "deleted"}
  /\ judged \in 1..saves \cup {Missing}
  /\ used => row # Missing

(* A save that no other command overlapped leaves the envelope the row
   attests, and any health stored since is about that envelope; a delete that
   reported success alone leaves neither file nor row.  Earlier deaths and
   overlaps, and later reads, do not change this. *)
SettledAgree ==
  /\ settled = "saved" =>
       row # Missing /\ envelope = row.hash /\ judged = row.hash
  /\ settled = "deleted" => envelope = Missing /\ row = Missing
=============================================================================
