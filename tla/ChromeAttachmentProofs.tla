------------------------ MODULE ChromeAttachmentProofs ------------------------
(***************************************************************************)
(* Proofs about SessionProfiles and ChromeAttachment for every set of      *)
(* processes and any bounds: what an undisturbed save or delete leaves,    *)
(* and that every launched Chrome is the one its marker names.             *)
(***************************************************************************)
EXTENDS ChromeAttachment, TLAPS

(***************************************************************************)
(* The inductive invariant of the profile.                                 *)
(***************************************************************************)

Commands == {"save", "inspect", "health", "delete", "run"}
Writing == {"write", "upsert", "unlink", "drop"}
SessionPcs == Writing \cup {"file", "row", "invalid", "probe", "report", "use"}
Pcs == {"idle", "collected"} \cup SessionPcs \cup ChromePcs

(* The memory of the processes has its types too. *)
SessionTyped ==
  /\ SessionTypeOK
  /\ pc \in [Workers -> Pcs] /\ command \in [Workers -> Commands]
  /\ reading \in [Workers -> Int] /\ verdict \in [Workers -> Healths]
  /\ mine \in [Workers -> 1..saves \cup {Missing}]
  /\ envelope \in 1..saves \cup {Missing} /\ (row # Missing => row.hash \in 1..saves)

(* A save or a delete writes; nothing else does. *)
Commanded(w) ==
  /\ pc[w] \notin SessionPcs => command[w] = "inspect"
  /\ pc[w] = "upsert" => mine[w] # Missing
  /\ pc[w] \in {"write", "upsert"} => command[w] = "save"
  /\ pc[w] \in {"unlink", "drop"} => command[w] = "delete"
  /\ command[w] = "delete" => pc[w] \in {"unlink", "drop"}
  /\ command[w] = "save" => reading[w] = 1

(* The row is that of the envelope, and its health was judged from it. *)
Intact == row # Missing /\ envelope = row.hash /\ judged = row.hash

(* What a save or a delete has done so far if no command has overlapped it. *)
Undisturbed(w) ==
  /\ settled = "no" /\ \A q \in Workers : q # w => pc[q] = "idle"
  /\ \/ pc[w] = "write" /\ command[w] = "save"
     \/ pc[w] = "upsert" /\ command[w] = "save" /\ mine[w] = envelope
     \/ pc[w] = "file" /\ command[w] = "save" /\ Intact
     \/ pc[w] = "row" /\ command[w] = "save" /\ Intact /\ mine[w] = envelope
     \/ pc[w] = "unlink" /\ command[w] = "delete"
     \/ pc[w] = "drop" /\ command[w] = "delete" /\ envelope = Missing

(* Once it has finished nobody writes, and whoever reads finds what it left. *)
Reads(w) ==
  /\ pc[w] \notin Writing /\ command[w] \notin {"save", "delete"}
  /\ settled = "saved" =>
       /\ pc[w] # "invalid"
       /\ pc[w] \in {"row", "probe", "report"} => mine[w] = envelope
Settled ==
  /\ settled = "saved" => Intact
  /\ settled = "deleted" => envelope = Missing /\ row = Missing
  /\ settled # "no" => \A w \in Workers : Reads(w)

SessionInv ==
  /\ SessionTyped /\ Settled
  /\ \A w \in Workers : Commanded(w) /\ (alone = w => Undisturbed(w))

(***************************************************************************)
(* The inductive invariant of Chrome.                                      *)
(***************************************************************************)

ChromeTyped ==
  /\ chromes \subseteq 1..launched /\ launched \in 0..MaxChromes
  /\ marker \in 0..launched /\ endpoint \in 0..launched /\ lost \in BOOLEAN
  /\ target \in [Workers -> 0..launched]
  /\ then \in [Workers -> {"idle", "spawn", "collected"}]
  /\ pc \in [Workers -> Pcs]

(* The one process at work on Chrome knows what runs. *)
Knows(w) ==
  /\ pc[w] = "release" => target[w] = marker
  /\ pc[w] \in {"unmark", "clear", "spawn", "undo"} => chromes = {}
  /\ pc[w] = "mark" => chromes \subseteq {target[w]}
  /\ pc[w] = "wait" => marker = target[w]
  /\ pc[w] # "mark" => chromes \subseteq {marker}
Accounted ==
  \/ lost
  \/ /\ \A w, q \in Workers : pc[w] \in ChromePcs /\ pc[q] \in ChromePcs => w = q
     /\ \A w \in Workers : pc[w] \in ChromePcs => Knows(w)
     /\ ChromeIdle = Workers => chromes \subseteq {marker}

ChromeInv == ChromeTyped /\ Accounted

(***************************************************************************)
(* What the ends of several commands have in common.                       *)
(***************************************************************************)

(* A step of one process leaves the memory of the others. *)
Moves(w) ==
  /\ pc' \in [Workers -> Pcs] /\ command' \in [Workers -> Commands]
  /\ reading' \in [Workers -> Int] /\ verdict' \in [Workers -> Healths]
  /\ mine' \in [Workers -> 1..saves \cup {Missing}]
  /\ \A q \in Workers : q # w =>
       /\ pc'[q] = pc[q] /\ command'[q] = command[q]
       /\ reading'[q] = reading[q] /\ mine'[q] = mine[q]

(* A command that ends keeps no capture in hand. *)
LEMMA EndsFacts ==
  ASSUME SessionInv, NEW w \in Workers, NEW promise, Ends(w, promise)
  PROVE  /\ Moves(w) /\ pc'[w] = "idle" /\ command'[w] = "inspect"
         /\ alone' = IF alone = w THEN Nobody ELSE alone
         /\ settled' = IF alone = w /\ promise # "no" THEN promise ELSE settled
BY DEF SessionInv, SessionTyped, Moves, Ends, Goto, Commands, Pcs, Healths

(* A command that has read goes on: a save is over, a delete reads nothing. *)
LEMMA ContinueFacts ==
  ASSUME SessionInv, NEW w \in Workers, pc[w] \in {"row", "invalid", "report"}, Continue(w)
  PROVE  /\ Moves(w)
         /\ \/ /\ pc'[w] \in {"file", "use"} /\ command'[w] = command[w]
               /\ command[w] \notin {"save", "delete"} /\ UNCHANGED <<alone, settled>>
            \/ /\ pc'[w] = "idle" /\ command'[w] = "inspect"
               /\ alone' = IF alone = w THEN Nobody ELSE alone
               /\ settled' = IF alone = w /\ command[w] = "save" THEN "saved" ELSE settled
<1>1. command[w] # "delete" /\ (command[w] = "save" => reading[w] = 1)
  BY DEF SessionInv, Commanded
<1>2. CASE reading[w] < Len(Readings[command[w]])
  <2>1. command[w] # "save"
    <3> SUFFICES ASSUME command[w] = "save" PROVE FALSE
      OBVIOUS
    <3>1. Readings[command[w]] = <<"inspect">>
      BY DEF Readings
    <3>2. Len(Readings[command[w]]) = 1
      BY <3>1
    <3> QED
      BY <1>1, <1>2, <3>2
  <2>2. /\ pc' = [pc EXCEPT ![w] = "file"] /\ reading' = [reading EXCEPT ![w] = @ + 1]
        /\ UNCHANGED <<command, mine, verdict, alone, settled>>
    BY <1>2 DEF Continue, Goto
  <2> QED
    BY <1>1, <2>1, <2>2 DEF SessionInv, SessionTyped, Moves, Pcs, SessionPcs
<1>3. CASE ~(reading[w] < Len(Readings[command[w]])) /\ command[w] = "run"
  <2>1. /\ pc' = [pc EXCEPT ![w] = "use"]
        /\ UNCHANGED <<command, reading, mine, verdict, alone, settled>>
    BY <1>3 DEF Continue, Goto
  <2> QED
    BY <1>3, <2>1 DEF SessionInv, SessionTyped, Moves, Pcs, SessionPcs
<1>4. CASE ~(reading[w] < Len(Readings[command[w]])) /\ command[w] # "run"
  BY <1>4, EndsFacts DEF Continue, Done
<1> QED
  BY <1>2, <1>3, <1>4

(* A process that nobody left alone ends a reading and settles nothing. *)
Goes(w) ==
  /\ Moves(w) /\ UNCHANGED <<alone, settled>>
  /\ \/ pc'[w] \in {"file", "use", "report"} /\ command'[w] = command[w]
        /\ command[w] \notin {"save", "delete"}
     \/ pc'[w] = "idle" /\ command'[w] = "inspect"

(* It may store a health, of the row there is now and of what it has read. *)
LEMMA StoreFacts ==
  ASSUME SessionInv, NEW w \in Workers, NEW health \in Healths, Store(w, health)
  PROVE  /\ row' \in [hash : Saves, health : Healths] \cup {Missing}
         /\ row' = Missing <=> row = Missing
         /\ row # Missing => row'.hash = row.hash
         /\ judged' = judged \/ (judged' = mine[w] /\ row # Missing)
         /\ judged' \in 1..saves \cup {Missing}
<1>1. /\ row \in [hash : Saves, health : Healths] \cup {Missing}
      /\ judged \in 1..saves \cup {Missing} /\ mine[w] \in 1..saves \cup {Missing}
  BY DEF SessionInv, SessionTyped, SessionTypeOK
<1>2. CASE row = Missing
  BY <1>1, <1>2 DEF Store
<1>3. CASE row # Missing
  <2>1. row' = [row EXCEPT !.health = health] /\ judged' = mine[w]
    BY <1>3 DEF Store
  <2>2. row' \in [hash : Saves, health : Healths] /\ row'.hash = row.hash
    BY <1>1, <1>3, <2>1
  <2> QED
    BY <1>1, <1>3, <2>1, <2>2, MissingAssumption
<1> QED
  BY <1>2, <1>3

(* StartRead: a reading overlaps a save, and is alone with what has settled. *)
LEMMA StartReadKeeps ==
  ASSUME SessionInv, NEW w \in Workers, StartRead(w)
  PROVE  SessionInv'
<1>1. SessionTyped'
  BY DEF SessionInv, SessionTyped, SessionTypeOK, Readings, Commands, Pcs, SessionPcs,
     StartRead, Goto, shared, Begins
<1>2. ASSUME NEW q \in Workers PROVE Commanded(q)'
  BY DEF SessionInv, SessionTyped, Commanded, SessionPcs, StartRead, Goto, Begins
<1>3. ASSUME NEW q \in Workers, alone' = q PROVE Undisturbed(q)'
  BY <1>3, SessionAssumption DEF SessionInv, SessionTyped, Undisturbed, StartRead, Goto, Begins
<1>4. Settled'
  BY DEF SessionInv, SessionTyped, Undisturbed, Settled, Reads, Intact, Writing, StartRead,
     Goto, shared, Begins
<1> QED
  BY <1>1, <1>2, <1>3, <1>4 DEF SessionInv

(* StartSave: a save may be alone, and unsettles what an earlier one left. *)
LEMMA StartSaveKeeps ==
  ASSUME SessionInv, NEW w \in Workers, StartSave(w)
  PROVE  SessionInv'
<1>1. SessionTyped'
  BY DEF SessionInv, SessionTyped, SessionTypeOK, Readings, Commands, Pcs, SessionPcs, Writing,
     StartSave, Goto, shared, Begins
<1>2. ASSUME NEW q \in Workers PROVE Commanded(q)'
  BY DEF SessionInv, SessionTyped, Commanded, SessionPcs, Writing, StartSave, Goto, Begins
<1>3. ASSUME NEW q \in Workers, alone' = q PROVE Undisturbed(q)'
  BY <1>3, SessionAssumption DEF SessionInv, SessionTyped, Undisturbed, Idle, StartSave, Goto,
     Begins
<1>4. Settled'
  BY DEF SessionInv, SessionTyped, Undisturbed, Settled, StartSave, Goto, Begins
<1> QED
  BY <1>1, <1>2, <1>3, <1>4 DEF SessionInv

(* WriteEnvelope: the new envelope is the one the save has in hand. *)
LEMMA WriteEnvelopeKeeps ==
  ASSUME SessionInv, NEW w \in Workers, WriteEnvelope(w)
  PROVE  SessionInv'
<1>1. SessionTyped'
  BY SessionAssumption DEF SessionInv, SessionTyped, SessionTypeOK, Saves, Pcs, SessionPcs,
     Writing, WriteEnvelope, Goto, ghosts
<1>2. ASSUME NEW q \in Workers PROVE Commanded(q)'
  BY MissingAssumption, SessionAssumption DEF Writing, SessionInv, SessionTyped, SessionTypeOK,
     Commanded, Saves, SessionPcs, WriteEnvelope, Goto
<1>3. ASSUME NEW q \in Workers, alone' = q PROVE Undisturbed(q)'
  BY <1>3 DEF SessionInv, SessionTyped, Undisturbed, WriteEnvelope, Goto, ghosts
<1>4. Settled'
  BY DEF SessionInv, SessionTyped, Undisturbed, Settled, Reads, Writing, WriteEnvelope, Goto,
     ghosts
<1> QED
  BY <1>1, <1>2, <1>3, <1>4 DEF SessionInv

(* Upsert: the row becomes that of the envelope the save has written. *)
LEMMA UpsertKeeps ==
  ASSUME SessionInv, NEW w \in Workers, Upsert(w)
  PROVE  SessionInv'
<1>1. SessionTyped'
  BY MissingAssumption, SessionAssumption DEF SessionInv, SessionTyped, SessionTypeOK,
     Commanded, Saves, Healths, Pcs, SessionPcs, Upsert, Goto, Upserted
<1>2. ASSUME NEW q \in Workers PROVE Commanded(q)'
  BY DEF SessionInv, SessionTyped, Commanded, SessionPcs, Upsert, Goto
<1>3. ASSUME NEW q \in Workers, alone' = q PROVE Undisturbed(q)'
  <2>1. /\ pc[w] = "upsert" /\ mine[w] \in Saves /\ row' = [hash |-> mine[w], health |-> "observed"]
        /\ judged' = mine[w] /\ pc' = [pc EXCEPT ![w] = "file"]
        /\ UNCHANGED <<alone, settled, command, envelope>>
    BY SessionAssumption DEF SessionInv, SessionTyped, SessionTypeOK, Commanded, Saves, Upsert,
       Upserted, Goto
  <2>2. row' # Missing /\ row'.hash = mine[w]
    BY <2>1, MissingAssumption DEF Healths
  <2>3. Undisturbed(q) /\ q = w
    BY <1>3, <2>1 DEF SessionInv, Undisturbed
  <2> QED
    BY <2>1, <2>2, <2>3 DEF SessionInv, SessionTyped, Undisturbed, Intact
<1>4. Settled'
  BY DEF SessionInv, SessionTyped, Undisturbed, Settled, Reads, Writing, Upsert, Goto
<1> QED
  BY <1>1, <1>2, <1>3, <1>4 DEF SessionInv

(* ReadFile: a save that is alone reads its own envelope. *)
LEMMA ReadFileKeeps ==
  ASSUME SessionInv, NEW w \in Workers, ReadFile(w)
  PROVE  SessionInv'
<1>1. SessionTyped'
  BY DEF SessionInv, SessionTyped, SessionTypeOK, Pcs, SessionPcs, ReadFile, Goto, shared,
     ghosts
<1>2. ASSUME NEW q \in Workers PROVE Commanded(q)'
  BY DEF SessionInv, SessionTyped, Commanded, SessionPcs, ReadFile, Goto
<1>3. ASSUME NEW q \in Workers, alone' = q PROVE Undisturbed(q)'
  BY <1>3 DEF SessionInv, SessionTyped, Undisturbed, Intact, ReadFile, Goto, shared, ghosts
<1>4. Settled'
  BY DEF SessionInv, SessionTyped, Undisturbed, Settled, Reads, Intact, Writing, ReadFile,
     Goto, shared, ghosts
<1> QED
  BY <1>1, <1>2, <1>3, <1>4 DEF SessionInv

(* ReadRow: the row attests it, so such a save ends as promised. *)
LEMMA ReadRowKeeps ==
  ASSUME SessionInv, NEW w \in Workers, ReadRow(w)
  PROVE  SessionInv'
<1>0. /\ pc[w] = "row" /\ row # Missing /\ row.hash = mine[w] /\ UNCHANGED <<shared, judged>>
      /\ Moves(w)
      /\ \/ /\ pc'[w] \in {"file", "use", "probe"} /\ command'[w] = command[w]
            /\ UNCHANGED <<alone, settled>>
            /\ command[w] \notin {"save", "delete"}
            /\ pc'[w] = "probe" => mine'[w] = mine[w]
         \/ /\ pc'[w] = "idle" /\ command'[w] = "inspect"
            /\ alone' = IF alone = w THEN Nobody ELSE alone
            /\ settled' = IF alone = w /\ command[w] = "save" THEN "saved" ELSE settled
  <2>1. /\ pc[w] = "row" /\ row # Missing /\ row.hash = mine[w] /\ UNCHANGED <<shared, judged>>
    BY DEF ReadRow, Attested
  <2>2. CASE Reading(w) = "probe"
    <3>1. command[w] # "delete" /\ (command[w] = "save" => reading[w] = 1)
      BY <2>1 DEF SessionInv, Commanded
    <3>2. command[w] # "save"
      BY <2>2, <3>1 DEF Reading, Readings
    <3>3. pc' = [pc EXCEPT ![w] = "probe"]
          /\ UNCHANGED <<command, reading, mine, verdict, alone, settled>>
      BY <2>2 DEF ReadRow, Goto
    <3> QED
      BY <2>1, <3>1, <3>2, <3>3 DEF SessionInv, SessionTyped, Moves, Pcs, SessionPcs
  <2>3. CASE Reading(w) # "probe"
    BY <2>1, <2>3, ContinueFacts DEF ReadRow
  <2> QED
    BY <2>2, <2>3
<1>1. SessionTyped'
  BY <1>0 DEF SessionInv, SessionTyped, SessionTypeOK, Moves, shared, Readings
<1>2. ASSUME NEW q \in Workers PROVE Commanded(q)'
  BY <1>0 DEF SessionInv, Commanded, Moves, SessionPcs, Writing
<1>3. ASSUME NEW q \in Workers, alone' = q PROVE Undisturbed(q)'
  BY <1>0, <1>3, SessionAssumption DEF SessionInv, Undisturbed
<1>4. Settled'
  <2>1. CASE alone = w /\ command[w] = "save" /\ pc'[w] = "idle"
    BY <1>0, <2>1 DEF SessionInv, Undisturbed, Settled, Reads, Commanded, Moves, Intact,
       shared, Writing, SessionPcs
  <2>2. CASE settled' = settled
    BY <1>0, <2>2 DEF SessionInv, Settled, Reads, Moves, Intact, shared, Writing
  <2> QED
    BY <1>0, <2>1, <2>2
<1> QED
  BY <1>1, <1>2, <1>3, <1>4 DEF SessionInv

(* ReadFails: nobody finds the row of a settled save without its envelope. *)
LEMMA ReadFailsKeeps ==
  ASSUME SessionInv, NEW w \in Workers, ReadFails(w)
  PROVE  SessionInv'
<1>1. SessionTyped'
  BY DEF SessionInv, SessionTyped, SessionTypeOK, Pcs, SessionPcs, ReadFails, Goto, shared,
     ghosts
<1>2. ASSUME NEW q \in Workers PROVE Commanded(q)'
  BY DEF SessionInv, SessionTyped, Commanded, SessionPcs, ReadFails, Goto
<1>3. ASSUME NEW q \in Workers, alone' = q PROVE Undisturbed(q)'
  BY <1>3 DEF SessionInv, SessionTyped, Undisturbed, Intact, ReadFails, Goto, ghosts, Attested
<1>4. Settled'
  BY DEF SessionInv, SessionTyped, Undisturbed, Settled, Reads, Intact, Writing, ReadFails,
     Goto, shared, ghosts, Attested
<1> QED
  BY <1>1, <1>2, <1>3, <1>4 DEF SessionInv

(* SetInvalid: so only a disturbed profile is found to be invalid. *)
LEMMA SetInvalidKeeps ==
  ASSUME SessionInv, NEW w \in Workers, SetInvalid(w)
  PROVE  SessionInv'
<1>0. /\ pc[w] = "invalid" /\ alone # w /\ UNCHANGED <<envelope, used, saves, deaths>>
  BY DEF SessionInv, Undisturbed, SetInvalid
<1>a. /\ row' \in [hash : Saves, health : Healths] \cup {Missing}
      /\ row' = Missing <=> row = Missing
      /\ row # Missing => row'.hash = row.hash
      /\ judged' = judged \/ (judged' = mine[w] /\ row # Missing)
      /\ judged' \in 1..saves \cup {Missing}
  BY StoreFacts DEF SessionInv, SessionTyped, Healths, SetInvalid
<1>b. Goes(w)
  <2>1. CASE Reading(w) = "probe"
    <3>1. command[w] # "delete" /\ (command[w] = "save" => reading[w] = 1)
      BY <1>0 DEF SessionInv, Commanded
    <3>2. command[w] # "save"
      BY <2>1, <3>1 DEF Reading, Readings
    <3>3. /\ pc' = [pc EXCEPT ![w] = "report"] /\ verdict' = [verdict EXCEPT ![w] = "session_invalid"]
          /\ UNCHANGED <<command, reading, mine, alone, settled>>
      BY <2>1 DEF SetInvalid, Goto
    <3> QED
      BY <3>1, <3>2, <3>3 DEF SessionInv, SessionTyped, Goes, Moves, Pcs, SessionPcs, Healths
  <2>2. CASE Reading(w) # "probe" /\ Continue(w)
    BY <1>0, <2>2, ContinueFacts DEF Goes
  <2>3. CASE Ends(w, "no")
    BY <1>0, <2>3, EndsFacts DEF Goes
  <2> QED
    BY <2>1, <2>2, <2>3 DEF SetInvalid
<1>1. SessionTyped'
  BY <1>0, <1>a, <1>b DEF SessionInv, SessionTyped, SessionTypeOK, Goes, Moves, Readings
<1>2. ASSUME NEW q \in Workers PROVE Commanded(q)'
  BY <1>b, <1>0 DEF SessionInv, Commanded, Goes, Moves, SessionPcs
<1>3. ASSUME NEW q \in Workers, alone' = q PROVE Undisturbed(q)'
  BY <1>0, <1>b, <1>3 DEF SessionInv, Undisturbed, Goes
<1>4. Settled'
  BY <1>0, <1>a, <1>b DEF SessionInv, Settled, Reads, Goes, Moves, Writing
<1> QED
  BY <1>1, <1>2, <1>3, <1>4 DEF SessionInv

(* Probe: asking the site changes nothing that is stored. *)
LEMMA ProbeKeeps ==
  ASSUME SessionInv, NEW w \in Workers, Probe(w)
  PROVE  SessionInv'
<1>1. SessionTyped'
  BY DEF SessionInv, SessionTyped, SessionTypeOK, Pcs, SessionPcs, Probe, Goto, shared, ghosts
<1>2. ASSUME NEW q \in Workers PROVE Commanded(q)'
  BY DEF SessionInv, SessionTyped, Commanded, SessionPcs, Probe, Goto
<1>3. ASSUME NEW q \in Workers, alone' = q PROVE Undisturbed(q)'
  BY <1>3 DEF SessionInv, SessionTyped, Undisturbed, Probe, Goto, ghosts
<1>4. Settled'
  BY DEF SessionInv, SessionTyped, Undisturbed, Settled, Reads, Intact, Writing, Probe, Goto,
     shared, ghosts
<1> QED
  BY <1>1, <1>2, <1>3, <1>4 DEF SessionInv

(* Report: the health it stores is about the envelope it has read. *)
LEMMA ReportKeeps ==
  ASSUME SessionInv, NEW w \in Workers, Report(w)
  PROVE  SessionInv'
<1>0. /\ pc[w] = "report" /\ alone # w /\ UNCHANGED <<envelope, used, saves, deaths>>
  BY DEF SessionInv, Undisturbed, Report
<1>a. /\ row' \in [hash : Saves, health : Healths] \cup {Missing}
      /\ row' = Missing <=> row = Missing
      /\ row # Missing => row'.hash = row.hash
      /\ judged' = judged \/ (judged' = mine[w] /\ row # Missing)
      /\ judged' \in 1..saves \cup {Missing}
  BY StoreFacts DEF SessionInv, SessionTyped, Healths, Report
<1>b. Goes(w) /\ pc'[w] # "report"
  BY <1>0, ContinueFacts, EndsFacts DEF Report, Goes
<1>1. SessionTyped'
  BY <1>0, <1>a, <1>b DEF SessionInv, SessionTyped, SessionTypeOK, Goes, Moves, Readings
<1>2. ASSUME NEW q \in Workers PROVE Commanded(q)'
  BY <1>b, <1>0 DEF SessionInv, Commanded, Goes, Moves, SessionPcs
<1>3. ASSUME NEW q \in Workers, alone' = q PROVE Undisturbed(q)'
  BY <1>0, <1>b, <1>3 DEF SessionInv, Undisturbed, Goes
<1>4. Settled'
  <2>1. settled = "saved" => Intact'
    BY <1>0, <1>a DEF SessionInv, Settled, Reads, Intact
  <2>2. settled = "deleted" => row' = Missing /\ envelope' = Missing
    BY <1>0, <1>a DEF SessionInv, Settled
  <2>3. settled # "no" => \A q \in Workers : Reads(q)'
    BY <1>0, <1>b DEF SessionInv, Settled, Reads, Goes, Moves, Writing
  <2> QED
    BY <1>b, <2>1, <2>2, <2>3 DEF Settled, Goes
<1> QED
  BY <1>1, <1>2, <1>3, <1>4 DEF SessionInv

(* Use: a run refers to a row that is there. *)
LEMMA UseKeeps ==
  ASSUME SessionInv, NEW w \in Workers, Use(w)
  PROVE  SessionInv'
<1>1. SessionTyped'
  BY DEF SessionInv, SessionTyped, SessionTypeOK, Healths, Readings, Commands, Pcs, Use, Goto,
     Ends
<1>2. ASSUME NEW q \in Workers PROVE Commanded(q)'
  BY DEF SessionInv, SessionTyped, Commanded, Use, Goto, Ends
<1>3. ASSUME NEW q \in Workers, alone' = q PROVE Undisturbed(q)'
  BY <1>3 DEF SessionInv, SessionTyped, Undisturbed, Use, Goto, Ends
<1>4. Settled'
  BY DEF SessionInv, SessionTyped, Undisturbed, Settled, Reads, Intact, Writing, Use, Goto, Ends
<1> QED
  BY <1>1, <1>2, <1>3, <1>4 DEF SessionInv

(* StartDelete: a delete may be alone, and unsettles what a save left. *)
LEMMA StartDeleteKeeps ==
  ASSUME SessionInv, NEW w \in Workers, StartDelete(w)
  PROVE  SessionInv'
<1>1. SessionTyped'
  BY DEF SessionInv, SessionTyped, SessionTypeOK, Readings, Commands, Pcs, SessionPcs, Writing,
     StartDelete, Goto, shared, Begins
<1>2. ASSUME NEW q \in Workers PROVE Commanded(q)'
  BY DEF SessionInv, SessionTyped, Commanded, SessionPcs, Writing, StartDelete, Goto, Begins
<1>3. ASSUME NEW q \in Workers, alone' = q PROVE Undisturbed(q)'
  BY <1>3, SessionAssumption DEF SessionInv, SessionTyped, Undisturbed, Idle, StartDelete,
     Goto, Begins
<1>4. Settled'
  BY DEF SessionInv, SessionTyped, Undisturbed, Settled, StartDelete, Goto, Begins
<1> QED
  BY <1>1, <1>2, <1>3, <1>4 DEF SessionInv

(* Unlink: a delete that is alone has removed the envelope. *)
LEMMA UnlinkKeeps ==
  ASSUME SessionInv, NEW w \in Workers, Unlink(w)
  PROVE  SessionInv'
<1>1. SessionTyped'
  BY DEF SessionInv, SessionTyped, SessionTypeOK, Pcs, SessionPcs, Writing, Unlink, Goto, ghosts
<1>2. ASSUME NEW q \in Workers PROVE Commanded(q)'
  BY DEF SessionInv, SessionTyped, Commanded, SessionPcs, Writing, Unlink, Goto
<1>3. ASSUME NEW q \in Workers, alone' = q PROVE Undisturbed(q)'
  BY <1>3 DEF SessionInv, SessionTyped, Undisturbed, Unlink, Goto, ghosts
<1>4. Settled'
  BY DEF SessionInv, SessionTyped, Undisturbed, Settled, Reads, Writing, Unlink, Goto, ghosts
<1> QED
  BY <1>1, <1>2, <1>3, <1>4 DEF SessionInv

(* DropRow: the row follows, unless a run refers to it. *)
LEMMA DropRowKeeps ==
  ASSUME SessionInv, NEW w \in Workers, DropRow(w)
  PROVE  SessionInv'
<1>1. SessionTyped'
  BY DEF SessionInv, SessionTyped, SessionTypeOK, Healths, Readings, Commands, Pcs, DropRow,
     Goto, Ends
<1>2. ASSUME NEW q \in Workers PROVE Commanded(q)'
  BY DEF SessionInv, SessionTyped, Commanded, DropRow, Goto, Ends
<1>3. ASSUME NEW q \in Workers, alone' = q PROVE Undisturbed(q)'
  BY <1>3, SessionAssumption DEF SessionInv, SessionTyped, Undisturbed, DropRow, Goto, Ends
<1>4. Settled'
  BY DEF SessionInv, SessionTyped, Commanded, Undisturbed, Settled, Reads, Writing, SessionPcs,
     DropRow, Goto, Ends
<1> QED
  BY <1>1, <1>2, <1>3, <1>4 DEF SessionInv

(* Die: a command that ends early has settled nothing. *)
LEMMA DieKeeps ==
  ASSUME SessionInv, NEW w \in Workers, Die(w)
  PROVE  SessionInv'
<1>1. SessionTyped'
  BY SessionAssumption DEF SessionInv, SessionTyped, SessionTypeOK, Healths, Readings,
     Commands, Pcs, Die, Goto, Ends
<1>2. ASSUME NEW q \in Workers PROVE Commanded(q)'
  BY DEF SessionInv, SessionTyped, Commanded, Die, Goto, Ends
<1>3. ASSUME NEW q \in Workers, alone' = q PROVE Undisturbed(q)'
  BY <1>3, SessionAssumption DEF SessionInv, SessionTyped, Undisturbed, Die, Goto, Ends
<1>4. Settled'
  BY DEF SessionInv, SessionTyped, Undisturbed, Settled, Reads, Intact, Writing, Die, Goto, Ends
<1> QED
  BY <1>1, <1>2, <1>3, <1>4 DEF SessionInv

(***************************************************************************)
(* Chrome commands leave the profile alone, until one saves what it took.  *)
(***************************************************************************)

(* A command moves among the steps that have to do with Chrome. *)
Aside(w) ==
  /\ UNCHANGED <<shared, command, reading, mine, verdict, settled, judged>>
  /\ alone' \in {alone, Nobody}
  /\ pc[w] \in ChromePcs \cup {"idle", "collected"}
  /\ \E label \in ChromePcs \cup {"idle", "collected"} : pc' = [pc EXCEPT ![w] = label]
  /\ pc[w] = "idle" => alone' = Nobody

(* So it keeps what is known of the profile. *)
LEMMA AsideKeeps ==
  ASSUME SessionInv, NEW w \in Workers, Aside(w)
  PROVE  SessionInv'
<1>0. /\ UNCHANGED <<envelope, row, used, saves, deaths, command, reading, mine, verdict,
                     settled, judged>>
  BY DEF Aside, shared
<1>1. SessionTyped'
  BY <1>0 DEF SessionInv, SessionTyped, SessionTypeOK, Aside, Pcs
<1>2. ASSUME NEW q \in Workers PROVE Commanded(q)'
  BY <1>0 DEF SessionInv, SessionTyped, Commanded, Aside, ChromePcs, SessionPcs, Writing
<1>3. ASSUME NEW q \in Workers, alone' = q PROVE Undisturbed(q)'
  <2>1. alone = q /\ pc[w] # "idle"
    BY <1>3, SessionAssumption DEF Aside
  <2>2. Undisturbed(q) /\ pc[w] \notin {"write", "upsert", "file", "row", "unlink", "drop"}
    BY <2>1 DEF SessionInv, Aside, ChromePcs
  <2> QED
    BY <2>1, <2>2 DEF Undisturbed
<1>4. Settled'
  BY <1>0 DEF SessionInv, SessionTyped, Settled, Reads, Intact, Aside, ChromePcs, Writing
<1> QED
  BY <1>1, <1>2, <1>3, <1>4 DEF SessionInv

(* The state that was taken is saved as any other. *)
LEMMA SaveCollectedKeeps ==
  ASSUME SessionInv, NEW w \in Workers, SaveCollected(w)
  PROVE  SessionInv'
<1>0. /\ UNCHANGED <<envelope, row, used, saves, deaths, mine, verdict, judged>>
      /\ pc[w] = "collected" /\ pc' = [pc EXCEPT ![w] = "write"]
      /\ command' = [command EXCEPT ![w] = "save"] /\ reading' = [reading EXCEPT ![w] = 1]
      /\ alone' = IF Idle = Workers \ {w} THEN w ELSE Nobody
      /\ settled' = "no"
  BY DEF SaveCollected, shared, Goto
<1>1. SessionTyped'
  BY <1>0 DEF SessionInv, SessionTyped, SessionTypeOK, Pcs, SessionPcs, Writing, Commands,
     Readings
<1>2. ASSUME NEW q \in Workers PROVE Commanded(q)'
  BY <1>0 DEF SessionInv, SessionTyped, Commanded, SessionPcs, Writing
<1>3. ASSUME NEW q \in Workers, alone' = q PROVE Undisturbed(q)'
  BY <1>0, <1>3, SessionAssumption DEF SessionInv, SessionTyped, Undisturbed, Idle
<1>4. Settled'
  BY <1>0 DEF Settled
<1> QED
  BY <1>1, <1>2, <1>3, <1>4 DEF SessionInv

(* Nothing happens to a profile nobody touches. *)
LEMMA SessionStutters ==
  ASSUME SessionInv, UNCHANGED sessionVars
  PROVE  SessionInv'
BY DEF sessionVars, shared, local, ghosts, SessionInv, SessionTyped, SessionTypeOK, Commanded,
   Undisturbed, Settled, Reads, Intact

(* Every Chrome command is one of the above. *)
LEMMA ChromeLeavesProfile ==
  ASSUME SessionInv, NEW w \in Workers,
         \/ StartAttach(w) \/ Release(w) \/ Unmark(w) \/ ClearEndpoint(w) \/ Spawn(w) \/ Mark(w)
         \/ Attached(w) \/ AttachFails(w) \/ Undo(w) \/ StartFinalize(w) \/ Collect(w),
         ChromeTyped
  PROVE  Aside(w)
<1>1. CASE StartAttach(w) \/ StartFinalize(w)
  BY <1>1 DEF StartAttach, StartFinalize, Starts, Aside, Goto, ChromePcs
<1>2. CASE Release(w) \/ Unmark(w) \/ Undo(w)
  BY <1>2 DEF Release, Releases, Unmark, Undo, Elsewhere, Leaves, Goto, Aside, ghosts, ChromePcs
<1>3. CASE ClearEndpoint(w)
  BY <1>3 DEF ClearEndpoint, Elsewhere, Leaves, Goto, Aside, ghosts, ChromePcs, ChromeTyped
<1>4. CASE Spawn(w) \/ Mark(w) \/ Collect(w)
  BY <1>4 DEF Spawn, Mark, Collect, Elsewhere, Goto, Aside, ghosts, ChromePcs
<1>5. CASE Attached(w) \/ AttachFails(w)
  BY <1>5 DEF Attached, AttachFails, Elsewhere, Leaves, Goto, Aside, ghosts, ChromePcs
<1> QED
  BY <1>1, <1>2, <1>3, <1>4, <1>5

(***************************************************************************)
(* Profile commands leave Chrome alone.                                    *)
(***************************************************************************)

(* A profile command is at no Chrome step before or after. *)
LEMMA ProfileLeavesChrome ==
  ASSUME SessionInv, NEW w \in Workers, SessionStep(w)
  PROVE  /\ pc[w] \notin ChromePcs /\ pc'[w] \notin ChromePcs /\ pc' \in [Workers -> Pcs]
         /\ \A q \in Workers : q # w => pc'[q] = pc[q]
<1>1. CASE StartRead(w) \/ StartSave(w) \/ StartDelete(w)
  BY <1>1 DEF SessionInv, SessionTyped, StartRead, StartSave, StartDelete, Begins, Goto, Pcs,
     SessionPcs, Writing, ChromePcs
<1>2. CASE WriteEnvelope(w) \/ Upsert(w) \/ ReadFile(w) \/ ReadFails(w) \/ Probe(w) \/ Unlink(w)
  BY <1>2 DEF SessionInv, SessionTyped, WriteEnvelope, Upsert, ReadFile, ReadFails, Probe,
     Unlink, Goto, Pcs, SessionPcs, Writing, ChromePcs
<1>3. CASE ReadRow(w)
  <2>1. CASE Continue(w)
    BY <1>3, <2>1, ContinueFacts DEF ReadRow, Moves, ChromePcs
  <2>2. CASE Goto(w, "probe")
    BY <1>3, <2>2 DEF ReadRow, SessionInv, SessionTyped, Goto, Pcs, SessionPcs, ChromePcs
  <2> QED
    BY <1>3, <2>1, <2>2 DEF ReadRow
<1>4. CASE SetInvalid(w)
  <2>1. CASE Continue(w) \/ Ends(w, "no")
    BY <1>4, <2>1, ContinueFacts, EndsFacts DEF SetInvalid, Moves, ChromePcs
  <2>2. CASE Goto(w, "report")
    BY <1>4, <2>2 DEF SetInvalid, SessionInv, SessionTyped, Goto, Pcs, SessionPcs, ChromePcs
  <2> QED
    BY <1>4, <2>1, <2>2 DEF SetInvalid
<1>5. CASE Report(w) \/ Use(w) \/ DropRow(w)
  BY <1>5, ContinueFacts, EndsFacts DEF Report, Use, DropRow, Moves, ChromePcs
<1> QED
  BY <1>1, <1>2, <1>3, <1>4, <1>5 DEF SessionStep

(* So it keeps what is known of Chrome. *)
LEMMA ProfileKeepsChrome ==
  ASSUME ChromeInv, NEW w \in Workers, pc[w] \notin ChromePcs, pc'[w] \notin ChromePcs,
         pc' \in [Workers -> Pcs], \A q \in Workers : q # w => pc'[q] = pc[q],
         UNCHANGED chromeVars
  PROVE  ChromeInv'
<1>0. UNCHANGED <<chromes, launched, marker, endpoint, target, then, lost>>
  BY DEF chromeVars
<1>1. ChromeTyped'
  BY <1>0 DEF ChromeInv, ChromeTyped
<1>2. Accounted'
  <2>1. ASSUME NEW q \in Workers
        PROVE  /\ pc'[q] \in ChromePcs <=> pc[q] \in ChromePcs
               /\ pc[q] \in ChromePcs => pc'[q] = pc[q]
    BY <2>1
  <2>2. ChromeIdle' = ChromeIdle
    BY <2>1 DEF ChromeIdle
  <2> QED
    BY <1>0, <2>1, <2>2 DEF ChromeInv, Accounted, Knows
<1> QED
  BY <1>1, <1>2 DEF ChromeInv

(***************************************************************************)
(* Steps of Chrome and of its commands.                                    *)
(***************************************************************************)

(* The only Chrome command is alone to know what runs. *)
Only(w) == \A q \in Workers : q # w => pc[q] \notin ChromePcs

(* Whoever is at work on Chrome is the only one, unless Chrome may be lost. *)
LEMMA OnlyFacts ==
  ASSUME ChromeInv, ~lost, NEW w \in Workers, pc[w] \in ChromePcs
  PROVE  Only(w) /\ Knows(w)
BY DEF ChromeInv, Accounted, Only

(* It stays the only one, and needs to know what runs until it is done. *)
LEMMA OnlyKeeps ==
  ASSUME NEW w \in Workers, Only(w), \A q \in Workers : q # w => pc'[q] = pc[q],
         pc'[w] \in ChromePcs => Knows(w)',
         pc'[w] \notin ChromePcs => chromes' \subseteq {marker'}
  PROVE  Accounted'
<1>1. \A q \in Workers : q # w => pc'[q] \notin ChromePcs
  BY DEF Only
<1>2. ChromeIdle' = Workers => pc'[w] \notin ChromePcs
  BY DEF ChromeIdle
<1> QED
  BY <1>1, <1>2 DEF Accounted

(* StartAttach: a launch begins with what the marker names. *)
LEMMA StartAttachAccounts ==
  ASSUME ChromeInv, NEW w \in Workers, StartAttach(w)
  PROVE  ChromeInv'
<1>1. ChromeTyped'
  BY DEF ChromeInv, ChromeTyped, StartAttach, Starts, Goto, Pcs, ChromePcs
<1>2. ASSUME ~lost' PROVE Accounted'
  <2>1. ~lost /\ pc[w] = "idle" /\ \A q \in Workers : q # w => pc'[q] = pc[q]
    BY <1>2 DEF ChromeInv, ChromeTyped, StartAttach, Starts, Goto
  <2>2. Only(w) /\ chromes \subseteq {marker}
    BY <1>2, <2>1 DEF ChromeInv, Accounted, Only, ChromeIdle, StartAttach, Starts
  <2>3. /\ pc'[w] \in ChromePcs => Knows(w)'
        /\ pc'[w] \notin ChromePcs => chromes' \subseteq {marker'}
    BY <1>2, <2>1, <2>2 DEF ChromeInv, ChromeTyped, Knows, StartAttach, Starts, Goto
  <2> QED
    BY <2>1, <2>2, <2>3, OnlyKeeps
<1> QED
  BY <1>1, <1>2 DEF ChromeInv, Accounted

(* Release: what the marker names is stopped, or there is nothing to stop. *)
LEMMA ReleaseAccounts ==
  ASSUME ChromeInv, NEW w \in Workers, Release(w)
  PROVE  ChromeInv'
<1>1. ChromeTyped'
  <2>1. /\ UNCHANGED <<launched, marker, endpoint, lost>> /\ chromes' \subseteq chromes
        /\ target' \in {target, [target EXCEPT ![w] = 0]}
        /\ then' \in {then, [then EXCEPT ![w] = "idle"]}
        /\ \E label \in {"clear", "unmark", "idle"} : pc' = [pc EXCEPT ![w] = label]
    BY DEF Release, Releases, Stopped, Leaves, Goto
  <2> QED
    BY <2>1 DEF ChromeInv, ChromeTyped, Pcs, ChromePcs
<1>2. ASSUME ~lost' PROVE Accounted'
  <2>1. ~lost /\ pc[w] \in ChromePcs /\ \A q \in Workers : q # w => pc'[q] = pc[q]
    BY <1>2 DEF ChromeInv, ChromeTyped, Release, Releases, Leaves, Goto, ChromePcs
  <2>2. Only(w) /\ Knows(w)
    BY <2>1, OnlyFacts
  <2>3. /\ pc'[w] \in ChromePcs => Knows(w)'
        /\ pc'[w] \notin ChromePcs => chromes' \subseteq {marker'}
    <3>0. /\ marker' = marker /\ target[w] = marker /\ chromes \subseteq {marker}
          /\ chromes \subseteq 1..launched /\ launched \in Nat
          /\ pc \in [Workers -> Pcs]
      BY <2>2, ChromeAssumption DEF ChromeInv, ChromeTyped, Knows, Release
    <3>1. CASE target[w] = 0 /\ pc' = [pc EXCEPT ![w] = "clear"] /\ chromes' = chromes
      <4>1. chromes = {}
        BY <3>0, <3>1
      <4> QED
        BY <3>0, <3>1, <4>1 DEF Knows
    <3>2. CASE chromes' = chromes \ {target[w]} /\ pc' = [pc EXCEPT ![w] = "unmark"]
      BY <3>0, <3>2 DEF Knows
    <3>3. CASE pc' = [pc EXCEPT ![w] = "idle"] /\ chromes' = chromes
      BY <3>0, <3>3 DEF ChromePcs
    <3> QED
      BY <3>1, <3>2, <3>3 DEF Release, Releases, Stopped, Leaves, Goto
  <2> QED
    BY <2>1, <2>2, <2>3, OnlyKeeps
<1> QED
  BY <1>1, <1>2 DEF ChromeInv, Accounted

(* Unmark: the marker goes once nothing runs. *)
LEMMA UnmarkAccounts ==
  ASSUME ChromeInv, NEW w \in Workers, Unmark(w)
  PROVE  ChromeInv'
<1>1. ChromeTyped'
  BY DEF ChromeInv, ChromeTyped, Unmark, Goto, Pcs, ChromePcs
<1>2. ASSUME ~lost' PROVE Accounted'
  <2>1. ~lost /\ pc[w] \in ChromePcs /\ \A q \in Workers : q # w => pc'[q] = pc[q]
    BY <1>2 DEF ChromeInv, ChromeTyped, Unmark, Goto, ChromePcs
  <2>2. Only(w) /\ Knows(w)
    BY <2>1, OnlyFacts
  <2>3. /\ pc'[w] \in ChromePcs => Knows(w)'
        /\ pc'[w] \notin ChromePcs => chromes' \subseteq {marker'}
    BY <1>2, <2>1, <2>2 DEF ChromeInv, ChromeTyped, Knows, Unmark, Goto
  <2> QED
    BY <2>1, <2>2, <2>3, OnlyKeeps
<1> QED
  BY <1>1, <1>2 DEF ChromeInv, Accounted

(* ClearEndpoint: the endpoint goes, and a launch goes on with nothing running. *)
LEMMA ClearEndpointAccounts ==
  ASSUME ChromeInv, NEW w \in Workers, ClearEndpoint(w)
  PROVE  ChromeInv'
<1>1. ChromeTyped'
  BY DEF ChromeInv, ChromeTyped, ClearEndpoint, Leaves, Goto, Pcs, ChromePcs
<1>2. ASSUME ~lost' PROVE Accounted'
  <2>1. ~lost /\ pc[w] \in ChromePcs /\ \A q \in Workers : q # w => pc'[q] = pc[q]
    BY <1>2 DEF ChromeInv, ChromeTyped, ClearEndpoint, Leaves, Goto, ChromePcs
  <2>2. Only(w) /\ Knows(w)
    BY <2>1, OnlyFacts
  <2>3. /\ pc'[w] \in ChromePcs => Knows(w)'
        /\ pc'[w] \notin ChromePcs => chromes' \subseteq {marker'}
    BY <1>2, <2>1, <2>2 DEF ChromeInv, ChromeTyped, Knows, ClearEndpoint, Leaves, Goto
  <2> QED
    BY <2>1, <2>2, <2>3, OnlyKeeps
<1> QED
  BY <1>1, <1>2 DEF ChromeInv, Accounted

(* Spawn: a Chrome starts where none runs. *)
LEMMA SpawnAccounts ==
  ASSUME ChromeInv, NEW w \in Workers, Spawn(w)
  PROVE  ChromeInv'
<1>1. ChromeTyped'
  <2>1. /\ launched \in Nat /\ launched + 1 \in 0..MaxChromes
        /\ launched' = launched + 1 /\ target' = [target EXCEPT ![w] = launched + 1]
        /\ chromes' \in {chromes, {launched + 1}}
        /\ pc' = [pc EXCEPT ![w] = "mark"] /\ UNCHANGED <<marker, endpoint, then, lost>>
    BY ChromeAssumption DEF ChromeInv, ChromeTyped, Spawn, Goto
  <2>2. 0..launched \subseteq 0..launched' /\ 1..launched \subseteq 1..launched'
        /\ launched + 1 \in 1..launched' /\ launched + 1 \in 0..launched'
    BY <2>1
  <2>3. target' \in [Workers -> 0..launched']
    BY <2>1, <2>2 DEF ChromeInv, ChromeTyped
  <2>4. chromes' \subseteq 1..launched'
    BY <2>1, <2>2 DEF ChromeInv, ChromeTyped
  <2>5. marker' \in 0..launched' /\ endpoint' \in 0..launched'
    BY <2>1, <2>2 DEF ChromeInv, ChromeTyped
  <2> QED
    BY <2>1, <2>3, <2>4, <2>5 DEF ChromeInv, ChromeTyped, Pcs, ChromePcs
<1>2. ASSUME ~lost' PROVE Accounted'
  <2>1. ~lost /\ pc[w] \in ChromePcs /\ \A q \in Workers : q # w => pc'[q] = pc[q]
    BY <1>2 DEF ChromeInv, ChromeTyped, Spawn, Goto, ChromePcs
  <2>2. Only(w) /\ Knows(w)
    BY <2>1, OnlyFacts
  <2>3. /\ pc'[w] \in ChromePcs => Knows(w)'
        /\ pc'[w] \notin ChromePcs => chromes' \subseteq {marker'}
    BY <1>2, <2>1, <2>2 DEF ChromeInv, ChromeTyped, Knows, Spawn, Goto, ChromePcs
  <2> QED
    BY <2>1, <2>2, <2>3, OnlyKeeps
<1> QED
  BY <1>1, <1>2 DEF ChromeInv, Accounted

(* Mark: its marker is written. *)
LEMMA MarkAccounts ==
  ASSUME ChromeInv, NEW w \in Workers, Mark(w)
  PROVE  ChromeInv'
<1>1. ChromeTyped'
  BY DEF ChromeInv, ChromeTyped, Mark, Goto, Pcs, ChromePcs
<1>2. ASSUME ~lost' PROVE Accounted'
  <2>1. ~lost /\ pc[w] \in ChromePcs /\ \A q \in Workers : q # w => pc'[q] = pc[q]
    BY <1>2 DEF ChromeInv, ChromeTyped, Mark, Goto, ChromePcs
  <2>2. Only(w) /\ Knows(w)
    BY <2>1, OnlyFacts
  <2>3. /\ pc'[w] \in ChromePcs => Knows(w)'
        /\ pc'[w] \notin ChromePcs => chromes' \subseteq {marker'}
    BY <1>2, <2>1, <2>2 DEF ChromeInv, ChromeTyped, Knows, Mark, Goto
  <2> QED
    BY <2>1, <2>2, <2>3, OnlyKeeps
<1> QED
  BY <1>1, <1>2 DEF ChromeInv, Accounted

(* Attached: the endpoint is there; the marker has been for longer. *)
LEMMA AttachedAccounts ==
  ASSUME ChromeInv, NEW w \in Workers, Attached(w)
  PROVE  ChromeInv'
<1>1. ChromeTyped'
  BY DEF ChromeInv, ChromeTyped, Attached, Leaves, Goto, Pcs
<1>2. ASSUME ~lost' PROVE Accounted'
  <2>1. ~lost /\ pc[w] \in ChromePcs /\ \A q \in Workers : q # w => pc'[q] = pc[q]
    BY <1>2 DEF ChromeInv, ChromeTyped, Attached, Leaves, Goto, ChromePcs
  <2>2. Only(w) /\ Knows(w)
    BY <2>1, OnlyFacts
  <2>3. /\ pc'[w] \in ChromePcs => Knows(w)'
        /\ pc'[w] \notin ChromePcs => chromes' \subseteq {marker'}
    BY <1>2, <2>1, <2>2 DEF ChromeInv, ChromeTyped, Knows, Attached, Leaves, Goto
  <2> QED
    BY <2>1, <2>2, <2>3, OnlyKeeps
<1> QED
  BY <1>1, <1>2 DEF ChromeInv, Accounted

(* AttachFails: a failed launch is undone from its marker on, or lost before. *)
LEMMA AttachFailsAccounts ==
  ASSUME ChromeInv, NEW w \in Workers, AttachFails(w)
  PROVE  ChromeInv'
<1>1. ChromeTyped'
  <2>1. /\ UNCHANGED <<launched, marker, endpoint>> /\ chromes' \subseteq chromes
        /\ lost' = (lost \/ pc[w] = "mark")
        /\ target' \in {target, [target EXCEPT ![w] = 0]}
        /\ then' \in {then, [then EXCEPT ![w] = "idle"]}
        /\ \E label \in {"undo", "idle"} : pc' = [pc EXCEPT ![w] = label]
    BY DEF AttachFails, Stopped, Leaves, Goto
  <2> QED
    BY <2>1 DEF ChromeInv, ChromeTyped, Pcs, ChromePcs
<1>2. ASSUME ~lost' PROVE Accounted'
  <2>1. ~lost /\ pc[w] \in ChromePcs /\ \A q \in Workers : q # w => pc'[q] = pc[q]
    BY <1>2 DEF ChromeInv, ChromeTyped, AttachFails, Leaves, Goto, ChromePcs
  <2>2. Only(w) /\ Knows(w)
    BY <2>1, OnlyFacts
  <2>3. /\ pc'[w] \in ChromePcs => Knows(w)'
        /\ pc'[w] \notin ChromePcs => chromes' \subseteq {marker'}
    BY <1>2, <2>1, <2>2 DEF ChromeInv, ChromeTyped, Knows, AttachFails, Stopped, Leaves, Goto
  <2> QED
    BY <2>1, <2>2, <2>3, OnlyKeeps
<1> QED
  BY <1>1, <1>2 DEF ChromeInv, Accounted

(* Undo: the marker goes after the process. *)
LEMMA UndoAccounts ==
  ASSUME ChromeInv, NEW w \in Workers, Undo(w)
  PROVE  ChromeInv'
<1>1. ChromeTyped'
  BY DEF ChromeInv, ChromeTyped, Undo, Leaves, Goto, Pcs
<1>2. ASSUME ~lost' PROVE Accounted'
  <2>1. ~lost /\ pc[w] \in ChromePcs /\ \A q \in Workers : q # w => pc'[q] = pc[q]
    BY <1>2 DEF ChromeInv, ChromeTyped, Undo, Leaves, Goto, ChromePcs
  <2>2. Only(w) /\ Knows(w)
    BY <2>1, OnlyFacts
  <2>3. /\ pc'[w] \in ChromePcs => Knows(w)'
        /\ pc'[w] \notin ChromePcs => chromes' \subseteq {marker'}
    BY <1>2, <2>1, <2>2 DEF ChromeInv, ChromeTyped, Knows, Undo, Leaves, Goto
  <2> QED
    BY <2>1, <2>2, <2>3, OnlyKeeps
<1> QED
  BY <1>1, <1>2 DEF ChromeInv, Accounted

(* StartFinalize: a finalize begins. *)
LEMMA StartFinalizeAccounts ==
  ASSUME ChromeInv, NEW w \in Workers, StartFinalize(w)
  PROVE  ChromeInv'
<1>1. ChromeTyped'
  BY DEF ChromeInv, ChromeTyped, StartFinalize, Starts, Goto, Pcs, ChromePcs
<1>2. ASSUME ~lost' PROVE Accounted'
  <2>1. ~lost /\ pc[w] = "idle" /\ \A q \in Workers : q # w => pc'[q] = pc[q]
    BY <1>2 DEF ChromeInv, ChromeTyped, StartFinalize, Starts, Goto
  <2>2. Only(w) /\ chromes \subseteq {marker}
    BY <1>2, <2>1 DEF ChromeInv, Accounted, Only, ChromeIdle, StartFinalize, Starts
  <2>3. /\ pc'[w] \in ChromePcs => Knows(w)'
        /\ pc'[w] \notin ChromePcs => chromes' \subseteq {marker'}
    BY <1>2, <2>1, <2>2 DEF ChromeInv, ChromeTyped, Knows, StartFinalize, Starts, Goto
  <2> QED
    BY <2>1, <2>2, <2>3, OnlyKeeps
<1> QED
  BY <1>1, <1>2 DEF ChromeInv, Accounted

(* Collect: it goes on to stop what the marker names. *)
LEMMA CollectAccounts ==
  ASSUME ChromeInv, NEW w \in Workers, Collect(w)
  PROVE  ChromeInv'
<1>1. ChromeTyped'
  BY DEF ChromeInv, ChromeTyped, Collect, Goto, Pcs, ChromePcs
<1>2. ASSUME ~lost' PROVE Accounted'
  <2>1. ~lost /\ pc[w] \in ChromePcs /\ \A q \in Workers : q # w => pc'[q] = pc[q]
    BY <1>2 DEF ChromeInv, ChromeTyped, Collect, Goto, ChromePcs
  <2>2. Only(w) /\ Knows(w)
    BY <2>1, OnlyFacts
  <2>3. /\ pc'[w] \in ChromePcs => Knows(w)'
        /\ pc'[w] \notin ChromePcs => chromes' \subseteq {marker'}
    BY <1>2, <2>1, <2>2 DEF ChromeInv, ChromeTyped, Knows, Collect, Goto
  <2> QED
    BY <2>1, <2>2, <2>3, OnlyKeeps
<1> QED
  BY <1>1, <1>2 DEF ChromeInv, Accounted

(* The other steps: a death, and what Chrome does by itself. *)
LEMMA DieAccounts ==
  ASSUME ChromeInv, NEW w \in Workers, DieAnywhere(w)
  PROVE  ChromeInv'
<1>0. /\ pc' = [pc EXCEPT ![w] = "idle"] /\ UNCHANGED <<chromes, launched, marker, endpoint>>
      /\ target' = [target EXCEPT ![w] = 0] /\ then' = [then EXCEPT ![w] = "idle"]
      /\ lost' = (lost \/ pc[w] = "mark")
  BY DEF DieAnywhere, Die, Ends, Leaves, Goto
<1>1. ChromeTyped'
  BY <1>0 DEF ChromeInv, ChromeTyped, Pcs
<1>2. CASE pc[w] \in ChromePcs
  <2>1. ASSUME ~lost' PROVE Accounted'
    <3>1. Only(w) /\ Knows(w) /\ pc[w] # "mark"
      BY <1>0, <1>2, <2>1, OnlyFacts
    <3>2. pc'[w] \notin ChromePcs /\ chromes' \subseteq {marker'}
      BY <1>0, <3>1 DEF Knows, ChromeInv, ChromeTyped, ChromePcs
    <3> QED
      BY <1>0, <3>1, <3>2, OnlyKeeps DEF ChromeInv, ChromeTyped
  <2> QED
    BY <1>1, <2>1 DEF ChromeInv, Accounted
<1>3. CASE pc[w] \notin ChromePcs
  <2>1. /\ \A q \in Workers : pc'[q] \in ChromePcs => q # w /\ pc[q] \in ChromePcs
        /\ \A q \in Workers : q # w => pc'[q] = pc[q] /\ target'[q] = target[q]
        /\ ChromeIdle' = ChromeIdle
    BY <1>0, <1>3 DEF ChromeInv, ChromeTyped, ChromePcs, ChromeIdle
  <2>2. Accounted'
    BY <1>0, <2>1 DEF ChromeInv, Accounted, Knows, ChromePcs
  <2> QED
    BY <1>1, <2>2 DEF ChromeInv
<1> QED
  BY <1>2, <1>3

(* Chrome writes its endpoint, or exits. *)
LEMMA ChromeItself ==
  ASSUME ChromeInv, ChromeReady \/ ChromeExits
  PROVE  ChromeInv'
<1>0. /\ UNCHANGED <<launched, marker, target, then, lost, pc>>
      /\ chromes' \in {chromes, {}} /\ endpoint' \in {endpoint} \cup chromes
  BY DEF ChromeReady, ChromeExits, sessionVars, local
<1>1. ChromeTyped'
  BY <1>0 DEF ChromeInv, ChromeTyped
<1>2. Accounted'
  BY <1>0 DEF ChromeInv, Accounted, Knows, ChromeIdle
<1> QED
  BY <1>1, <1>2 DEF ChromeInv

(***************************************************************************)
(* The invariants.                                                         *)
(***************************************************************************)

(* They hold before any command. *)
LEMMA InitHolds ==
  Init => SessionInv /\ ChromeInv
<1> SUFFICES ASSUME Init PROVE SessionInv /\ ChromeInv
  OBVIOUS
<1>1. SessionTyped
  <2>1. 0 \in 0..MaxSaves /\ 0 \in 0..MaxDeaths
    BY SessionAssumption
  <2>2. \A w \in Workers : command[w] \in DOMAIN Readings
    BY DEF Init, SessionInit, Readings
  <2>3. SessionTypeOK
    BY <2>1, <2>2 DEF Init, SessionInit, SessionTypeOK, Healths
  <2> QED
    BY <2>3 DEF Init, SessionInit, SessionTyped, Healths, Commands, Pcs
<1>2. Settled /\ \A w \in Workers : Commanded(w) /\ (alone = w => Undisturbed(w))
  BY SessionAssumption DEF Init, SessionInit, Settled, Commanded
<1>3. ChromeInv
  <2>1. 0 \in 0..MaxChromes /\ 0 \in 0..0
    BY ChromeAssumption
  <2>2. ChromeTyped
    BY <2>1 DEF Init, SessionInit, ChromeTyped, Pcs
  <2>3. Accounted
    BY DEF Init, SessionInit, Accounted, ChromePcs
  <2> QED
    BY <2>2, <2>3 DEF ChromeInv
<1> QED
  BY <1>1, <1>2, <1>3 DEF SessionInv

(* Every step of a process keeps them. *)
LEMMA WorkerStep ==
  ASSUME SessionInv, ChromeInv, NEW w \in Workers,
         \/ SessionStep(w) /\ UNCHANGED chromeVars
         \/ StartAttach(w) \/ Release(w) \/ Unmark(w) \/ ClearEndpoint(w) \/ Spawn(w) \/ Mark(w)
         \/ Attached(w) \/ AttachFails(w) \/ Undo(w)
         \/ StartFinalize(w) \/ Collect(w) \/ SaveCollected(w) \/ DieAnywhere(w)
  PROVE  SessionInv' /\ ChromeInv'
<1>1. CASE SessionStep(w) /\ UNCHANGED chromeVars
  <2>1. SessionInv'
    BY <1>1, StartReadKeeps, StartSaveKeeps, WriteEnvelopeKeeps, UpsertKeeps, ReadFileKeeps,
       ReadRowKeeps, ReadFailsKeeps, SetInvalidKeeps, ProbeKeeps, ReportKeeps, UseKeeps,
       StartDeleteKeeps, UnlinkKeeps, DropRowKeeps DEF SessionStep
  <2>2. ChromeInv'
    BY <1>1, ProfileLeavesChrome, ProfileKeepsChrome
  <2> QED
    BY <2>1, <2>2
<1>2. CASE \/ StartAttach(w) \/ Release(w) \/ Unmark(w) \/ ClearEndpoint(w) \/ Spawn(w) \/ Mark(w)
           \/ Attached(w) \/ AttachFails(w) \/ Undo(w) \/ StartFinalize(w) \/ Collect(w)
  <2>1. SessionInv'
    BY <1>2, ChromeLeavesProfile, AsideKeeps DEF ChromeInv
  <2>2. ChromeInv'
    BY <1>2, StartAttachAccounts, ReleaseAccounts, UnmarkAccounts, ClearEndpointAccounts,
       SpawnAccounts, MarkAccounts, AttachedAccounts, AttachFailsAccounts, UndoAccounts,
       StartFinalizeAccounts, CollectAccounts
  <2> QED
    BY <2>1, <2>2
<1>3. CASE SaveCollected(w)
  <2>1. /\ pc[w] = "collected" /\ pc' = [pc EXCEPT ![w] = "write"] /\ UNCHANGED chromeVars
    BY <1>3 DEF SaveCollected, Goto
  <2>2. /\ pc[w] \notin ChromePcs /\ pc'[w] \notin ChromePcs /\ pc' \in [Workers -> Pcs]
        /\ \A q \in Workers : q # w => pc'[q] = pc[q]
    BY <2>1 DEF ChromeInv, ChromeTyped, Pcs, SessionPcs, Writing, ChromePcs
  <2> QED
    BY <1>3, <2>1, <2>2, SaveCollectedKeeps, ProfileKeepsChrome
<1>4. CASE DieAnywhere(w)
  BY <1>4, DieKeeps, DieAccounts DEF DieAnywhere
<1> QED
  BY <1>1, <1>2, <1>3, <1>4

(* Every step keeps them. *)
LEMMA InvariantStep ==
  SessionInv /\ ChromeInv /\ [Next]_vars => SessionInv' /\ ChromeInv'
<1> SUFFICES ASSUME SessionInv, ChromeInv, [Next]_vars PROVE SessionInv' /\ ChromeInv'
  OBVIOUS
<1>1. CASE UNCHANGED vars
  <2>1. UNCHANGED sessionVars /\ UNCHANGED chromeVars /\ UNCHANGED pc
    BY <1>1 DEF vars, sessionVars, local
  <2>2. ChromeInv'
    BY <2>1 DEF chromeVars, ChromeInv, ChromeTyped, Accounted, Knows, ChromeIdle
  <2> QED
    BY <2>1, <2>2, SessionStutters
<1>2. CASE ChromeReady \/ ChromeExits
  <2>1. UNCHANGED sessionVars
    BY <1>2 DEF ChromeReady, ChromeExits
  <2> QED
    BY <1>2, <2>1, ChromeItself, SessionStutters
<1> QED
  BY <1>1, <1>2, WorkerStep DEF Next

(* Both invariants hold in every state. *)
THEOREM Invariant == Spec => [](SessionInv /\ ChromeInv)
<1>1. Init => SessionInv /\ ChromeInv
  BY InitHolds
<1>2. SessionInv /\ ChromeInv /\ [Next]_vars => (SessionInv /\ ChromeInv)'
  BY InvariantStep
<1> QED
  BY <1>1, <1>2, PTL DEF Spec

(* TypeOK: every variable keeps its type, and a live run never loses its
   profile's row. *)
THEOREM TypeCorrect == Spec => []TypeOK
<1>1. SessionInv /\ ChromeInv => TypeOK
  BY DEF SessionInv, SessionTyped, ChromeInv, ChromeTyped, TypeOK
<1> QED
  BY <1>1, Invariant, PTL

(* A save no command overlapped leaves the envelope its row attests, with a
   health that is about it; a delete leaves nothing. *)
THEOREM SettledKept == Spec => []SettledAgree
<1>1. SessionInv => SettledAgree
  BY DEF SessionInv, Settled, Intact, SettledAgree
<1> QED
  BY <1>1, Invariant, PTL

(* A launched Chrome is the one its marker names. *)
THEOREM ChromeNamed == Spec => []ChromeAccountedFor
<1>1. SessionInv /\ ChromeInv => ChromeAccountedFor
  <2> SUFFICES ASSUME ChromeInv, ~lost, NEW n \in chromes
               PROVE  marker = n \/ \E w \in Workers : pc[w] = "mark" /\ target[w] = n
    BY DEF ChromeAccountedFor
  <2>1. CASE ChromeIdle = Workers
    BY <2>1 DEF ChromeInv, Accounted
  <2>2. CASE \E w \in Workers : pc[w] \in ChromePcs
    BY <2>2, OnlyFacts DEF Knows
  <2> QED
    BY <2>1, <2>2 DEF ChromeIdle
<1> QED
  BY <1>1, Invariant, PTL
=============================================================================
