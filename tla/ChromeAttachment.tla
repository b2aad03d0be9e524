--------------------------- MODULE ChromeAttachment ---------------------------
(***************************************************************************)
(* The scanner-owned Chrome of a session profile                            *)
(* (src/src/app/session/browser.py): attach-chrome launches it, the         *)
(* operator signs in, and finalize-chrome takes its state, stops it and     *)
(* saves the state as the profile of SessionProfiles.  A marker file in the *)
(* browser profile names the process id to stop and an endpoint file, which *)
(* Chrome writes, says where to attach.  Chrome runs once per browser       *)
(* profile: a second one hands over to the first and exits.                *)
(***************************************************************************)
EXTENDS SessionProfiles, FiniteSets

CONSTANT MaxChromes  \* bound on the processes launched
ASSUME ChromeAssumption == MaxChromes \in Nat

VARIABLES
  chromes,  \* scanner-launched Chrome processes that run
  launched, \* processes launched so far
  marker,   \* pgscan-normal-chrome.pid (zero: no such file)
  endpoint, \* DevToolsActivePort: the process that wrote it (zero: no file)
  target,   \* the process a command has launched or is to stop
  then,     \* where it goes on after it has stopped one
  lost      \* a launch died before its marker was written, or two Chrome
            \* commands ran at once

chromeVars == <<chromes, launched, marker, endpoint, target, then, lost>>
vars == <<sessionVars, chromeVars>>

ChromePcs == {"release", "unmark", "clear", "spawn", "mark", "wait", "undo", "attach"}
ChromeIdle == {w \in Workers : pc[w] \notin ChromePcs}

Init ==
  /\ SessionInit
  /\ chromes = {} /\ launched = 0 /\ marker = 0 /\ endpoint = 0
  /\ target = [w \in Workers |-> 0] /\ then = [w \in Workers |-> "idle"] /\ lost = FALSE

(* A command is over, or has no more to do with Chrome. *)
Leaves(w, label) ==
  /\ Goto(w, label)
  /\ target' = [target EXCEPT ![w] = 0] /\ then' = [then EXCEPT ![w] = "idle"]
(* A Chrome command uses neither the envelope nor the row. *)
Elsewhere == UNCHANGED <<shared, command, reading, mine, verdict, ghosts>>
Starts(w, label) ==
  /\ pc[w] = "idle" /\ Goto(w, label)
  /\ alone' = Nobody
  /\ lost' = (lost \/ ChromeIdle # Workers)
  /\ UNCHANGED <<shared, command, reading, mine, verdict, settled, judged>>

-----------------------------------------------------------------------------
StartAttach(w) ==
  /\ launched < MaxChromes
  /\ Starts(w, "release")
  /\ target' = [target EXCEPT ![w] = marker] /\ then' = [then EXCEPT ![w] = "spawn"]
  /\ UNCHANGED <<chromes, launched, marker, endpoint>>

(* _terminate_process_tree, which may be refused; then the command fails. *)
Stopped(w) == chromes' = chromes \ {target[w]}
Releases(w) ==
  \/ target[w] = 0 /\ Goto(w, "clear") /\ UNCHANGED <<chromes, target, then>>
  \/ target[w] # 0 /\ Stopped(w) /\ Goto(w, "unmark") /\ UNCHANGED <<target, then>>
  \/ target[w] \in chromes /\ Leaves(w, "idle") /\ UNCHANGED chromes
(* Mutant of Release: the marker goes before the process does. *)
ReleaseUnmarked(w) ==
  /\ pc[w] = "release"
  /\ marker' = 0
  /\ Releases(w)
  /\ Elsewhere
  /\ UNCHANGED <<launched, endpoint, lost>>
Release(w) ==
  /\ pc[w] = "release"
  /\ Releases(w)
  /\ Elsewhere
  /\ UNCHANGED <<launched, marker, endpoint, lost>>
Unmark(w) ==
  /\ pc[w] = "unmark"
  /\ marker' = 0
  /\ Goto(w, "clear")
  /\ Elsewhere
  /\ UNCHANGED <<chromes, launched, endpoint, target, then, lost>>
(* The endpoint file is removed when a process was stopped, and by a launch. *)
ClearEndpoint(w) ==
  /\ pc[w] = "clear"
  /\ endpoint' = IF target[w] # 0 \/ then[w] = "spawn" THEN 0 ELSE endpoint
  /\ Leaves(w, then[w])
  /\ Elsewhere
  /\ UNCHANGED <<chromes, launched, marker, lost>>

Spawn(w) ==
  /\ pc[w] = "spawn" /\ launched < MaxChromes
  /\ launched' = launched + 1
  /\ target' = [target EXCEPT ![w] = launched + 1]
  /\ chromes' = IF chromes = {} THEN {launched + 1} ELSE chromes
  /\ Goto(w, "mark")
  /\ Elsewhere
  /\ UNCHANGED <<marker, endpoint, then, lost>>
Mark(w) ==
  /\ pc[w] = "mark"
  /\ marker' = target[w]
  /\ Goto(w, "wait")
  /\ Elsewhere
  /\ UNCHANGED <<chromes, launched, endpoint, target, then, lost>>
(* Whoever wrote the endpoint. *)
Attached(w) ==
  /\ pc[w] = "wait" /\ endpoint # 0 /\ target[w] \in chromes
  /\ Leaves(w, "idle")
  /\ Elsewhere
  /\ UNCHANGED <<chromes, launched, marker, endpoint, lost>>
(* The marker cannot be written, Chrome exits, or the time is up: the launch
   is undone, unless Chrome cannot be stopped. *)
AttachFails(w) ==
  /\ pc[w] \in {"mark", "wait"}
  /\ \/ Stopped(w) /\ Goto(w, "undo") /\ UNCHANGED <<target, then>>
     \/ target[w] \in chromes /\ Leaves(w, "idle") /\ UNCHANGED chromes
  /\ lost' = (lost \/ pc[w] = "mark")
  /\ Elsewhere
  /\ UNCHANGED <<launched, marker, endpoint>>
Undo(w) ==
  /\ pc[w] = "undo"
  /\ marker' = 0
  /\ Leaves(w, "idle")
  /\ Elsewhere
  /\ UNCHANGED <<chromes, launched, endpoint, lost>>

-----------------------------------------------------------------------------
StartFinalize(w) ==
  /\ Starts(w, "attach")
  /\ UNCHANGED <<chromes, launched, marker, endpoint, target, then>>
(* The state is taken, or the attachment fails; Chrome is stopped anyway. *)
Collect(w) ==
  /\ pc[w] = "attach"
  /\ \/ endpoint \in chromes /\ then' = [then EXCEPT ![w] = "collected"]
     \/ then' = [then EXCEPT ![w] = "idle"]
  /\ target' = [target EXCEPT ![w] = marker]
  /\ Goto(w, "release")
  /\ Elsewhere
  /\ UNCHANGED <<chromes, launched, marker, endpoint, lost>>
(* save_guided_state. *)
SaveCollected(w) ==
  /\ pc[w] = "collected"
  /\ Goto(w, "write")
  /\ command' = [command EXCEPT ![w] = "save"] /\ reading' = [reading EXCEPT ![w] = 1]
  /\ alone' = IF Idle = Workers \ {w} THEN w ELSE Nobody
  /\ settled' = "no"
  /\ UNCHANGED <<shared, mine, verdict, judged, chromeVars>>

-----------------------------------------------------------------------------
(* Chrome writes its endpoint once it is up; the operator may close it. *)
ChromeReady ==
  /\ \E n \in chromes : endpoint # n /\ endpoint' = n
  /\ UNCHANGED <<sessionVars, chromes, launched, marker, target, then, lost>>
ChromeExits ==
  /\ chromes # {} /\ chromes' = {}
  /\ UNCHANGED <<sessionVars, launched, marker, endpoint, target, then, lost>>

(* A command of either kind dies. *)
DieAnywhere(w) ==
  /\ Die(w)
  /\ Leaves(w, "idle")
  /\ lost' = (lost \/ pc[w] = "mark")
  /\ UNCHANGED <<chromes, launched, marker, endpoint>>

Next ==
  \/ \E w \in Workers :
       \/ SessionStep(w) /\ UNCHANGED chromeVars
       \/ StartAttach(w) \/ Release(w) \/ Unmark(w) \/ ClearEndpoint(w) \/ Spawn(w) \/ Mark(w)
       \/ Attached(w) \/ AttachFails(w) \/ Undo(w)
       \/ StartFinalize(w) \/ Collect(w) \/ SaveCollected(w) \/ DieAnywhere(w)
  \/ ChromeReady \/ ChromeExits

Spec == Init /\ [][Next]_vars

-----------------------------------------------------------------------------
(* Every variable keeps its type, and a live run its profile's row. *)
TypeOK ==
  /\ SessionTypeOK
  /\ chromes \subseteq 1..launched /\ launched \in 0..MaxChromes
  /\ marker \in 0..launched /\ endpoint \in 0..launched /\ lost \in BOOLEAN
  /\ \A w \in Workers : target[w] \in 0..launched

(* A Chrome that the scanner has launched is the one its marker names, so the
   next launch or finalize stops it, through failed terminations, exits and
   deaths: unless two Chrome commands overlapped, or a launch ended between
   the start of Chrome and its marker. *)
ChromeAccountedFor ==
  lost \/ \A n \in chromes :
    marker = n \/ \E w \in Workers : pc[w] = "mark" /\ target[w] = n
=============================================================================
