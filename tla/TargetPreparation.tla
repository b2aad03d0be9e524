-------------------------- MODULE TargetPreparation --------------------------
(***************************************************************************)
(* How a campaign gets its one selected Group: _prepare_target and the     *)
(* `target` commands (src/src/app/cli/main.py) over                        *)
(* TargetPreparationService (src/src/app/targets/preparation.py), with the *)
(* one-action guard of protection_join.py and the Join click of            *)
(* discovery/membership.py.                                                *)
(*                                                                         *)
(* Several operator processes share the database; every transaction, page  *)
(* read and click is one step, and a process may end between any two.      *)
(* What the site shows is free at every look: the code concludes from the  *)
(* controls it sees, and the models say nothing of the account's own       *)
(* membership.                                                             *)
(***************************************************************************)
EXTENDS Naturals, Sequences

CONSTANTS
  Procs,     \* operator processes
  Groups,    \* Group ids
  Campaigns, \* campaign ids
  Views,     \* the ranked Group lists a live discovery page may show
  Lists,     \* the Group lists of a URL, a CSV file or a discovery fixture
  Nothing    \* no row, no Group

ASSUME PreparationAssumption ==
  /\ Views \subseteq Seq(Groups) /\ Lists \subseteq Seq(Groups)
  /\ \A view \in Views : view # <<>> /\
       \A m, n \in DOMAIN view : view[m] = view[n] => m = n
  /\ \A list \in Lists : list # <<>>
  /\ Nothing \notin Groups \cup Campaigns

VARIABLES
  source,     \* discovery_campaigns: how the campaign began ("none": no row)
  hits,       \* candidate_hits of the campaign, in rank order
  transition, \* membership_transitions: at most one row per campaign
  selected,   \* selected_targets: at most one row per campaign
  discovery,  \* the raw discovery page stored for the campaign
  evidence,   \* the raw captures of its Join
  clicked,    \* campaigns whose process clicked Join
  known,      \* the transitions a campaign's process had read
  pc,         \* where each process is
  method,     \* the target method of its command
  camp,       \* its campaign
  page,       \* the Groups of its page or list that have no row yet
  cand,       \* the Group it resolved
  outcome     \* what it read after the click

database == <<source, hits, transition, selected, discovery, evidence>>
history == <<clicked, known>>
memory == <<method, camp, page, cand, outcome>>
vars == <<database, history, pc, memory>>

Memberships == {"joined", "join_available", "join_requested"}
Outcomes == {"joined", "pending", "rejected", "stopped"}
Methods == {"operator", "live_discovery", "live_join", "batch"}
Evidence == {"before", "confirmation"}
(* What a look at a Group tells apart: a control that says join, the word
   requested. *)
Signs == {"join", "requested"}
Sightings == [group : Groups, signs : SUBSET Signs]
Steps == {"idle", "store", "campaign", "hits", "plan", "before", "click",
          "after", "confirm", "complete", "select", "insert"}
NoTransition == [group |-> Nothing, state |-> "none"]

Goto(p, step) == pc' = [pc EXCEPT ![p] = step]
(* The command ends and its memory is gone. *)
Exit(p) == /\ Goto(p, "idle")
           /\ method' = [method EXCEPT ![p] = "operator"]
           /\ camp' = [camp EXCEPT ![p] = Nothing]
           /\ page' = [page EXCEPT ![p] = <<>>]
           /\ cand' = [cand EXCEPT ![p] = Nothing]
           /\ outcome' = [outcome EXCEPT ![p] = "stopped"]
Joined(c) == {n \in DOMAIN hits[c] : hits[c][n].membership = "joined"}
Joinable(c) == {n \in DOMAIN hits[c] : hits[c][n].membership = "join_available"}

(* _resolve_candidate: a batch asks for rank 1, others name any candidate. *)
Resolved(p, ranks) == IF method[p] = "batch" THEN ranks \cap {1} ELSE ranks

(* Mutant of Attempted: reservations still planned do not count. *)
AttemptedDone(reserved) ==
  {transition[c].group : c \in {d \in reserved : transition[d].state # "planned"}}
(* attempted_join_group_ids: every Group ever reserved, whatever came of it. *)
Attempted(reserved) == {transition[c].group : c \in reserved}
Reserved == {c \in Campaigns : transition[c] # NoTransition}
(* JoinActionGuard.reserve, on a guard made for this one action. *)
GuardAllows(g) == g \notin Attempted(Reserved)

(* _membership_state: what the controls of a candidate on the discovery page
   mean; no control at all means joined. *)
Membership(signs) ==
  CASE "requested" \in signs -> "join_requested"
    [] signs = {"join"} -> "join_available"
    [] OTHER -> "joined"

(* Mutant of Outcome: the page after the click is read like a candidate. *)
OutcomeRaw(signs) == Membership(signs)
(* MembershipJoinAdapter.join: what the page after the click means, the word
   anywhere on it, or the exact Join button gone. *)
Outcome(signs) == CASE "requested" \in signs -> "pending"
                    [] signs = {} -> "joined"
                    [] OTHER -> "rejected"

-----------------------------------------------------------------------------
Init ==
  /\ source = [c \in Campaigns |-> "none"]
  /\ hits = [c \in Campaigns |-> <<>>]
  /\ transition = [c \in Campaigns |-> NoTransition]
  /\ selected = [c \in Campaigns |-> Nothing]
  /\ discovery = [c \in Campaigns |-> <<>>]
  /\ evidence = [c \in Campaigns |-> {}]
  /\ clicked = {}
  /\ known = [c \in Campaigns |-> {}]
  /\ pc = [p \in Procs |-> "idle"]
  /\ method = [p \in Procs |-> "operator"]
  /\ camp = [p \in Procs |-> Nothing]
  /\ page = [p \in Procs |-> <<>>]
  /\ cand = [p \in Procs |-> Nothing]
  /\ outcome = [p \in Procs |-> "stopped"]

Fresh(c) == source[c] = "none" /\ discovery[c] = <<>> /\ \A q \in Procs : camp[q] # c

(* AppDiscoveryParser.parse: every Group link once, in the order of its rank,
   with the controls beside it. *)
Seen(view, signs) ==
  [n \in DOMAIN view |-> [group |-> view[n], signs |-> signs[view[n]]]]

(* add_url, add_csv, add_discovery: a list shows no controls, and its candidates
   count as joined. *)
ListTargets(p, c, list) ==
  /\ pc[p] = "idle" /\ Fresh(c)
  /\ camp' = [camp EXCEPT ![p] = c]
  /\ method' = [method EXCEPT ![p] = "operator"]
  /\ page' = [page EXCEPT ![p] =
       Seen(list, [g \in Groups |-> {}])]
  /\ Goto(p, "campaign")
  /\ UNCHANGED <<database, history, cand, outcome>>

(* SessionDiscoveryAdapter.capture: the page as the site renders it now. *)
Discover(p, c, view, signs, how) ==
  /\ pc[p] = "idle" /\ Fresh(c)
  /\ camp' = [camp EXCEPT ![p] = c]
  /\ method' = [method EXCEPT ![p] = how]
  /\ page' = [page EXCEPT ![p] = Seen(view, signs)]
  /\ Goto(p, "store")
  /\ UNCHANGED <<database, history, cand, outcome>>

(* The discovery page is stored before it is parsed. *)
StoreDiscovery(p) ==
  /\ pc[p] = "store"
  /\ discovery' = [discovery EXCEPT ![camp[p]] = page[p]]
  /\ Goto(p, "campaign")
  /\ UNCHANGED <<source, hits, transition, selected, evidence, history, memory>>

(* _create_campaign. *)
CreateCampaign(p) ==
  /\ pc[p] = "campaign"
  /\ source' = [source EXCEPT ![camp[p]] =
       IF method[p] = "operator" THEN "operator" ELSE "live"]
  /\ Goto(p, "hits")
  /\ UNCHANGED <<hits, transition, selected, discovery, evidence, history, memory>>

Candidate(seen) == [group |-> seen.group, membership |-> Membership(seen.signs)]
(* _add_candidate: one transaction each, a Group only once per query. *)
AddCandidate(p) ==
  /\ pc[p] = "hits" /\ page[p] # <<>>
  /\ \A n \in DOMAIN hits[camp[p]] : hits[camp[p]][n].group # Head(page[p]).group
  /\ hits' = [hits EXCEPT ![camp[p]] = Append(@, Candidate(Head(page[p])))]
  /\ page' = [page EXCEPT ![p] = Tail(@)]
  /\ UNCHANGED <<source, transition, selected, discovery, evidence, history, pc,
                 method, camp, cand, outcome>>

(* Every candidate is stored. *)
Ready(p) == pc[p] = "hits" /\ page[p] = <<>>

(* A joined candidate is resolved; no membership action is taken. *)
ChooseJoined(p) ==
  /\ Ready(p)
  /\ \E n \in Resolved(p, Joined(camp[p])) :
       cand' = [cand EXCEPT ![p] = hits[camp[p]][n].group]
  /\ Goto(p, "select")
  /\ UNCHANGED <<database, history, method, camp, page, outcome>>

(* No candidate is joined: one joinable Group that nobody reserved before. *)
ChooseJoinable(p) ==
  /\ Ready(p) /\ method[p] = "live_join" /\ Joined(camp[p]) = {}
  /\ known' = [known EXCEPT ![camp[p]] = Reserved]
  /\ \E n \in Joinable(camp[p]) :
       /\ GuardAllows(hits[camp[p]][n].group)
       /\ cand' = [cand EXCEPT ![p] = hits[camp[p]][n].group]
  /\ Goto(p, "plan")
  /\ UNCHANGED <<database, clicked, method, camp, page, outcome>>

(* plan_join: the durable reservation, one per campaign. *)
PlanJoin(p) ==
  /\ pc[p] = "plan"
  /\ transition[camp[p]] = NoTransition
  /\ transition' = [transition EXCEPT ![camp[p]] =
       [group |-> cand[p], state |-> "planned"]]
  /\ Goto(p, "before")
  /\ UNCHANGED <<source, hits, selected, discovery, evidence, history, memory>>

Store(p, kind) ==
  evidence' = [evidence EXCEPT ![camp[p]] = @ \cup {kind}]

(* Mutant of CheckpointBefore: the page before the action is not stored. *)
CheckpointSkipped(p) ==
  /\ pc[p] = "before"
  /\ Goto(p, "click")
  /\ UNCHANGED <<database, history, memory>>
(* The Group page has exactly one Join control; it is stored first. *)
CheckpointBefore(p) ==
  /\ pc[p] = "before"
  /\ Store(p, "before")
  /\ Goto(p, "click")
  /\ UNCHANGED <<source, hits, transition, selected, discovery, history, memory>>

(* The one click, which the site may heed or not; a click that fails, as when
   the control is gone, is a Leave. *)
Click(p) ==
  /\ pc[p] = "click"
  /\ clicked' = clicked \cup {camp[p]}
  /\ Goto(p, "after")
  /\ UNCHANGED <<database, known, memory>>

(* The page after the click, looked at once. *)
ReadOutcome(p) ==
  /\ pc[p] = "after"
  /\ \E signs \in SUBSET Signs : outcome' = [outcome EXCEPT ![p] = Outcome(signs)]
  /\ Goto(p, "confirm")
  /\ UNCHANGED <<database, history, method, camp, page, cand>>

StoreConfirmation(p) ==
  /\ pc[p] = "confirm"
  /\ Store(p, "confirmation")
  /\ Goto(p, "complete")
  /\ UNCHANGED <<source, hits, transition, selected, discovery, history, memory>>

(* BrowserStateError before or after the click: a stop state of the account,
   or not exactly one Join control. *)
StopJoin(p) ==
  /\ pc[p] \in {"before", "click", "after"}
  /\ outcome' = [outcome EXCEPT ![p] = "stopped"]
  /\ Goto(p, "complete")
  /\ UNCHANGED <<database, history, method, camp, page, cand>>

(* Mutant of Unlocks: a pending request unlocks the candidate too. *)
UnlocksEarly(state) == state \in {"joined", "pending"}
Unlocks(state) == state = "joined"
(* complete_join: the outcome and, if confirmed, the candidate, at once. *)
CompleteJoin(p) ==
  /\ pc[p] = "complete"
  /\ transition[camp[p]].state = "planned"
  /\ transition' = [transition EXCEPT ![camp[p]].state = outcome[p]]
  /\ hits' = [hits EXCEPT ![camp[p]] =
       [n \in DOMAIN @ |->
          IF @[n].group = cand[p] /\ Unlocks(outcome[p])
          THEN [@[n] EXCEPT !.membership = "joined"] ELSE @[n]]]
  /\ IF outcome[p] = "joined" THEN Goto(p, "select") /\ UNCHANGED memory ELSE Exit(p)
  /\ UNCHANGED <<source, selected, discovery, evidence, history>>

(* `target select`: any candidate of any campaign, named by the operator. *)
SelectCommand(p, c) ==
  /\ pc[p] = "idle"
  /\ \E n \in DOMAIN hits[c] : cand' = [cand EXCEPT ![p] = hits[c][n].group]
  /\ camp' = [camp EXCEPT ![p] = c]
  /\ Goto(p, "select")
  /\ UNCHANGED <<database, history, method, page, outcome>>

(* select: a confirmed candidate, and the campaign has no other target yet;
   the same target again is returned as it is. *)
CheckSelection(p) ==
  /\ pc[p] = "select"
  /\ \E n \in Joined(camp[p]) : hits[camp[p]][n].group = cand[p]
  /\ selected[camp[p]] \in {Nothing, cand[p]}
  /\ IF selected[camp[p]] = Nothing THEN Goto(p, "insert") /\ UNCHANGED memory ELSE Exit(p)
  /\ UNCHANGED <<database, history>>

(* Mutant of Insertable: INSERT OR REPLACE. *)
InsertableAlways(c) == TRUE
(* UNIQUE(campaign_id): a row inserted since the check raises. *)
Insertable(c) == selected[c] = Nothing
InsertSelection(p) ==
  /\ pc[p] = "insert"
  /\ Insertable(camp[p])
  /\ selected' = [selected EXCEPT ![camp[p]] = cand[p]]
  /\ Exit(p)
  /\ UNCHANGED <<source, hits, transition, discovery, evidence, history>>

(* An exception or a death: nothing is undone.  Every check above that fails
   ends here too. *)
Leave(p) ==
  /\ pc[p] # "idle"
  /\ Exit(p)
  /\ UNCHANGED <<database, history>>

Prepare(p) ==
  \/ StoreDiscovery(p) \/ CreateCampaign(p) \/ AddCandidate(p)
  \/ ChooseJoined(p) \/ ChooseJoinable(p)
Join(p) ==
  \/ PlanJoin(p) \/ CheckpointBefore(p) \/ Click(p) \/ ReadOutcome(p)
  \/ StoreConfirmation(p) \/ StopJoin(p) \/ CompleteJoin(p)

Next ==
  \/ \E p \in Procs :
       \/ \E c \in Campaigns :
            \/ \E list \in Lists : ListTargets(p, c, list)
            \/ \E view \in Views, signs \in [Groups -> SUBSET Signs],
                   how \in Methods \ {"operator"} : Discover(p, c, view, signs, how)
            \/ SelectCommand(p, c)
       \/ Prepare(p) \/ Join(p) \/ CheckSelection(p) \/ InsertSelection(p) \/ Leave(p)

Spec == Init /\ [][Next]_vars

-----------------------------------------------------------------------------
(* The rows keep the types their CHECK constraints state, and a process in
   the middle of a command has a campaign. *)
TypeOK ==
  /\ source \in [Campaigns -> {"none", "operator", "live"}]
  /\ hits \in [Campaigns -> Seq([group : Groups, membership : Memberships])]
  /\ transition \in [Campaigns ->
       {NoTransition} \cup [group : Groups, state : Outcomes \cup {"planned"}]]
  /\ selected \in [Campaigns -> Groups \cup {Nothing}]
  /\ discovery \in [Campaigns -> Seq(Sightings)]
  /\ evidence \in [Campaigns -> SUBSET Evidence]
  /\ clicked \subseteq Campaigns /\ known \in [Campaigns -> SUBSET Campaigns]
  /\ pc \in [Procs -> Steps] /\ method \in [Procs -> Methods]
  /\ camp \in [Procs -> Campaigns \cup {Nothing}]
  /\ cand \in [Procs -> Groups \cup {Nothing}]
  /\ outcome \in [Procs -> Outcomes]
  /\ \A p \in Procs : pc[p] # "idle" => camp[p] \in Campaigns

(* A Join that was reserved when a run read the reservations is never repeated
   by that run, whatever became of the process that reserved it: two clicks
   for one Group come only from runs that both read before either reserved. *)
NoKnownRepeat ==
  \A c, d \in clicked :
    c # d /\ transition[c].group = transition[d].group => d \notin known[c]

(* Every click has its reservation and the page before it; every outcome but a
   stop has its click and the page after it (_join_keyword_candidate). *)
ActionsAccountedFor ==
  \A c \in Campaigns :
    /\ c \in clicked => transition[c] # NoTransition /\ "before" \in evidence[c]
    /\ transition[c].state \in Outcomes \ {"stopped"}
         => c \in clicked /\ "confirmation" \in evidence[c]

(* Why a live campaign may take a Group for joined: its stored discovery page
   showed no control beside it, or its own Join of the Group was completed as
   joined and the page after the click is stored. *)
Confirmed(c, g) ==
  \/ \E n \in DOMAIN discovery[c] : discovery[c][n] = [group |-> g, signs |-> {}]
  \/ transition[c] = [group |-> g, state |-> "joined"] /\ "confirmation" \in evidence[c]

(* The Group a live campaign has selected is one its stored evidence confirms,
   after however many runs, clicks, deaths and manual selections: never one that
   is only reserved, asked for, or joined for another campaign. *)
SelectedOnEvidence ==
  \A c \in Campaigns : source[c] = "live" /\ selected[c] # Nothing
    => Confirmed(c, selected[c])

(* A campaign keeps its one target: captures read it before and after the
   gate and must see the same Group. *)
SelectionStays ==
  [][\A c \in Campaigns : selected[c] # Nothing => selected'[c] = selected[c]]_vars
=============================================================================
