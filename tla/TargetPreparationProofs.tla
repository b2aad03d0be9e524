------------------------ MODULE TargetPreparationProofs ------------------------
(***************************************************************************)
(* Proofs about TargetPreparation for every set of processes, campaigns    *)
(* and Groups and every page the site may show: reservations, clicks and   *)
(* selections through any interleaving, stop and death.                    *)
(***************************************************************************)
EXTENDS TargetPreparation, SequenceTheorems, TLAPS

(***************************************************************************)
(* The inductive invariant.                                                *)
(***************************************************************************)

Hits == [group : Groups, membership : Memberships]
(* The steps in which a process builds its campaign, or joins a Group for it. *)
Building == {"store", "campaign", "hits"}
Acting == {"before", "click", "after", "confirm", "complete"}
Working == Building \cup {"plan"} \cup Acting

(* The memory of the commands has its types too. *)
MemoryOK ==
  /\ page \in [Procs -> Seq(Sightings)]
  /\ \A p \in Procs : pc[p] \notin Building \cup {"idle"} => cand[p] \in Groups

(* One process works on a campaign; others may only select its target. *)
Owned ==
  \A p, q \in Procs :
    p # q /\ camp[p] = camp[q] /\ pc[p] \in Working => pc[q] \notin Working

(* A process finds the rows it has written. *)
Progress(p) ==
  /\ pc[p] \in {"store", "campaign"} => source[camp[p]] = "none"
  /\ pc[p] \notin {"idle", "store", "campaign"} => source[camp[p]] # "none"
  /\ pc[p] = "hits" /\ source[camp[p]] = "live" => method[p] # "operator"
  /\ pc[p] \in {"hits", "plan"} => transition[camp[p]] = NoTransition
  /\ pc[p] \in Acting => transition[camp[p]] = [group |-> cand[p], state |-> "planned"]

(* The Group it is about to reserve was not reserved when it looked. *)
Reserves(p) ==
  pc[p] = "plan" => \A d \in known[camp[p]] : transition[d].group # cand[p]

(* The evidence of a click at each step around it. *)
Evident(p) ==
  /\ pc[p] = "click" => "before" \in evidence[camp[p]]
  /\ pc[p] \in {"after", "confirm"} => camp[p] \in clicked
  /\ pc[p] = "complete" /\ outcome[p] # "stopped" =>
       camp[p] \in clicked /\ "confirmation" \in evidence[camp[p]]

(* What a live campaign takes for joined is confirmed; what its process has still
   to store is on the stored page. *)
TrueHits(c, list) ==
  \A n \in DOMAIN list : list[n].membership = "joined" => Confirmed(c, list[n].group)
OnPage(c, list) ==
  \A n \in DOMAIN list : \E m \in DOMAIN discovery[c] : discovery[c][m] = list[n]
TrueMemory(p) ==
  /\ pc[p] \in {"campaign", "hits"} /\ method[p] # "operator" => OnPage(camp[p], page[p])
  /\ pc[p] = "insert" /\ source[camp[p]] = "live" => Confirmed(camp[p], cand[p])

Local(p) == Progress(p) /\ Reserves(p) /\ Evident(p) /\ TrueMemory(p)

(* A campaign without a row has nothing; whatever its process had read is
   reserved, and of other Groups; its joined candidates are confirmed. *)
Bare == \A c \in Campaigns : source[c] = "none" =>
          hits[c] = <<>> /\ transition[c] = NoTransition /\ selected[c] = Nothing
KnownApart == \A c \in Campaigns : \A d \in known[c] :
                /\ transition[d] # NoTransition
                /\ transition[c] # NoTransition => transition[d].group # transition[c].group
CampaignsTrue == \A c \in Campaigns : source[c] = "live" => TrueHits(c, hits[c])
Rows == Bare /\ KnownApart /\ ActionsAccountedFor /\ CampaignsTrue /\ SelectedOnEvidence

Typed == TypeOK /\ MemoryOK
IInv == Typed /\ Owned /\ Rows /\ \A p \in Procs : Local(p)

(***************************************************************************)
(* Facts about the data.                                                   *)
(***************************************************************************)

(* A list or a page of Groups is a sequence. *)
LEMMA ListFacts ==
  ASSUME NEW list \in Lists \cup Views
  PROVE  list \in Seq(Groups)
BY PreparationAssumption

(* No campaign and no Group is nothing. *)
LEMMA NothingFacts ==
  /\ \A g \in Groups : g # Nothing
  /\ \A c \in Campaigns : c # Nothing
BY PreparationAssumption

(* A page, or a list, shows each Group with the signs beside it. *)
LEMMA SeenFacts ==
  ASSUME NEW view \in Lists \cup Views, NEW signs \in [Groups -> SUBSET Signs]
  PROVE  Seen(view, signs) \in Seq(Sightings)
<1>1. view \in Seq(Groups)
  BY ListFacts
<1>2. \A n \in DOMAIN view : view[n] \in Groups
  BY <1>1
<1>3. \A n \in DOMAIN view : [group |-> view[n], signs |-> signs[view[n]]] \in Sightings
  BY <1>2 DEF Sightings
<1>4. Seen(view, signs) \in [1..Len(view) -> Sightings] /\ Len(view) \in Nat
  BY <1>1, <1>3 DEF Seen
<1> QED
  BY <1>4, SeqDef

(* A candidate has a membership; only one without any sign counts as joined. *)
LEMMA CandidateFacts ==
  ASSUME NEW seen \in Sightings
  PROVE  /\ Candidate(seen) \in Hits /\ Candidate(seen).group = seen.group
         /\ Candidate(seen).membership = "joined" => seen = [group |-> seen.group, signs |-> {}]
<1>1. seen.group \in Groups /\ seen.signs \subseteq {"join", "requested"}
      /\ seen = [group |-> seen.group, signs |-> seen.signs]
  BY DEF Sightings, Signs
<1>2. Membership(seen.signs) \in Memberships
  BY DEF Membership, Memberships
<1>3. ASSUME Membership(seen.signs) = "joined"
      PROVE  seen.signs = {}
  <2>1. "requested" \notin seen.signs /\ seen.signs # {"join"}
    BY <1>3 DEF Membership
  <2>2. seen.signs \subseteq {"join"}
    BY <1>1, <2>1
  <2> QED
    BY <2>1, <2>2
<1> QED
  BY <1>1, <1>2, <1>3 DEF Candidate, Hits

(* What confirms a Group stays. *)
LEMMA ConfirmedKept ==
  ASSUME NEW c, NEW g, Confirmed(c, g), discovery'[c] = discovery[c],
         evidence[c] \subseteq evidence'[c],
         transition[c].state = "joined" => transition'[c] = transition[c]
  PROVE  Confirmed(c, g)'
BY DEF Confirmed

(* A candidate moves from the page to the campaign. *)
LEMMA MoveFacts ==
  ASSUME NEW c, NEW list \in Seq(Hits), NEW rest \in Seq(Sightings), rest # <<>>
  PROVE  /\ Append(list, Candidate(Head(rest))) \in Seq(Hits) /\ Tail(rest) \in Seq(Sightings)
         /\ OnPage(c, rest) => OnPage(c, Tail(rest))
         /\ OnPage(c, rest) /\ TrueHits(c, list) =>
              TrueHits(c, Append(list, Candidate(Head(rest))))
<1> DEFINE new == Candidate(Head(rest))
<1>1. /\ Head(rest) \in Sightings /\ Head(rest) = rest[1] /\ Tail(rest) \in Seq(Sightings)
      /\ Len(rest) \in Nat /\ Len(rest) >= 1
      /\ Len(Tail(rest)) = Len(rest) - 1
      /\ \A n \in 1..Len(Tail(rest)) : Tail(rest)[n] = rest[n + 1]
  BY HeadTailProperties, EmptySeq
<1>0. /\ new \in Hits /\ new.group = Head(rest).group
      /\ new.membership = "joined" => Head(rest) = [group |-> Head(rest).group, signs |-> {}]
  BY <1>1, CandidateFacts
<1> HIDE DEF new
<1>2. /\ Append(list, new) \in Seq(Hits) /\ Len(list) \in Nat
      /\ Len(Append(list, new)) = Len(list) + 1
      /\ \A n \in 1..Len(list) : Append(list, new)[n] = list[n]
      /\ Append(list, new)[Len(list) + 1] = new
  BY <1>0, AppendProperties
<1>3. DOMAIN rest = 1..Len(rest) /\ DOMAIN list = 1..Len(list)
      /\ DOMAIN Tail(rest) = 1..Len(Tail(rest))
      /\ DOMAIN Append(list, new) = 1..(Len(list) + 1)
  BY <1>1, <1>2
<1>4. \A n \in 1..Len(Tail(rest)) : n + 1 \in 1..Len(rest)
  BY <1>1
<1>5. OnPage(c, rest) => OnPage(c, Tail(rest))
  BY <1>1, <1>3, <1>4 DEF OnPage
<1>6. \A n \in 1..(Len(list) + 1) : n \in 1..Len(list) \/ n = Len(list) + 1
  BY <1>2
<1>7. 1 \in DOMAIN rest
  BY <1>1, <1>3
<1>8. ASSUME OnPage(c, rest), new.membership = "joined"
      PROVE  Confirmed(c, new.group)
  <2>1. PICK m \in DOMAIN discovery[c] : discovery[c][m] = Head(rest)
    BY <1>1, <1>7, <1>8 DEF OnPage
  <2> QED
    BY <1>0, <1>8, <2>1 DEF Confirmed
<1>9. ASSUME OnPage(c, rest), TrueHits(c, list)
      PROVE  TrueHits(c, Append(list, new))
  BY <1>2, <1>3, <1>6, <1>8, <1>9 DEF TrueHits
<1> QED
  BY <1>1, <1>2, <1>5, <1>9 DEF new

(***************************************************************************)
(* What a step of one process leaves to the others.                        *)
(***************************************************************************)

(* The memory of one process. *)
Kept(q) ==
  /\ pc'[q] = pc[q] /\ method'[q] = method[q] /\ camp'[q] = camp[q]
  /\ page'[q] = page[q] /\ cand'[q] = cand[q] /\ outcome'[q] = outcome[q]
(* The rows of one campaign, but for its selection. *)
Same(c) ==
  /\ source'[c] = source[c] /\ hits'[c] = hits[c]
  /\ transition'[c] = transition[c] /\ known'[c] = known[c]
  /\ discovery'[c] = discovery[c]

(* What only grows. *)
Grows ==
  /\ \A c \in Campaigns :
       /\ source[c] # "none" => source'[c] = source[c] /\ discovery'[c] = discovery[c]
       /\ evidence[c] \subseteq evidence'[c]
       /\ transition[c].state = "joined" => transition'[c] = transition[c]
  /\ clicked \subseteq clicked'
  /\ \A c \in Campaigns : transition[c] # NoTransition =>
       transition'[c] # NoTransition /\ transition'[c].group = transition[c].group

(* A step writes the rows of its own campaign, and only while it works on it. *)
Frame(p) ==
  /\ \A q \in Procs : q # p => Kept(q)
  /\ \A c \in Campaigns : (c # camp[p] \/ pc[p] \notin Working) => Same(c)
  /\ \A c \in Campaigns : c # camp[p] => selected'[c] = selected[c]
  /\ Grows

(* Whoever comes to work on a campaign did so before, or finds nobody there. *)
WorkKept(p) ==
  pc'[p] \in Working =>
    \/ pc[p] \in Working /\ camp'[p] = camp[p]
    \/ \A q \in Procs : camp[q] # camp'[p]

(* What each step of a process does. *)
Sound(p) == Frame(p) /\ WorkKept(p) /\ Typed' /\ Local(p)' /\ Rows'

(* A step that reads, or stores a page, keeps the rows sound. *)
LEMMA QuietRows ==
  ASSUME Rows, UNCHANGED <<source, hits, transition, selected, clicked, known>>,
         \A c \in Campaigns : /\ evidence[c] \subseteq evidence'[c]
                              /\ source[c] # "none" => discovery'[c] = discovery[c]
  PROVE  Rows'
<1>1. ASSUME NEW c \in Campaigns, source[c] = "live", NEW g, Confirmed(c, g)
      PROVE  Confirmed(c, g)'
  BY <1>1, ConfirmedKept
<1>2. CampaignsTrue'
  BY <1>1 DEF Rows, CampaignsTrue, TrueHits
<1>3. SelectedOnEvidence'
  BY <1>1 DEF Rows, SelectedOnEvidence
<1> QED
  BY <1>2, <1>3 DEF Rows, Bare, KnownApart, ActionsAccountedFor

(* The candidate a process resolves is a Group. *)
LEMMA HitFacts ==
  ASSUME TypeOK, NEW c \in Campaigns, NEW n \in DOMAIN hits[c]
  PROVE  /\ hits[c][n] \in Hits /\ hits[c][n].group \in Groups
         /\ hits[c][n].membership \in Memberships /\ hits[c] # <<>>
<1>1. hits[c] \in Seq(Hits)
  BY DEF TypeOK, Hits
<1>2. hits[c][n] \in Hits
  BY <1>1
<1>3. hits[c] # <<>>
  BY <1>1, EmptySeq
<1> QED
  BY <1>2, <1>3 DEF Hits

(* The memory of a process that ends is that of one that has not begun. *)
LEMMA ExitFacts ==
  ASSUME Typed, NEW p \in Procs, Exit(p)
  PROVE  /\ pc' \in [Procs -> Steps] /\ method' \in [Procs -> Methods]
         /\ camp' \in [Procs -> Campaigns \cup {Nothing}]
         /\ cand' \in [Procs -> Groups \cup {Nothing}]
         /\ outcome' \in [Procs -> Outcomes]
         /\ \A q \in Procs : pc'[q] # "idle" => camp'[q] \in Campaigns
         /\ MemoryOK'
         /\ pc'[p] = "idle" /\ \A q \in Procs : q # p => Kept(q)
<1>1. <<>> \in Seq(Sightings)
  BY EmptySeq
<1>2. page' \in [Procs -> Seq(Sightings)]
  BY <1>1 DEF Typed, MemoryOK, Exit
<1> QED
  BY <1>2 DEF Typed, TypeOK, MemoryOK, Exit, Goto, Steps, Methods, Outcomes, Kept

(* A confirmed Join unlocks the candidate; other hits stay as they are. *)
LEMMA UnlockFacts ==
  ASSUME TypeOK, NEW p \in Procs, NEW k \in Campaigns, k = camp[p], CompleteJoin(p),
         transition[k].group = cand[p],
         outcome[p] = "joined" => "confirmation" \in evidence[k]
  PROVE  /\ hits' \in [Campaigns -> Seq(Hits)]
         /\ \A c \in Campaigns : c # k => hits'[c] = hits[c]
         /\ TrueHits(k, hits[k]) => TrueHits(k, hits[k])'
<1> DEFINE list == hits[k]
           changed(n) == IF list[n].group = cand[p] /\ outcome[p] = "joined"
                         THEN [list[n] EXCEPT !.membership = "joined"] ELSE list[n]
           unlocked == [n \in DOMAIN list |-> changed(n)]
<1>1. hits' = [hits EXCEPT ![k] = unlocked]
  BY DEF CompleteJoin, Unlocks
<1>2. list \in Seq(Hits) /\ hits \in [Campaigns -> Seq(Hits)]
  BY DEF TypeOK, Hits
<1>3. \A n \in DOMAIN list : list[n] \in Hits
  BY <1>2
<1>4. ASSUME NEW n \in DOMAIN list
      PROVE  /\ changed(n) \in Hits /\ changed(n).group = list[n].group
             /\ changed(n).membership = "joined" =>
                  \/ list[n].membership = "joined"
                  \/ list[n].group = cand[p] /\ outcome[p] = "joined"
  BY <1>3 DEF Hits, Memberships
<1> HIDE DEF changed
<1>5. unlocked \in [1..Len(list) -> Hits] /\ Len(list) \in Nat
  BY <1>2, <1>4
<1>6. unlocked \in Seq(Hits)
  BY <1>5, SeqDef
<1>7. /\ transition[k].state = "planned" /\ UNCHANGED <<discovery, evidence>>
      /\ transition' = [transition EXCEPT ![k].state = outcome[p]]
  BY DEF CompleteJoin
<1>8. ASSUME NEW g, Confirmed(k, g)
      PROVE  Confirmed(k, g)'
  BY <1>7, <1>8, ConfirmedKept
<1>9. ASSUME outcome[p] = "joined", NEW g, g = cand[p]
      PROVE  Confirmed(k, g)'
  <2>1. transition[k] \in [group : Groups, state : Outcomes \cup {"planned"}]
    BY <1>7 DEF TypeOK, NoTransition
  <2>2. transition'[k] = [group |-> g, state |-> "joined"]
    BY <1>7, <1>9, <2>1 DEF TypeOK
  <2> QED
    BY <1>7, <1>9, <2>2 DEF Confirmed
<1>10. hits'[k] = unlocked /\ DOMAIN unlocked = DOMAIN list
       /\ \A n \in DOMAIN list : unlocked[n] = changed(n)
  BY <1>1, <1>2
<1> HIDE DEF unlocked
<1>11. ASSUME TrueHits(k, list)
       PROVE  TrueHits(k, hits[k])'
  <2>1. ASSUME NEW n \in DOMAIN list, changed(n).membership = "joined",
               NEW g, g = changed(n).group
        PROVE  Confirmed(k, g)'
    <3>1. CASE list[n].membership = "joined"
      BY <1>4, <1>8, <1>11, <2>1, <3>1 DEF TrueHits
    <3> QED
      BY <1>4, <1>9, <2>1, <3>1
  <2> QED
    BY <1>10, <2>1 DEF TrueHits, Confirmed
<1> QED
  BY <1>1, <1>2, <1>6, <1>11

(* What a process holds for joined stays so, whatever others do. *)
LEMMA MemoryGrows ==
  ASSUME Grows, NEW q \in Procs, camp[q] \in Campaigns, TrueMemory(q), Progress(q), Kept(q),
         pc[q] \in {"campaign", "hits"} => Same(camp[q])
  PROVE  TrueMemory(q)'
<1>1. ASSUME pc[q] \in {"campaign", "hits"}, method[q] # "operator"
      PROVE  OnPage(camp[q], page[q])'
  BY <1>1 DEF TrueMemory, OnPage, Same, Kept
<1>2. ASSUME pc[q] = "insert", source'[camp[q]] = "live"
      PROVE  Confirmed(camp[q], cand[q])'
  <2>1. source[camp[q]] = "live" /\ discovery'[camp[q]] = discovery[camp[q]]
    BY <1>2 DEF Progress, Grows
  <2>2. Confirmed(camp[q], cand[q])
    BY <1>2, <2>1 DEF TrueMemory
  <2>3. PICK k \in Campaigns : k = camp[q]
    OBVIOUS
  <2>4. PICK g : g = cand[q]
    OBVIOUS
  <2>5. Confirmed(k, g)'
    BY <2>1, <2>2, <2>3, <2>4, ConfirmedKept DEF Grows
  <2> QED
    BY <2>3, <2>4, <2>5 DEF Confirmed, Kept
<1> QED
  BY <1>1, <1>2 DEF TrueMemory, Kept

(* What confirms a Group of a live campaign stays, in any step that only grows. *)
LEMMA EvidenceGrows ==
  ASSUME Grows, NEW c \in Campaigns, source[c] # "none", NEW g, Confirmed(c, g)
  PROVE  Confirmed(c, g)'
BY ConfirmedKept DEF Grows

(* So the targets selected before stay confirmed. *)
LEMMA SelectedKept ==
  ASSUME Grows, SelectedOnEvidence, UNCHANGED selected,
         \A c \in Campaigns : source'[c] = "live" => source[c] = "live" \/ selected[c] = Nothing
  PROVE  SelectedOnEvidence'
<1> SUFFICES ASSUME NEW c \in Campaigns, source'[c] = "live", selected[c] # Nothing
             PROVE  Confirmed(c, selected[c])'
  BY DEF SelectedOnEvidence
<1>1. source[c] = "live" /\ Confirmed(c, selected[c])
  BY DEF SelectedOnEvidence
<1>2. PICK g : g = selected[c]
  OBVIOUS
<1>3. Confirmed(c, g)'
  BY <1>1, <1>2, EvidenceGrows
<1> QED
  BY <1>2, <1>3

(* And so do the joined candidates of the campaigns a step leaves alone. *)
LEMMA TrueKept ==
  ASSUME Grows, CampaignsTrue,
         \A c \in Campaigns : source'[c] = "live" =>
           (source[c] = "live" /\ hits'[c] = hits[c]) \/ TrueHits(c, hits[c])'
  PROVE  CampaignsTrue'
<1> SUFFICES ASSUME NEW c \in Campaigns, source[c] = "live", source'[c] = "live",
                    hits'[c] = hits[c], NEW n \in DOMAIN hits[c],
                    hits[c][n].membership = "joined"
             PROVE  Confirmed(c, hits[c][n].group)'
  BY DEF CampaignsTrue, TrueHits
<1>1. Confirmed(c, hits[c][n].group)
  BY DEF CampaignsTrue, TrueHits
<1>2. PICK g : g = hits[c][n].group
  OBVIOUS
<1>3. Confirmed(c, g)'
  BY <1>1, <1>2, EvidenceGrows
<1> QED
  BY <1>2, <1>3

(* ListTargets: a list begins a campaign nobody works on. *)
LEMMA ListTargetsStep ==
  ASSUME IInv, NEW p \in Procs, NEW c \in Campaigns, NEW list \in Lists, ListTargets(p, c, list)
  PROVE  Sound(p)
<1>0. /\ pc[p] = "idle" /\ source[c] = "none" /\ \A q \in Procs : camp[q] # c
      /\ pc' = [pc EXCEPT ![p] = "campaign"] /\ camp' = [camp EXCEPT ![p] = c]
      /\ method' = [method EXCEPT ![p] = "operator"]
      /\ \E seen \in Seq(Sightings) : page' = [page EXCEPT ![p] = seen]
      /\ UNCHANGED <<source, hits, transition, selected, evidence, discovery, clicked,
                     known, cand, outcome>>
  <2>1. [g \in Groups |-> {}] \in [Groups -> SUBSET Signs]
    OBVIOUS
  <2>2. Seen(list, [g \in Groups |-> {}]) \in Seq(Sightings)
    BY <2>1, SeenFacts
  <2> QED
    BY <2>2 DEF ListTargets, Fresh, Goto, database, history
<1>1. Frame(p)
  BY <1>0 DEF IInv, Typed, TypeOK, MemoryOK, Frame, Kept, Same, Grows, Working,
     Building, Acting
<1>2. WorkKept(p)
  BY <1>0 DEF IInv, Typed, TypeOK, WorkKept, Working, Building, Acting
<1>3. Typed'
  BY <1>0 DEF IInv, Typed, TypeOK, MemoryOK, Building, Steps, Methods
<1>4. Local(p)'
  <2>1. /\ pc'[p] = "campaign" /\ camp'[p] = c /\ method'[p] = "operator"
        /\ source' = source
    BY <1>0 DEF IInv, Typed, TypeOK
  <2> QED
    BY <1>0, <2>1 DEF Local, Progress, Reserves, Evident, TrueMemory, Building, Acting
<1>5. Rows'
  BY <1>0, QuietRows DEF IInv
<1> QED
  BY <1>1, <1>2, <1>3, <1>4, <1>5 DEF Sound

(* Discover: so does a discovery, with what the site shows. *)
LEMMA DiscoverStep ==
  ASSUME IInv, NEW p \in Procs, NEW c \in Campaigns, NEW view \in Views,
         NEW signs \in [Groups -> SUBSET Signs], NEW how \in Methods \ {"operator"},
         Discover(p, c, view, signs, how)
  PROVE  Sound(p)
<1>0. /\ pc[p] = "idle" /\ source[c] = "none" /\ \A q \in Procs : camp[q] # c
      /\ pc' = [pc EXCEPT ![p] = "store"] /\ camp' = [camp EXCEPT ![p] = c]
      /\ method' = [method EXCEPT ![p] = how]
      /\ \E seen \in Seq(Sightings) : page' = [page EXCEPT ![p] = seen]
      /\ UNCHANGED <<source, hits, transition, selected, evidence, discovery, clicked,
                     known, cand, outcome>>
  BY SeenFacts DEF Discover, Fresh, Goto, database, history
<1>1. Frame(p)
  BY <1>0 DEF IInv, Typed, TypeOK, MemoryOK, Frame, Kept, Same, Grows, Working,
     Building, Acting
<1>2. WorkKept(p)
  BY <1>0 DEF IInv, Typed, TypeOK, WorkKept, Working, Building, Acting
<1>3. Typed'
  BY <1>0 DEF IInv, Typed, TypeOK, MemoryOK, Building, Steps, Methods
<1>4. Local(p)'
  <2>1. pc'[p] = "store" /\ camp'[p] = c /\ source' = source
    BY <1>0 DEF IInv, Typed, TypeOK
  <2> QED
    BY <1>0, <2>1 DEF Local, Progress, Reserves, Evident, TrueMemory, Building, Acting
<1>5. Rows'
  BY <1>0, QuietRows DEF IInv
<1> QED
  BY <1>1, <1>2, <1>3, <1>4, <1>5 DEF Sound

(* StoreDiscovery: the discovery page is stored. *)
LEMMA StoreDiscoveryStep ==
  ASSUME IInv, NEW p \in Procs, StoreDiscovery(p)
  PROVE  Sound(p)
<1>0. /\ pc[p] = "store" /\ camp[p] \in Campaigns /\ pc' = [pc EXCEPT ![p] = "campaign"]
      /\ page[p] \in Seq(Sightings) /\ source[camp[p]] = "none"
      /\ discovery' = [discovery EXCEPT ![camp[p]] = page[p]]
      /\ UNCHANGED <<source, hits, transition, selected, evidence, clicked, known, method,
                     camp, page, cand, outcome>>
  BY DEF IInv, Typed, TypeOK, MemoryOK, Local, Progress, StoreDiscovery, Goto, history, memory
<1>1. Frame(p)
  BY <1>0 DEF IInv, Typed, TypeOK, MemoryOK, Frame, Kept, Same, Grows, Working,
     Building, Acting
<1>2. WorkKept(p)
  BY <1>0 DEF IInv, Typed, TypeOK, WorkKept, Working, Building, Acting
<1>3. Typed'
  BY <1>0 DEF IInv, Typed, TypeOK, MemoryOK, Building, Steps
<1>4. Local(p)'
  <2>1. pc'[p] = "campaign" /\ discovery'[camp[p]] = page[p]
    BY <1>0 DEF IInv, Typed, TypeOK
  <2>2. Local(p)
    BY DEF IInv
  <2>3. OnPage(camp[p], page[p])'
    BY <1>0, <2>1 DEF OnPage
  <2> QED
    BY <1>0, <2>1, <2>2, <2>3 DEF Local, Progress, Reserves, Evident, TrueMemory, Acting
<1>5. Rows'
  BY <1>0, QuietRows DEF IInv, Typed, TypeOK
<1> QED
  BY <1>1, <1>2, <1>3, <1>4, <1>5 DEF Sound

(* CreateCampaign: the campaign gets its row; it had nothing before. *)
LEMMA CreateCampaignStep ==
  ASSUME IInv, NEW p \in Procs, CreateCampaign(p)
  PROVE  Sound(p)
<1>0. source[camp[p]] = "none" /\ camp[p] \in Campaigns /\ pc[p] = "campaign"
  BY DEF IInv, Typed, TypeOK, Local, Progress, CreateCampaign
<1>a. /\ pc' = [pc EXCEPT ![p] = "hits"]
      /\ \E kind \in {"operator", "live"} : source' = [source EXCEPT ![camp[p]] = kind]
      /\ UNCHANGED <<hits, transition, selected, evidence, discovery, clicked, known,
                     method, camp, page, cand, outcome>>
  BY DEF CreateCampaign, Goto, history, memory
<1>1. Frame(p)
  BY <1>0, <1>a DEF IInv, Typed, TypeOK, MemoryOK, Frame, Kept, Same, Grows, Working,
     Building, Acting
<1>2. WorkKept(p)
  BY <1>0, <1>a DEF IInv, Typed, TypeOK, WorkKept, Working, Building, Acting
<1>3. Typed'
  <2>1. source' \in [Campaigns -> {"none", "operator", "live"}]
    BY <1>a DEF IInv, Typed, TypeOK
  <2> QED
    BY <1>0, <1>a, <2>1 DEF IInv, Typed, TypeOK, MemoryOK, Building, Steps
<1>4. Local(p)'
  <2>1. /\ pc'[p] = "hits" /\ UNCHANGED <<camp, page, method, transition, discovery>>
        /\ source'[camp[p]] = IF method[p] = "operator" THEN "operator" ELSE "live"
    BY <1>0 DEF IInv, Typed, TypeOK, CreateCampaign, Goto, memory
  <2>2. transition[camp[p]] = NoTransition
    BY <1>0 DEF IInv, Rows, Bare
  <2>3. method[p] # "operator" => OnPage(camp[p], page[p])
    BY <1>0 DEF IInv, Local, TrueMemory
  <2>4. OnPage(camp[p], page[p])' <=> OnPage(camp[p], page[p])
    BY <2>1 DEF OnPage
  <2> QED
    BY <2>1, <2>2, <2>3, <2>4 DEF Local, Progress, Reserves, Evident, TrueMemory, Acting
<1>5. Rows'
  <2>1. /\ UNCHANGED <<hits, transition, selected, evidence, discovery, clicked, known>>
        /\ \A c \in Campaigns : c # camp[p] => source'[c] = source[c]
        /\ source'[camp[p]] # "none"
    BY <1>0 DEF IInv, Typed, TypeOK, CreateCampaign, history
  <2>2. hits[camp[p]] = <<>> /\ selected[camp[p]] = Nothing
    BY <1>0 DEF IInv, Rows, Bare
  <2>3. \A c \in Campaigns : hits[c] = <<>> => TrueHits(c, hits[c])'
    BY <2>1 DEF TrueHits
  <2>4. Bare' /\ KnownApart' /\ ActionsAccountedFor'
    BY <2>1 DEF IInv, Rows, Bare, KnownApart, ActionsAccountedFor
  <2>5. CampaignsTrue'
    BY <1>1, <2>1, <2>2, <2>3, TrueKept DEF IInv, Rows, Frame
  <2>6. SelectedOnEvidence'
    BY <1>1, <2>1, <2>2, SelectedKept DEF IInv, Rows, Frame
  <2> QED
    BY <2>4, <2>5, <2>6 DEF Rows
<1> QED
  BY <1>1, <1>2, <1>3, <1>4, <1>5 DEF Sound

(* AddCandidate: a candidate is stored; a true page leaves a true campaign. *)
LEMMA AddCandidateStep ==
  ASSUME IInv, NEW p \in Procs, AddCandidate(p)
  PROVE  Sound(p)
<1>0. /\ pc[p] = "hits" /\ pc' = pc /\ page[p] # <<>> /\ page[p] \in Seq(Sightings)
      /\ camp[p] \in Campaigns /\ hits[camp[p]] \in Seq(Hits)
      /\ source[camp[p]] # "none"
      /\ method[p] # "operator" => OnPage(camp[p], page[p])
      /\ source[camp[p]] = "live" => method[p] # "operator" /\ TrueHits(camp[p], hits[camp[p]])
  BY DEF IInv, Typed, TypeOK, MemoryOK, Local, Progress, TrueMemory, Rows,
     CampaignsTrue, Hits, AddCandidate
<1> DEFINE more == Append(hits[camp[p]], Candidate(Head(page[p])))
<1>a. /\ page' = [page EXCEPT ![p] = Tail(page[p])]
      /\ hits' = [hits EXCEPT ![camp[p]] = more]
      /\ UNCHANGED <<source, transition, selected, evidence, discovery, clicked, known,
                     method, camp, cand, outcome>>
  BY DEF AddCandidate, history
<1>b. /\ more \in Seq(Hits) /\ Tail(page[p]) \in Seq(Sightings)
      /\ OnPage(camp[p], page[p]) => OnPage(camp[p], Tail(page[p]))
      /\ OnPage(camp[p], page[p]) /\ TrueHits(camp[p], hits[camp[p]]) => TrueHits(camp[p], more)
  BY <1>0, MoveFacts
<1> HIDE DEF more
<1>1. Frame(p)
  BY <1>0, <1>a DEF IInv, Typed, TypeOK, MemoryOK, Frame, Kept, Same, Grows, Working,
     Building, Acting
<1>2. WorkKept(p)
  BY <1>0, <1>a DEF IInv, Typed, TypeOK, WorkKept, Working, Building, Acting
<1>3. Typed'
  <2>1. page' \in [Procs -> Seq(Sightings)] /\ hits' \in [Campaigns -> Seq(Hits)]
    BY <1>0, <1>a, <1>b DEF IInv, Typed, TypeOK, MemoryOK, Hits
  <2> QED
    BY <1>0, <1>a, <2>1 DEF IInv, Typed, TypeOK, MemoryOK, Hits
<1>4. Local(p)'
  <2>1. page'[p] = Tail(page[p]) /\ UNCHANGED <<camp, discovery>>
    BY <1>a DEF IInv, Typed, MemoryOK
  <2>2. OnPage(camp[p], Tail(page[p])) => OnPage(camp[p], page[p])'
    BY <2>1 DEF OnPage
  <2>3. Local(p)
    BY DEF IInv
  <2> QED
    BY <1>0, <1>a, <1>b, <2>2, <2>3 DEF Local, Progress, Reserves, Evident, TrueMemory,
       Acting
<1>5. Rows'
  <2>1. /\ \A c \in Campaigns : c # camp[p] => hits'[c] = hits[c]
        /\ hits'[camp[p]] = more
    BY <1>0, <1>a DEF IInv, Typed, TypeOK
  <2>2. PICK k \in Campaigns : k = camp[p]
    BY <1>0
  <2>3. source[k] = "live" => TrueHits(k, hits[k])'
    <3>1. source[k] = "live" => TrueHits(k, more)
      BY <1>0, <1>b, <2>2
    <3> QED
      BY <1>a, <2>1, <2>2, <3>1 DEF TrueHits, Confirmed
  <2>4. CampaignsTrue'
    BY <1>1, <1>a, <2>1, <2>2, <2>3, TrueKept DEF IInv, Rows, Frame
  <2>5. SelectedOnEvidence'
    BY <1>1, <1>a, SelectedKept DEF IInv, Rows, Frame
  <2>6. Bare' /\ KnownApart' /\ ActionsAccountedFor'
    BY <1>0, <1>a, <2>1 DEF IInv, Rows, Bare, KnownApart, ActionsAccountedFor
  <2> QED
    BY <2>4, <2>5, <2>6 DEF Rows
<1> QED
  BY <1>1, <1>2, <1>3, <1>4, <1>5 DEF Sound

(* ChooseJoined: a joined candidate is resolved. *)
LEMMA ChooseJoinedStep ==
  ASSUME IInv, NEW p \in Procs, ChooseJoined(p)
  PROVE  Sound(p)
<1>0. PICK g \in Groups : cand' = [cand EXCEPT ![p] = g]
  BY HitFacts DEF IInv, Typed, TypeOK, ChooseJoined, Ready, Resolved, Joined
<1>a. /\ pc[p] = "hits" /\ pc' = [pc EXCEPT ![p] = "select"]
      /\ UNCHANGED <<source, hits, transition, selected, evidence, discovery, clicked,
                     known, method, camp, page, outcome>>
  BY DEF ChooseJoined, Ready, Goto, database, history
<1>1. Frame(p)
  BY <1>0, <1>a DEF IInv, Typed, TypeOK, MemoryOK, Frame, Kept, Same, Grows, Working,
     Building, Acting
<1>2. WorkKept(p)
  BY <1>0, <1>a DEF IInv, Typed, TypeOK, WorkKept, Working, Building, Acting
<1>3. Typed'
  BY <1>0, <1>a DEF IInv, Typed, TypeOK, MemoryOK, Building, Steps
<1>4. Local(p)'
  <2>1. pc'[p] = "select"
    BY <1>0, <1>a DEF IInv, Typed, TypeOK, MemoryOK
  <2>2. Local(p)
    BY DEF IInv
  <2> QED
    BY <1>0, <1>a, <2>1, <2>2 DEF Local, Progress, Reserves, Evident, TrueMemory,
       TrueHits, Building, Acting
<1>5. Rows'
  BY <1>0, <1>a, QuietRows DEF IInv, Typed, TypeOK
<1> QED
  BY <1>1, <1>2, <1>3, <1>4, <1>5 DEF Sound

(* ChooseJoinable: the reservations are read; the Group chosen is none of them. *)
LEMMA ChooseJoinableStep ==
  ASSUME IInv, NEW p \in Procs, ChooseJoinable(p)
  PROVE  Sound(p)
<1>0. PICK g \in Groups : cand' = [cand EXCEPT ![p] = g] /\ GuardAllows(g)
  BY HitFacts DEF IInv, Typed, TypeOK, ChooseJoinable, Ready, Joinable
<1>a. /\ pc[p] = "hits" /\ pc' = [pc EXCEPT ![p] = "plan"] /\ camp[p] \in Campaigns
      /\ known' = [known EXCEPT ![camp[p]] = Reserved]
      /\ UNCHANGED <<source, hits, transition, selected, evidence, discovery, clicked,
                     method, camp, page, outcome>>
  BY DEF IInv, Typed, TypeOK, ChooseJoinable, Ready, Goto, database
<1>b. \A d \in Reserved :
        d \in Campaigns /\ transition[d] # NoTransition /\ transition[d].group # g
  BY <1>0 DEF GuardAllows, Attempted, Reserved
<1>c. /\ \A c \in Campaigns : known'[c] = IF c = camp[p] THEN Reserved ELSE known[c]
      /\ transition[camp[p]] = NoTransition /\ source[camp[p]] # "none"
  BY <1>a DEF IInv, Typed, TypeOK, Local, Progress
<1>1. Frame(p)
  BY <1>0, <1>a, <1>c DEF IInv, Typed, TypeOK, MemoryOK, Frame, Kept, Same, Grows,
     Working, Building, Acting
<1>2. WorkKept(p)
  BY <1>a DEF IInv, Typed, TypeOK, WorkKept, Working, Building
<1>3. Typed'
  BY <1>0, <1>a, <1>b DEF IInv, Typed, TypeOK, MemoryOK, Building, Steps
<1>4. Local(p)'
  BY <1>0, <1>a, <1>b, <1>c DEF IInv, Typed, TypeOK, Local, Progress, Reserves,
     Evident, TrueMemory, Building, Acting
<1>5. Rows'
  <2>1. KnownApart'
    BY <1>a, <1>b, <1>c DEF IInv, Rows, KnownApart
  <2>2. CampaignsTrue' /\ SelectedOnEvidence'
    BY <1>1, <1>a, TrueKept, SelectedKept DEF IInv, Rows, Frame
  <2> QED
    BY <1>a, <2>1, <2>2 DEF IInv, Rows, Bare, ActionsAccountedFor
<1> QED
  BY <1>1, <1>2, <1>3, <1>4, <1>5 DEF Sound

(* PlanJoin: the reservation is written; no process that read before knew it. *)
LEMMA PlanJoinStep ==
  ASSUME IInv, NEW p \in Procs, PlanJoin(p)
  PROVE  Sound(p)
<1>0. /\ pc[p] = "plan" /\ camp[p] \in Campaigns /\ cand[p] \in Groups
      /\ transition[camp[p]] = NoTransition /\ source[camp[p]] # "none"
      /\ \A d \in known[camp[p]] : transition[d].group # cand[p]
  BY DEF IInv, Typed, TypeOK, MemoryOK, Local, Progress, Reserves, PlanJoin, Building
<1>a. /\ UNCHANGED <<source, hits, selected, evidence, discovery, clicked, known>>
      /\ \A c \in Campaigns : transition'[c] =
           IF c = camp[p] THEN [group |-> cand[p], state |-> "planned"] ELSE transition[c]
  BY <1>0 DEF IInv, Typed, TypeOK, PlanJoin, history
<1>b. [group |-> cand[p], state |-> "planned"] # NoTransition
  BY <1>0, NothingFacts DEF NoTransition
<1>c. /\ pc' = [pc EXCEPT ![p] = "before"]
      /\ transition' = [transition EXCEPT ![camp[p]] = [group |-> cand[p], state |-> "planned"]]
      /\ UNCHANGED <<source, hits, selected, evidence, discovery, clicked, known, method,
                     camp, page, cand, outcome>>
  BY DEF PlanJoin, Goto, history, memory
<1>1. Frame(p)
  <2>1. Grows
    BY <1>0, <1>a, <1>b DEF Grows, NoTransition
  <2> QED
    BY <1>0, <1>a, <1>c, <2>1 DEF IInv, Typed, TypeOK, MemoryOK, Frame, Kept, Same,
       Working, Building, Acting
<1>2. WorkKept(p)
  BY <1>0, <1>b, <1>c DEF IInv, Typed, TypeOK, WorkKept, Working, Building, Acting
<1>3. Typed'
  <2>1. transition' \in [Campaigns ->
          {NoTransition} \cup [group : Groups, state : Outcomes \cup {"planned"}]]
    BY <1>0, <1>c DEF IInv, Typed, TypeOK
  <2> QED
    BY <1>0, <1>c, <2>1 DEF IInv, Typed, TypeOK, MemoryOK, Building, Steps
<1>4. Local(p)'
  <2>1. pc'[p] = "before"
    BY <1>0, <1>a, <1>c DEF IInv, Typed, TypeOK, MemoryOK
  <2>2. Local(p)
    BY DEF IInv
  <2> QED
    BY <1>0, <1>a, <1>c, <2>1, <2>2 DEF Local, Progress, Reserves, Evident, TrueMemory,
       TrueHits, Building, Acting
<1>5. Rows'
  <2>1. KnownApart'
    <3>1. \A c \in Campaigns : known[c] \subseteq Campaigns /\ camp[p] \notin known[c]
      BY <1>0 DEF IInv, Typed, TypeOK, Rows, KnownApart
    <3>2. \A c \in Campaigns : \A d \in known[c] : transition'[d] = transition[d]
      BY <1>a, <3>1
    <3> QED
      BY <1>0, <1>a, <3>2 DEF IInv, Rows, KnownApart
  <2>2. ActionsAccountedFor'
    BY <1>a, <1>b DEF IInv, Rows, ActionsAccountedFor, Outcomes
  <2>3. Bare'
    BY <1>0, <1>a DEF IInv, Rows, Bare
  <2>4. CampaignsTrue' /\ SelectedOnEvidence'
    BY <1>1, <1>a, TrueKept, SelectedKept DEF IInv, Rows, Frame
  <2> QED
    BY <2>1, <2>2, <2>3, <2>4 DEF Rows
<1> QED
  BY <1>1, <1>2, <1>3, <1>4, <1>5 DEF Sound

(* CheckpointBefore: the page before the click is stored. *)
LEMMA CheckpointBeforeStep ==
  ASSUME IInv, NEW p \in Procs, CheckpointBefore(p)
  PROVE  Sound(p)
<1>0. /\ pc[p] = "before" /\ camp[p] \in Campaigns /\ pc' = [pc EXCEPT ![p] = "click"]
      /\ evidence' = [evidence EXCEPT ![camp[p]] = @ \cup {"before"}]
      /\ UNCHANGED <<source, hits, transition, selected, discovery, clicked, known, method,
                     camp, page, cand, outcome>>
  BY DEF IInv, Typed, TypeOK, CheckpointBefore, Goto, database, history, memory, Store
<1>1. Frame(p)
  BY <1>0 DEF IInv, Typed, TypeOK, MemoryOK, Frame, Kept, Same, Grows, Working,
     Building, Acting
<1>2. WorkKept(p)
  BY <1>0 DEF IInv, Typed, TypeOK, WorkKept, Working, Building, Acting
<1>3. Typed'
  BY <1>0 DEF IInv, Typed, TypeOK, MemoryOK, Building, Steps, Evidence
<1>4. Local(p)'
  <2>1. pc'[p] = "click" /\ evidence'[camp[p]] = evidence[camp[p]] \cup {"before"}
    BY <1>0 DEF IInv, Typed, TypeOK, MemoryOK
  <2>2. Local(p)
    BY DEF IInv
  <2> QED
    BY <1>0, <2>1, <2>2 DEF Local, Progress, Reserves, Evident, TrueMemory, TrueHits,
       Building, Acting
<1>5. Rows'
  BY <1>0, QuietRows DEF IInv, Typed, TypeOK
<1> QED
  BY <1>1, <1>2, <1>3, <1>4, <1>5 DEF Sound

(* Click: the click has its reservation and its page. *)
LEMMA ClickStep ==
  ASSUME IInv, NEW p \in Procs, Click(p)
  PROVE  Sound(p)
<1>0. /\ pc[p] = "click" /\ camp[p] \in Campaigns /\ cand[p] \in Groups
      /\ pc' = [pc EXCEPT ![p] = "after"] /\ clicked' = clicked \cup {camp[p]}
      /\ UNCHANGED <<source, hits, transition, selected, evidence, discovery, known, method,
                     camp, page, cand, outcome>>
  BY DEF IInv, Typed, TypeOK, MemoryOK, Building, Click, Goto, database, memory
<1>b. /\ "before" \in evidence[camp[p]]
      /\ transition[camp[p]] = [group |-> cand[p], state |-> "planned"]
  BY <1>0 DEF IInv, Local, Evident, Progress, Acting
<1>1. Frame(p)
  BY <1>0 DEF IInv, Typed, TypeOK, MemoryOK, Frame, Kept, Same, Grows, Working,
     Building, Acting
<1>2. WorkKept(p)
  BY <1>0 DEF IInv, Typed, TypeOK, WorkKept, Working, Building, Acting
<1>3. Typed'
  BY <1>0 DEF IInv, Typed, TypeOK, MemoryOK, Building, Steps
<1>4. Local(p)'
  <2>1. pc'[p] = "after" /\ camp[p] \in clicked'
    BY <1>0 DEF IInv, Typed, TypeOK, MemoryOK
  <2>2. Local(p)
    BY DEF IInv
  <2> QED
    BY <1>0, <2>1, <2>2 DEF Local, Progress, Reserves, Evident, TrueMemory, Acting
<1>5. Rows'
  <2>1. ActionsAccountedFor'
    <3>1. transition[camp[p]] # NoTransition
      BY <1>b, <1>0, NothingFacts DEF NoTransition
    <3> QED
      BY <1>0, <1>b, <3>1 DEF IInv, Rows, ActionsAccountedFor
  <2>2. CampaignsTrue' /\ SelectedOnEvidence'
    BY <1>1, <1>0, TrueKept, SelectedKept DEF IInv, Rows, Frame
  <2> QED
    BY <1>0, <2>1, <2>2 DEF IInv, Rows, Bare, KnownApart
<1> QED
  BY <1>1, <1>2, <1>3, <1>4, <1>5 DEF Sound

(* ReadOutcome: an outcome follows from what the page shows. *)
LEMMA ReadOutcomeStep ==
  ASSUME IInv, NEW p \in Procs, ReadOutcome(p)
  PROVE  Sound(p)
<1>0. PICK signs \in SUBSET Signs : outcome' = [outcome EXCEPT ![p] = Outcome(signs)]
  BY DEF ReadOutcome
<1>a. /\ pc[p] = "after" /\ camp[p] \in Campaigns /\ pc' = [pc EXCEPT ![p] = "confirm"]
      /\ UNCHANGED <<source, hits, transition, selected, evidence, discovery, clicked,
                     known, method, camp, page, cand>>
      /\ Outcome(signs) \in Outcomes
  BY DEF IInv, Typed, TypeOK, ReadOutcome, Goto, database, history, Outcome, Outcomes
<1>1. Frame(p)
  BY <1>0, <1>a DEF IInv, Typed, TypeOK, MemoryOK, Frame, Kept, Same, Grows, Working,
     Building, Acting
<1>2. WorkKept(p)
  BY <1>0, <1>a DEF IInv, Typed, TypeOK, WorkKept, Working, Building, Acting
<1>3. Typed'
  BY <1>0, <1>a DEF IInv, Typed, TypeOK, MemoryOK, Building, Steps
<1>4. Local(p)'
  <2>1. pc'[p] = "confirm"
    BY <1>0, <1>a DEF IInv, Typed, TypeOK, MemoryOK
  <2>2. Local(p)
    BY DEF IInv
  <2> QED
    BY <1>0, <1>a, <2>1, <2>2 DEF Local, Progress, Reserves, Evident, TrueMemory,
       TrueHits, Building, Acting
<1>5. Rows'
  BY <1>0, <1>a, QuietRows DEF IInv, Typed, TypeOK
<1> QED
  BY <1>1, <1>2, <1>3, <1>4, <1>5 DEF Sound

(* StoreConfirmation: the page after the click is stored. *)
LEMMA StoreConfirmationStep ==
  ASSUME IInv, NEW p \in Procs, StoreConfirmation(p)
  PROVE  Sound(p)
<1>0. /\ pc[p] = "confirm" /\ camp[p] \in Campaigns /\ pc' = [pc EXCEPT ![p] = "complete"]
      /\ evidence' = [evidence EXCEPT ![camp[p]] = @ \cup {"confirmation"}]
      /\ UNCHANGED <<source, hits, transition, selected, discovery, clicked, known, method,
                     camp, page, cand, outcome>>
  BY DEF IInv, Typed, TypeOK, StoreConfirmation, Goto, database, history, memory, Store
<1>1. Frame(p)
  BY <1>0 DEF IInv, Typed, TypeOK, MemoryOK, Frame, Kept, Same, Grows, Working,
     Building, Acting
<1>2. WorkKept(p)
  BY <1>0 DEF IInv, Typed, TypeOK, WorkKept, Working, Building, Acting
<1>3. Typed'
  BY <1>0 DEF IInv, Typed, TypeOK, MemoryOK, Building, Steps, Evidence
<1>4. Local(p)'
  <2>1. pc'[p] = "complete" /\ evidence'[camp[p]] = evidence[camp[p]] \cup {"confirmation"}
    BY <1>0 DEF IInv, Typed, TypeOK, MemoryOK
  <2>2. Local(p)
    BY DEF IInv
  <2> QED
    BY <1>0, <2>1, <2>2 DEF Local, Progress, Reserves, Evident, TrueMemory, TrueHits,
       Building, Acting
<1>5. Rows'
  BY <1>0, QuietRows DEF IInv, Typed, TypeOK
<1> QED
  BY <1>1, <1>2, <1>3, <1>4, <1>5 DEF Sound

(* StopJoin: a stop needs no evidence. *)
LEMMA StopJoinStep ==
  ASSUME IInv, NEW p \in Procs, StopJoin(p)
  PROVE  Sound(p)
<1>0. /\ pc[p] \in {"before", "click", "after"} /\ camp[p] \in Campaigns
      /\ pc' = [pc EXCEPT ![p] = "complete"]
      /\ outcome' = [outcome EXCEPT ![p] = "stopped"]
      /\ UNCHANGED <<source, hits, transition, selected, evidence, discovery, clicked,
                     known, method, camp, page, cand>>
  BY DEF IInv, Typed, TypeOK, StopJoin, Goto, database, history, memory
<1>1. Frame(p)
  BY <1>0 DEF IInv, Typed, TypeOK, MemoryOK, Frame, Kept, Same, Grows, Working,
     Building, Acting
<1>2. WorkKept(p)
  BY <1>0 DEF IInv, Typed, TypeOK, WorkKept, Working, Building, Acting
<1>3. Typed'
  BY <1>0 DEF IInv, Typed, TypeOK, MemoryOK, Building, Steps, Outcomes
<1>4. Local(p)'
  <2>1. pc'[p] = "complete" /\ outcome'[p] = "stopped"
    BY <1>0 DEF IInv, Typed, TypeOK, MemoryOK
  <2>2. Local(p)
    BY DEF IInv
  <2> QED
    BY <1>0, <2>1, <2>2 DEF Local, Progress, Reserves, Evident, TrueMemory, TrueHits,
       Building, Acting
<1>5. Rows'
  BY <1>0, QuietRows DEF IInv, Typed, TypeOK
<1> QED
  BY <1>1, <1>2, <1>3, <1>4, <1>5 DEF Sound

(* CompleteJoin: the reservation keeps its Group; only a confirmed candidate is unlocked. *)
LEMMA CompleteJoinStep ==
  ASSUME IInv, NEW p \in Procs, CompleteJoin(p)
  PROVE  Sound(p)
<1>0. /\ pc[p] = "complete" /\ camp[p] \in Campaigns /\ cand[p] \in Groups
      /\ transition[camp[p]] = [group |-> cand[p], state |-> "planned"]
      /\ outcome[p] \in Outcomes
      /\ outcome[p] # "stopped" => camp[p] \in clicked /\ "confirmation" \in evidence[camp[p]]
      /\ source[camp[p]] # "none"
  BY DEF IInv, Typed, TypeOK, MemoryOK, Local, Progress, TrueMemory, Evident, Building,
     Acting, CompleteJoin
<1>a. /\ UNCHANGED <<source, selected, evidence, discovery, clicked, known>>
      /\ \A c \in Campaigns : transition'[c] =
           IF c = camp[p] THEN [group |-> cand[p], state |-> outcome[p]] ELSE transition[c]
      /\ transition' \in [Campaigns ->
           {NoTransition} \cup [group : Groups, state : Outcomes \cup {"planned"}]]
  BY <1>0 DEF IInv, Typed, TypeOK, CompleteJoin, history
<1>b. \/ Exit(p)
      \/ pc' = [pc EXCEPT ![p] = "select"] /\ UNCHANGED <<method, camp, page, cand,
                                                          outcome>>
  BY DEF CompleteJoin, Goto, memory
<1>c. [group |-> cand[p], state |-> outcome[p]] # NoTransition
  BY <1>0, NothingFacts DEF NoTransition
<1>d. /\ hits' \in [Campaigns -> Seq(Hits)]
      /\ \A c \in Campaigns : c # camp[p] => hits'[c] = hits[c]
      /\ \A k \in Campaigns : k = camp[p] => (TrueHits(k, hits[k]) => TrueHits(k, hits[k])')
  BY <1>0, UnlockFacts DEF IInv, Typed
<1>1. Frame(p)
  <2>1. \A q \in Procs : q # p => Kept(q)
    BY <1>b, ExitFacts DEF IInv, Typed, TypeOK, MemoryOK, Kept
  <2>2. Grows
    BY <1>0, <1>a, <1>c DEF Grows
  <2> QED
    BY <1>0, <1>a, <1>d, <2>1, <2>2 DEF Frame, Same, Working, Acting
<1>2. WorkKept(p)
  BY <1>0, <1>b, ExitFacts DEF IInv, Typed, TypeOK, WorkKept, Working, Building, Acting
<1>3. Typed'
  <2>1. CASE Exit(p)
    BY <1>a, <1>d, <2>1, ExitFacts DEF IInv, Typed, TypeOK, Hits
  <2>2. CASE pc' = [pc EXCEPT ![p] = "select"] /\ UNCHANGED <<method, camp, page, cand,
                                                              outcome>>
    BY <1>0, <1>a, <1>d, <2>2 DEF IInv, Typed, TypeOK, MemoryOK, Building, Steps, Hits
  <2> QED
    BY <1>b, <2>1, <2>2
<1>4. Local(p)'
  <2>1. CASE Exit(p)
    BY <2>1, ExitFacts DEF IInv, Local, Progress, Reserves, Evident, TrueMemory,
       Building, Acting
  <2>2. CASE pc' = [pc EXCEPT ![p] = "select"] /\ UNCHANGED <<method, camp, page, cand,
                                                              outcome>>
    BY <1>0, <1>a, <2>2 DEF IInv, Typed, TypeOK, Local, Progress, Reserves, Evident,
       TrueMemory, Building, Acting
  <2> QED
    BY <1>b, <2>1, <2>2
<1>5. Rows'
  <2>1. KnownApart'
    <3>1. \A c \in Campaigns : known[c] \subseteq Campaigns
      BY DEF IInv, Typed, TypeOK
    <3>2. transition[camp[p]].group = cand[p] /\ transition[camp[p]] # NoTransition
      BY <1>0, NothingFacts DEF NoTransition
    <3>3. ASSUME NEW c \in Campaigns
          PROVE  /\ transition'[c].group = transition[c].group
                 /\ transition'[c] = NoTransition => transition[c] = NoTransition
                 /\ transition[c] = NoTransition => transition'[c] = NoTransition
      <4>1. CASE c = camp[p]
        BY <1>a, <1>c, <3>2, <4>1
      <4>2. CASE c # camp[p]
        BY <1>a, <4>2
      <4> QED
        BY <4>1, <4>2
    <3>4. SUFFICES ASSUME NEW c \in Campaigns, NEW d \in known[c]
                   PROVE  /\ transition'[d] # NoTransition
                          /\ transition'[c] # NoTransition =>
                               transition'[d].group # transition'[c].group
      BY <1>a DEF KnownApart
    <3>5. /\ transition[d] # NoTransition
          /\ transition[c] # NoTransition => transition[d].group # transition[c].group
      BY DEF IInv, Rows, KnownApart
    <3> QED
      BY <3>1, <3>3, <3>5
  <2>2. ActionsAccountedFor'
    BY <1>0, <1>a, <1>c DEF IInv, Rows, ActionsAccountedFor, NoTransition
  <2>3. Bare'
    BY <1>0, <1>a, <1>d DEF IInv, Rows, Bare
  <2>4. CampaignsTrue'
    <3>1. \A c \in Campaigns : source'[c] = "live" =>
            (source[c] = "live" /\ hits'[c] = hits[c]) \/ TrueHits(c, hits[c])'
      BY <1>a, <1>d DEF IInv, Rows, CampaignsTrue
    <3> QED
      BY <1>1, <3>1, TrueKept DEF IInv, Rows, Frame
  <2>5. SelectedOnEvidence'
    BY <1>1, <1>a, SelectedKept DEF IInv, Rows, Frame
  <2> QED
    BY <2>1, <2>2, <2>3, <2>4, <2>5 DEF Rows
<1> QED
  BY <1>1, <1>2, <1>3, <1>4, <1>5 DEF Sound

(* SelectCommand: a manual selection finds a campaign that has candidates. *)
LEMMA SelectCommandStep ==
  ASSUME IInv, NEW p \in Procs, NEW c \in Campaigns, SelectCommand(p, c)
  PROVE  Sound(p)
<1>0. PICK g \in Groups : cand' = [cand EXCEPT ![p] = g]
  BY HitFacts DEF IInv, Typed, SelectCommand
<1>a. /\ pc[p] = "idle" /\ pc' = [pc EXCEPT ![p] = "select"] /\ camp' = [camp EXCEPT ![p] = c]
      /\ UNCHANGED <<source, hits, transition, selected, evidence, discovery, clicked,
                     known, method, page, outcome>>
      /\ hits[c] # <<>>
  BY HitFacts DEF IInv, Typed, SelectCommand, Goto, database, history
<1>b. source[c] # "none"
  BY <1>a DEF IInv, Rows, Bare
<1>1. Frame(p)
  BY <1>0, <1>a DEF IInv, Typed, TypeOK, MemoryOK, Frame, Kept, Same, Grows, Working,
     Building, Acting
<1>2. WorkKept(p)
  BY <1>0, <1>a DEF IInv, Typed, TypeOK, WorkKept, Working, Building, Acting
<1>3. Typed'
  BY <1>0, <1>a DEF IInv, Typed, TypeOK, MemoryOK, Building, Steps
<1>4. Local(p)'
  BY <1>0, <1>a, <1>b DEF IInv, Typed, TypeOK, Local, Progress, Reserves, Evident,
     TrueMemory, Building, Acting
<1>5. Rows'
  BY <1>0, <1>a, QuietRows DEF IInv, Typed, TypeOK
<1> QED
  BY <1>1, <1>2, <1>3, <1>4, <1>5 DEF Sound

(* CheckSelection: a joined candidate of a live campaign is confirmed. *)
LEMMA CheckSelectionStep ==
  ASSUME IInv, NEW p \in Procs, CheckSelection(p)
  PROVE  Sound(p)
<1>0. /\ pc[p] = "select" /\ camp[p] \in Campaigns /\ cand[p] \in Groups
      /\ UNCHANGED <<source, hits, transition, selected, evidence, discovery, clicked,
                     known>>
      /\ source[camp[p]] # "none"
      /\ \/ pc' = [pc EXCEPT ![p] = "insert"] /\ UNCHANGED <<method, camp, page, cand,
                                                             outcome>>
         \/ Exit(p)
  BY DEF IInv, Typed, TypeOK, MemoryOK, Local, Progress, Building,
         CheckSelection, Goto, database, history, memory
<1>b. PICK n \in DOMAIN hits[camp[p]] :
        hits[camp[p]][n].membership = "joined" /\ hits[camp[p]][n].group = cand[p]
  BY DEF CheckSelection, Joined
<1>c. source[camp[p]] = "live" => Confirmed(camp[p], cand[p])
  BY <1>0, <1>b DEF IInv, Rows, CampaignsTrue, TrueHits
<1>1. Frame(p)
  <2>1. \A q \in Procs : q # p => Kept(q)
    BY <1>0, ExitFacts DEF IInv, Typed, TypeOK, MemoryOK, Kept
  <2> QED
    BY <1>0, <2>1 DEF Frame, Same, Grows
<1>2. WorkKept(p)
  BY <1>0, ExitFacts DEF IInv, Typed, TypeOK, WorkKept, Working, Building, Acting
<1>3. Typed'
  <2>1. CASE Exit(p)
    BY <1>0, <2>1, ExitFacts DEF IInv, Typed, TypeOK
  <2>2. CASE pc' = [pc EXCEPT ![p] = "insert"] /\ UNCHANGED <<method, camp, page, cand,
                                                              outcome>>
    BY <1>0, <2>2 DEF IInv, Typed, TypeOK, MemoryOK, Building, Steps
  <2> QED
    BY <1>0, <2>1, <2>2
<1>4. Local(p)'
  <2>1. CASE Exit(p)
    BY <2>1, ExitFacts DEF IInv, Local, Progress, Reserves, Evident, TrueMemory,
       Building, Acting
  <2>2. CASE pc' = [pc EXCEPT ![p] = "insert"] /\ UNCHANGED <<method, camp, page, cand,
                                                              outcome>>
    <3>1. pc'[p] = "insert"
      BY <2>2 DEF IInv, Typed, TypeOK
    <3>2. source'[camp[p]] = "live" => Confirmed(camp[p], cand[p])'
      BY <1>0, <1>c, <2>2 DEF Confirmed
    <3> QED
      BY <1>0, <2>2, <3>1, <3>2 DEF Local, Progress, Reserves, Evident, TrueMemory, Acting
  <2> QED
    BY <1>0, <2>1, <2>2
<1>5. Rows'
  BY <1>0, QuietRows DEF IInv
<1> QED
  BY <1>1, <1>2, <1>3, <1>4, <1>5 DEF Sound

(* InsertSelection: the selection is confirmed. *)
LEMMA InsertSelectionStep ==
  ASSUME IInv, NEW p \in Procs, InsertSelection(p)
  PROVE  Sound(p)
<1>0. /\ pc[p] = "insert" /\ camp[p] \in Campaigns /\ cand[p] \in Groups /\ Exit(p)
      /\ UNCHANGED <<source, hits, transition, evidence, discovery, clicked, known>>
      /\ \A c \in Campaigns : selected'[c] = IF c = camp[p] THEN cand[p] ELSE selected[c]
      /\ selected' \in [Campaigns -> Groups \cup {Nothing}]
      /\ source[camp[p]] # "none"
      /\ source[camp[p]] = "live" => Confirmed(camp[p], cand[p])
  <2>1. pc[p] = "insert" /\ Exit(p) /\ selected' = [selected EXCEPT ![camp[p]] = cand[p]]
        /\ UNCHANGED <<source, hits, transition, evidence, discovery, clicked, known>>
    BY DEF InsertSelection, history
  <2>2. camp[p] \in Campaigns /\ cand[p] \in Groups
    BY <2>1 DEF IInv, Typed, TypeOK, MemoryOK, Building
  <2>3. /\ \A c \in Campaigns : selected'[c] = IF c = camp[p] THEN cand[p] ELSE selected[c]
        /\ selected' \in [Campaigns -> Groups \cup {Nothing}]
    BY <2>1, <2>2 DEF IInv, Typed, TypeOK
  <2>4. /\ source[camp[p]] # "none"
        /\ source[camp[p]] = "live" => Confirmed(camp[p], cand[p])
    BY <2>1 DEF IInv, Local, Progress, TrueMemory
  <2> QED
    BY <2>1, <2>2, <2>3, <2>4
<1>1. Frame(p)
  <2>1. \A q \in Procs : q # p => Kept(q)
    BY <1>0, ExitFacts DEF IInv
  <2> QED
    BY <1>0, <2>1 DEF Frame, Same, Grows
<1>2. WorkKept(p)
  BY <1>0, ExitFacts DEF IInv, WorkKept, Working, Building, Acting
<1>3. Typed'
  BY <1>0, ExitFacts DEF IInv, Typed, TypeOK
<1>4. Local(p)'
  BY <1>0, ExitFacts DEF IInv, Local, Progress, Reserves, Evident, TrueMemory,
     Building, Acting
<1>5. Rows'
  <2>1. cand[p] # Nothing
    BY <1>0, NothingFacts
  <2>2. Bare'
    BY <1>0 DEF IInv, Rows, Bare
  <2>3. SelectedOnEvidence'
    <3>1. ASSUME NEW c \in Campaigns, source[c] = "live", selected'[c] # Nothing
          PROVE  Confirmed(c, selected'[c])
      BY <1>0, <3>1 DEF IInv, Rows, SelectedOnEvidence
    <3> QED
      BY <1>0, <3>1 DEF SelectedOnEvidence, Confirmed
  <2>4. KnownApart' /\ ActionsAccountedFor'
    BY <1>0 DEF IInv, Rows, KnownApart, ActionsAccountedFor
  <2>5. CampaignsTrue'
    BY <1>0, <1>1, TrueKept DEF IInv, Rows, Frame
  <2> QED
    BY <2>2, <2>3, <2>4, <2>5 DEF Rows
<1> QED
  BY <1>1, <1>2, <1>3, <1>4, <1>5 DEF Sound

(* Leave: a process ends. *)
LEMMA LeaveStep ==
  ASSUME IInv, NEW p \in Procs, Leave(p)
  PROVE  Sound(p)
<1>0. Exit(p) /\ UNCHANGED <<source, hits, transition, selected, evidence, discovery,
                             clicked, known>>
  BY DEF Leave, database, history
<1>1. Frame(p)
  <2>1. \A q \in Procs : q # p => Kept(q)
    BY <1>0, ExitFacts DEF IInv
  <2> QED
    BY <1>0, <2>1 DEF Frame, Same, Grows
<1>2. WorkKept(p)
  BY <1>0, ExitFacts DEF IInv, WorkKept, Working, Building, Acting
<1>3. Typed'
  BY <1>0, ExitFacts DEF IInv, Typed, TypeOK
<1>4. Local(p)'
  BY <1>0, ExitFacts DEF IInv, Local, Progress, Reserves, Evident, TrueMemory,
     Building, Acting
<1>5. Rows'
  BY <1>0, QuietRows DEF IInv
<1> QED
  BY <1>1, <1>2, <1>3, <1>4, <1>5 DEF Sound

(***************************************************************************)
(* What one process proves of a step holds for every process.              *)
(***************************************************************************)

(* Nobody else comes to work on a campaign somebody works on. *)
LEMMA OwnedKept ==
  ASSUME Owned, NEW p \in Procs, Frame(p), WorkKept(p)
  PROVE  Owned'
<1> SUFFICES ASSUME NEW a \in Procs, NEW b \in Procs, a # b, camp'[a] = camp'[b],
                    pc'[a] \in Working, pc'[b] \in Working
             PROVE  FALSE
  BY DEF Owned
<1>1. CASE a # p /\ b # p
  BY <1>1 DEF Owned, Frame, Kept
<1>2. CASE a = p
  BY <1>2 DEF Owned, Frame, Kept, WorkKept
<1>3. CASE b = p
  BY <1>3 DEF Owned, Frame, Kept, WorkKept
<1> QED
  BY <1>1, <1>2, <1>3

(* A step of one process leaves what the others rely on. *)
LEMMA OthersUndisturbed ==
  ASSUME IInv, NEW p \in Procs, Frame(p), NEW q \in Procs, q # p
  PROVE  Local(q)'
<1>1. Kept(q) /\ Grows /\ Local(q)
  BY DEF Frame, IInv
<1>2. pc[q] # "idle" => camp[q] \in Campaigns
  BY DEF IInv, Typed, TypeOK
<1>3. pc[q] \in Working => Same(camp[q])
  BY <1>2 DEF IInv, Owned, Frame, Working, Building, Acting
<1>4. Progress(q)'
  <2>1. pc[q] \notin {"idle", "store", "campaign"} => source'[camp[q]] # "none"
    BY <1>1, <1>2 DEF Local, Progress, Grows
  <2> QED
    BY <1>1, <1>3, <2>1 DEF Kept, Local, Progress, Same, Working, Building, Acting
<1>5. Reserves(q)'
  <2>1. SUFFICES ASSUME pc[q] = "plan"
                 PROVE  \A d \in known[camp[q]] : transition'[d].group # cand[q]
    BY <1>1, <1>3 DEF Kept, Same, Reserves, Working
  <2>2. camp[q] \in Campaigns /\ known[camp[q]] \subseteq Campaigns
    BY <1>2, <2>1 DEF IInv, Typed, TypeOK
  <2>3. \A d \in known[camp[q]] : transition[d] # NoTransition /\ transition[d].group # cand[q]
    BY <1>1, <2>1, <2>2 DEF IInv, Rows, KnownApart, Local, Reserves
  <2> QED
    BY <1>1, <2>2, <2>3 DEF Grows
<1>6. Evident(q)'
  <2>1. clicked \subseteq clicked'
    BY <1>1 DEF Grows
  <2>2. pc[q] # "idle" => evidence[camp[q]] \subseteq evidence'[camp[q]]
    BY <1>1, <1>2 DEF Grows
  <2> QED
    BY <1>1, <2>1, <2>2 DEF Kept, Local, Evident
<1>7. TrueMemory(q)'
  <2>1. CASE pc[q] = "idle"
    BY <1>1, <2>1 DEF TrueMemory, Kept
  <2>2. CASE pc[q] # "idle"
    BY <1>1, <1>2, <1>3, <2>2, MemoryGrows DEF Local, Working, Building
  <2> QED
    BY <2>1, <2>2
<1> QED
  BY <1>4, <1>5, <1>6, <1>7 DEF Local

(* A sound step keeps the invariant. *)
LEMMA SoundStep ==
  ASSUME IInv, NEW p \in Procs, Sound(p)
  PROVE  IInv'
BY OwnedKept, OthersUndisturbed DEF IInv, Sound

(***************************************************************************)
(* The invariant.                                                          *)
(***************************************************************************)

(* It holds when no process has begun. *)
LEMMA InitHolds ==
  Init => IInv
<1> SUFFICES ASSUME Init PROVE IInv
  OBVIOUS
<1>1. <<>> \in Seq(Hits) /\ <<>> \in Seq(Sightings) /\ DOMAIN <<>> = {}
  BY EmptySeq
<1>2. TypeOK
  BY <1>1 DEF Init, TypeOK, Hits, Memberships, Outcomes, Methods, Evidence, Steps
<1>3. MemoryOK
  BY <1>1 DEF Init, MemoryOK
<1>4. Owned
  BY DEF Init, Owned, Working, Building, Acting
<1>5. Rows
  BY DEF Init, Rows, Bare, KnownApart, ActionsAccountedFor, CampaignsTrue,
     SelectedOnEvidence, NoTransition, Outcomes
<1>6. \A p \in Procs : Local(p)
  BY DEF Init, Local, Progress, Reserves, Evident, TrueMemory, Building, Acting
<1> QED
  BY <1>2, <1>3, <1>4, <1>5, <1>6 DEF IInv, Typed

(* Every step keeps it. *)
LEMMA InvariantStep ==
  IInv /\ [Next]_vars => IInv'
<1> SUFFICES ASSUME IInv, [Next]_vars PROVE IInv'
  OBVIOUS
<1>1. CASE UNCHANGED vars
  <2>1. UNCHANGED <<source, hits, transition, selected, evidence, discovery, clicked,
                    known, pc, method, camp, page, cand, outcome>>
    BY <1>1 DEF vars, database, history, memory
  <2>2. Typed' /\ Owned'
    BY <2>1 DEF IInv, Typed, TypeOK, MemoryOK, Owned
  <2>3. Rows'
    BY <2>1, QuietRows DEF IInv
  <2>4. ASSUME NEW p \in Procs
        PROVE  Local(p)'
    BY <2>1, <2>4 DEF IInv, Local, Progress, Reserves, Evident, TrueMemory, OnPage,
       Confirmed
  <2> QED
    BY <2>2, <2>3, <2>4 DEF IInv
<1>2. ASSUME NEW p \in Procs,
             \E c \in Campaigns :
               \/ \E list \in Lists : ListTargets(p, c, list)
               \/ \E view \in Views, signs \in [Groups -> SUBSET Signs],
                     how \in Methods \ {"operator"} : Discover(p, c, view, signs, how)
               \/ SelectCommand(p, c)
      PROVE  IInv'
  BY <1>2, ListTargetsStep, DiscoverStep, SelectCommandStep, SoundStep
<1>3. ASSUME NEW p \in Procs, Prepare(p)
      PROVE  IInv'
  BY <1>3, StoreDiscoveryStep, CreateCampaignStep, AddCandidateStep, ChooseJoinedStep,
     ChooseJoinableStep, SoundStep DEF Prepare
<1>4. ASSUME NEW p \in Procs, Join(p)
      PROVE  IInv'
  BY <1>4, PlanJoinStep, CheckpointBeforeStep, ClickStep, ReadOutcomeStep,
     StoreConfirmationStep,
     StopJoinStep, CompleteJoinStep, SoundStep DEF Join
<1>5. ASSUME NEW p \in Procs, CheckSelection(p) \/ InsertSelection(p) \/ Leave(p)
      PROVE  IInv'
  BY <1>5, CheckSelectionStep, InsertSelectionStep, LeaveStep, SoundStep
<1> QED
  BY <1>1, <1>2, <1>3, <1>4, <1>5 DEF Next

(* The invariant holds in every state the commands reach. *)
THEOREM Invariant == Spec => []IInv
<1>1. Init => IInv
  BY InitHolds
<1>2. IInv /\ [Next]_vars => IInv'
  BY InvariantStep
<1> QED
  BY <1>1, <1>2, PTL DEF Spec

(* The rows keep the types their CHECK constraints state. *)
THEOREM TypeCorrect == Spec => []TypeOK
<1>1. IInv => TypeOK
  BY DEF IInv, Typed
<1> QED
  BY <1>1, Invariant, PTL

(* No run repeats the Join of a reservation it had read, whatever became of
   the process that reserved it. *)
THEOREM KnownRepeatsNever == Spec => []NoKnownRepeat
<1>1. IInv => NoKnownRepeat
  BY DEF IInv, Typed, TypeOK, Rows, KnownApart, ActionsAccountedFor, NoKnownRepeat
<1> QED
  BY <1>1, Invariant, PTL

(* Every click has its reservation and the page before it; every outcome its
   click and the page after it. *)
THEOREM ClicksAccounted == Spec => []ActionsAccountedFor
<1>1. IInv => ActionsAccountedFor
  BY DEF IInv, Rows
<1> QED
  BY <1>1, Invariant, PTL

(* The Group a live campaign has selected is confirmed by what it stored: no control
   beside it on the discovery page, or its own Join completed as joined. *)
THEOREM SelectionHasEvidence == Spec => []SelectedOnEvidence
<1>1. IInv => SelectedOnEvidence
  BY DEF IInv, Rows
<1> QED
  BY <1>1, Invariant, PTL

(* A campaign's target never changes: only a process that finds none writes
   one. *)
LEMMA TargetStays ==
  TypeOK /\ [Next]_vars =>
    [\A c \in Campaigns : selected[c] # Nothing => selected'[c] = selected[c]]_vars
<1> SUFFICES ASSUME TypeOK, Next
             PROVE  \A c \in Campaigns : selected[c] # Nothing => selected'[c] = selected[c]
  BY DEF TypeOK
<1>1. ASSUME NEW p \in Procs, InsertSelection(p)
      PROVE  \A c \in Campaigns : selected[c] # Nothing => selected'[c] = selected[c]
  BY <1>1 DEF TypeOK, InsertSelection, Insertable
<1>2. ASSUME NEW p \in Procs, Prepare(p) \/ Join(p)
      PROVE  UNCHANGED selected
  <2>1. Prepare(p) => UNCHANGED selected
    BY DEF Prepare, database, StoreDiscovery, CreateCampaign, AddCandidate,
       ChooseJoined,
           ChooseJoinable
  <2>2. Join(p) => UNCHANGED selected
    BY DEF Join, database, PlanJoin, CheckpointBefore, Click, ReadOutcome,
       StoreConfirmation,
           StopJoin, CompleteJoin
  <2> QED
    BY <1>2, <2>1, <2>2
<1>3. \/ \E p \in Procs : InsertSelection(p)
      \/ UNCHANGED selected
  BY <1>2 DEF Next, database, ListTargets, Discover, SelectCommand, CheckSelection,
     Leave
<1> QED
  BY <1>1, <1>3

(* The captures that read a campaign's target see the same Group each time. *)
THEOREM SelectionKept == Spec => SelectionStays
<1>1. TypeOK /\ [Next]_vars =>
        [\A c \in Campaigns : selected[c] # Nothing => selected'[c] = selected[c]]_vars
  BY TargetStays
<1> QED
  BY <1>1, TypeCorrect, PTL DEF Spec, SelectionStays
=============================================================================
