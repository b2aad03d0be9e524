------------------------- MODULE BrowserCaptureProofs -------------------------
(***************************************************************************)
(* Proofs about BrowserCapture for every Group, every feed it may show, all *)
(* limits and any number of processes: what a checkpoint says of its page,  *)
(* how many Posts a process keeps, how soon a stop takes effect, and when a *)
(* checkpoint is rejected.                                                  *)
(***************************************************************************)
EXTENDS BrowserCapture, FiniteSetTheorems, SequenceTheorems, WellFoundedInduction,
        TLAPS

(***************************************************************************)
(* The inductive invariant.                                                *)
(***************************************************************************)

Replaying == {"call", "check", "operate"}
Rendered == {"render", "return"}
Running == Replaying \cup Rendered

(* Every variable has its type, the memory of the process included. *)
Typed ==
  /\ job \in {"open", "succeeded", "failed"}
  /\ history \in Seq(Actions) /\ next \in Actions \cup {NoAction}
  /\ saved \subseteq Posts /\ sessions \in 0..MaxSessions
  /\ pc \in Steps /\ known \subseteq Posts /\ feed \in Feeds
  /\ shown \in -1..Len(feed.posts) /\ expanded \subseteq Posts
  /\ completed \in Seq(Actions) /\ pending \in Actions \cup {NoAction}
  /\ captured \subseteq Posts /\ page \subseteq captured
  /\ count \in [pages : 0..MaxPages, interactions : 0..MaxInteractions, shells : Nat]
  /\ tries \in 0..MaxRetries /\ stop \in BOOLEAN /\ slipped \in BOOLEAN /\ late \in Nat
  /\ IsFiniteSet(expanded) /\ IsFiniteSet(captured) /\ IsFiniteSet(views)

(* Where the process stands between the checkpoint and its pages. *)
Positioned ==
  /\ next = NoAction => history = <<>>
  /\ next # NoAction => Len(history) + 1 < MaxPages
  /\ pc \notin Running =>
       /\ completed = <<>> /\ pending = NoAction /\ captured = {}
       /\ shown = 0 /\ expanded = {}
  /\ pc \in Replaying =>
       /\ next # NoAction /\ Len(completed) <= Len(history)
       /\ \A n \in DOMAIN completed : completed[n] = Wanted[n]
       /\ captured # {} => completed = history
  /\ pc \in {"check", "operate"} =>
       pending = Wanted[Len(completed) + 1] /\ count.interactions < MaxInteractions
  /\ pc = "call" =>
       IF pending = NoAction THEN captured = {} ELSE pending = next /\ completed = history
  /\ pc \in Rendered =>
       IF next = NoAction THEN completed = <<>> /\ shown = feed.start /\ expanded = {}
       ELSE completed = Wanted

(* The page is what the completed interactions make of it. *)
Told ==
  /\ expanded \cap Marked = {completed[n][2] : n \in Done("expand")}
  /\ Cardinality(expanded \cap Labelled) = Cardinality(Done("label"))
  /\ shown = feed.start + Cardinality(Done("scroll"))
  /\ pc # "render" /\ pending # NoAction /\ pending[1] = "scroll" => shown < Len(feed.posts)

(* No further interaction is under way once one has followed the stop. *)
Prompt ==
  /\ late <= 1
  /\ ~stop \/ pc = "operate" => late = 0

(* What a browser with a view shows, which interaction follows from it, and what
   it shows next. *)
ControlsAt(view, at, kind) ==
  {n \in 1..at.shown : view.feed.posts[n] \in
     (kind \cap {view.feed.posts[m] : m \in 1..at.shown \cap 1..MaxRecent})
       \ (at.expanded \cup view.known)}
NextAt(view, at, scrolls) ==
  IF ControlsAt(view, at, Marked) # {}
  THEN <<"expand", view.feed.posts[First(ControlsAt(view, at, Marked))]>>
  ELSE IF ControlsAt(view, at, Labelled) # {} THEN <<"label", 0>>
  ELSE IF at.shown >= MaxRecent \/ at.shown = Len(view.feed.posts) THEN NoAction
  ELSE <<"scroll", 1 + scrolls>>
ShowsAfter(view, at, action) ==
  CASE action[1] = "expand" ->
         [shown |-> at.shown, expanded |-> at.expanded \cup {action[2]}]
    [] action[1] = "label" ->
         [shown |-> at.shown, expanded |-> at.expanded \cup {view.feed.posts[
            First({n \in 1..at.shown : view.feed.posts[n] \in Labelled \ at.expanded})]}]
    [] OTHER ->
         [shown |-> IF at.shown < Len(view.feed.posts) THEN at.shown + 1 ELSE at.shown,
          expanded |-> at.expanded]

(* The running process: its view, what it shows, and what it would do next. *)
View == [known |-> known, feed |-> feed]
Here == [shown |-> shown, expanded |-> expanded]
Scrolls(seq, k) == Cardinality({n \in 1..k : seq[n][1] = "scroll"})

(* Pages that a browser with one view shows along the interactions. *)
Path(view, seq, pages) ==
  /\ pages[0] = [shown |-> view.feed.start, expanded |-> {}]
  /\ \A k \in 0..Len(seq) - 1 :
       /\ seq[k + 1] = NextAt(view, pages[k], Scrolls(seq, k))
       /\ k > 0 => pages[k] = ShowsAfter(view, pages[k - 1], seq[k])
PageAt(view, seq, pages, k) ==
  IF k < Len(seq) THEN pages[k] ELSE ShowsAfter(view, pages[k - 1], seq[k])

(* The checkpoint's interactions are those of a browser whose page never changed,
   and the running process is on its way along them. *)
Viewed ==
  /\ pc # "idle" => View \in views
  /\ pc # "idle" /\ next = NoAction => views = {View}
  /\ next # NoAction => views # {}
  /\ pc = "return" /\ pending # NoAction =>
       pending = NextAt(View, Here, Scrolls(completed, Len(completed)))
Traced(view) ==
  \E pages :
    /\ Path(view, Wanted, pages)
    /\ pc \in Running => Here = PageAt(view, Wanted, pages, Len(completed))

Inv ==
  /\ Typed /\ Positioned /\ Prompt /\ PostsBounded
  /\ ~slipped /\ pc \in Running => Told
  /\ Viewed
  /\ \A view : views = {view} /\ next # NoAction /\ ~slipped => Traced(view)

-----------------------------------------------------------------------------
(***************************************************************************)
(* Sets of positions.                                                      *)
(***************************************************************************)

(* Natural numbers have a least one among them. *)
LEMMA Least ==
  ASSUME NEW T, T \subseteq Nat, T # {}
  PROVE  \E x \in T : \A y \in T : x <= y
<1> DEFINE R == {ss \in Nat \X Nat : ss[1] < ss[2]}
<1>1. IsWellFoundedOn(R, Nat)
  BY NatLessThanWellFounded, Zenon DEF OpToRel
<1>2. \E x \in T : \A y \in T : ~ (<<y, x>> \in R)
  <2> HIDE DEF R
  <2>1. T \subseteq Nat /\ T # {}
    OBVIOUS
  <2> QED
    BY <1>1, <2>1, WFMin
<1>3. PICK x \in T : \A y \in T : ~ (<<y, x>> \in R)
  BY <1>2
<1>4. ASSUME NEW y \in T PROVE x <= y
  <2>1. x \in Nat /\ y \in Nat
    OBVIOUS
  <2>2. <<y, x>> \notin R
    BY <1>3
  <2>3. ~(y < x)
    BY <2>1, <2>2
  <2> QED
    BY <2>1, <2>3
<1> QED
  BY <1>4

(* Bounded ones have a greatest. *)
LEMMA Greatest ==
  ASSUME NEW N \in Nat, NEW T, T \subseteq 1..N, T # {}
  PROVE  \E x \in T : \A y \in T : y <= x
<1> DEFINE B == {k \in 0..N : \A y \in T : y <= k}
<1>1. N \in B /\ B \subseteq Nat
  OBVIOUS
<1>2. PICK x \in B : \A y \in B : x <= y
  BY <1>1, Least
<1>3. x \in T
  <2> SUFFICES ASSUME x \notin T PROVE FALSE
    OBVIOUS
  <2>1. \A y \in T : y \in 1..N /\ y <= x /\ y # x
    BY <1>2
  <2>2. x \in 0..N
    BY <1>2
  <2>3. \A y \in T : y <= x - 1
    BY <2>1, <2>2
  <2>4. x - 1 \in 0..N
    <3>1. PICK y \in T : TRUE
      OBVIOUS
    <3>2. y \in 1..N /\ y <= x
      BY <2>1, <3>1
    <3> QED
      BY <2>2, <3>2
  <2>5. x - 1 \in B
    BY <2>3, <2>4
  <2> QED
    BY <2>5, <1>2, <2>2
<1> QED
  BY <1>2, <1>3

(* At most so many members of a set have less than so many members below them. *)
LEMMA RankBound ==
  ASSUME NEW N \in Nat, NEW U, U \subseteq 1..N, NEW c \in Nat, NEW M \in Nat, c <= M
  PROVE  LET W == {m \in U : c + Cardinality({k \in U : k < m}) < M}
         IN  IsFiniteSet(W) /\ c + Cardinality(W) <= M
<1> DEFINE Below(m) == {k \in U : k < m}
           W == {m \in U : c + Cardinality({k \in U : k < m}) < M}
<1>1. IsFiniteSet(1..N)
  BY FS_Interval
<1>2. IsFiniteSet(U) /\ IsFiniteSet(W)
  BY <1>1, FS_Subset
<1>3. CASE W = {}
  <2>1. Cardinality(W) = 0
    BY <1>2, <1>3, FS_EmptySet
  <2>2. c + 0 <= M
    OBVIOUS
  <2> QED
    BY <1>2, <2>1, <2>2
<1>4. CASE W # {}
  <2>1. W \subseteq 1..N
    OBVIOUS
  <2>2. PICK x \in W : \A y \in W : y <= x
    <3> HIDE DEF W
    <3> QED
      BY <2>1, <1>4, Greatest
  <2>3. IsFiniteSet(Below(x)) /\ Cardinality(Below(x)) \in Nat
    BY <1>2, FS_Subset, FS_CardinalityType
  <2>4. W \subseteq Below(x) \cup {x}
    BY <2>1, <2>2
  <2>5. IsFiniteSet(Below(x) \cup {x}) /\ Cardinality(Below(x) \cup {x}) <= Cardinality(Below(x)) + 1
    <3>1. x \notin Below(x)
      BY <2>1, <2>2
    <3> HIDE DEF W, Below
    <3>2. Cardinality(Below(x) \cup {x}) = Cardinality(Below(x)) + 1
      BY <2>3, <3>1, FS_AddElement
    <3>3. IsFiniteSet(Below(x) \cup {x})
      BY <2>3, FS_AddElement
    <3> QED
      BY <2>3, <3>2, <3>3
  <2>6. Cardinality(W) <= Cardinality(Below(x) \cup {x})
    <3> HIDE DEF W, Below
    <3> QED
      BY <2>4, <2>5, FS_Subset
  <2>7. c + Cardinality(Below(x)) < M
    BY <2>2
  <2>8. Cardinality(W) \in Nat /\ Cardinality(Below(x) \cup {x}) \in Nat
    BY <1>2, <2>5, FS_CardinalityType
  <2> QED
    <3> HIDE DEF W, Below
    <3>1. c + Cardinality(W) <= M
      BY <2>3, <2>5, <2>6, <2>7, <2>8
    <3>2. IsFiniteSet(W)
      BY <1>2
    <3> QED
      BY <3>1, <3>2 DEF W
<1> QED
  BY <1>3, <1>4

(* The values of a function on a finite set are no more than the set has members. *)
LEMMA ImageBound ==
  ASSUME NEW W, IsFiniteSet(W), NEW f
  PROVE  LET T == {f[n] : n \in W}
         IN  IsFiniteSet(T) /\ Cardinality(T) <= Cardinality(W)
<1> DEFINE T == {f[n] : n \in W}
           g == [n \in W |-> f[n]]
<1>1. g \in Surjection(W, T)
  BY DEF Surjection
<1> QED
  BY <1>1, FS_Surjection
-----------------------------------------------------------------------------
(***************************************************************************)
(* What a rendering makes of the operators.                                *)
(***************************************************************************)

(* A feed is a sequence of some Posts. *)
LEMMA FeedLength ==
  ASSUME NEW view \in Feeds
  PROVE  /\ view.posts \in Seq(Posts) /\ Len(view.posts) \in Nat /\ Len(view.posts) > 0
         /\ view.start \in -1..Len(view.posts)
<1>1. view \in [posts : Seq(Posts), start : Int] /\ view.posts # <<>>
      /\ view.start \in -1..Len(view.posts)
  BY BrowserAssumption
<1>2. view.posts \in Seq(Posts)
  BY <1>1
<1> QED
  BY <1>1, <1>2, EmptySeq

(* What is rendered is a prefix of the feed. *)
LEMMA FeedType ==
  ASSUME Typed
  PROVE  /\ feed.posts \in Seq(Posts) /\ Len(feed.posts) \in Nat /\ Len(feed.posts) > 0
         /\ feed.start \in -1..Len(feed.posts) /\ shown \in -1..Len(feed.posts)
         /\ \A n \in 1..shown : n \in 1..Len(feed.posts) /\ feed.posts[n] \in Posts
<1>1. feed \in Feeds /\ shown \in -1..Len(feed.posts)
  BY DEF Typed
<1>2. feed.posts \in Seq(Posts) /\ Len(feed.posts) \in Nat
  BY <1>1, FeedLength
<1>3. ASSUME NEW n \in 1..shown
      PROVE  n \in 1..Len(feed.posts) /\ feed.posts[n] \in Posts
  <2>1. n \in 1..Len(feed.posts)
    BY <1>1, <1>2
  <2> QED
    BY <2>1, <1>2
<1> QED
  BY <1>1, <1>3, FeedLength

(* The limits are numbers above zero. *)
LEMMA Limits ==
  /\ MaxPages \in Nat /\ MaxPages > 0 /\ MaxRecent \in Nat /\ MaxRecent > 0
  /\ MaxInteractions \in Nat /\ MaxInteractions > 0 /\ MaxRetries \in Nat
  /\ MaxSessions \in Nat
  /\ Marked \cap Labelled = {}
<1>1. {MaxRecent, MaxPages, MaxInteractions, MaxShells} \subseteq Nat \ {0}
      /\ {MaxRetries, MaxSessions} \subseteq Nat
  BY BrowserAssumption
<1> QED
  BY <1>1, BrowserAssumption

(* The first of some positions is one of them. *)
LEMMA FirstIn ==
  ASSUME NEW S, S \subseteq Nat, S # {}
  PROVE  First(S) \in S
<1>1. \E n \in S : \A m \in S : n <= m
  BY Least
<1> QED
  BY <1>1 DEF First

(* An interaction expands a marked Post, clicks the label or scrolls. *)
LEMMA ActionKinds ==
  ASSUME NEW a \in Actions
  PROVE  \/ a[1] = "expand" /\ a[2] \in Marked /\ a = <<"expand", a[2]>>
         \/ a[1] = "label" /\ a = <<"label", 0>>
         \/ a[1] = "scroll" /\ a[2] \in 1..MaxPages /\ a = <<"scroll", a[2]>>
<1>1. \/ \E p \in Marked : a = <<"expand", p>>
      \/ a = <<"label", 0>>
      \/ \E n \in 1..MaxPages : a = <<"scroll", n>>
  BY DEF Actions
<1> QED
  BY <1>1

(* The completed interactions of a kind: finitely many, and one of them more
   when one of the kind is completed. *)
LEMMA DoneGrows ==
  ASSUME NEW kind, Typed, pending \in Actions, completed' = Append(completed, pending)
  PROVE  /\ IsFiniteSet(Done(kind)) /\ Cardinality(Done(kind)) \in Nat
         /\ Done(kind)' = Done(kind) \cup
              {n \in {Len(completed) + 1} : pending[1] = kind}
         /\ Cardinality(Done(kind))' =
              Cardinality(Done(kind)) + IF pending[1] = kind THEN 1 ELSE 0
<1>1. completed \in Seq(Actions) /\ Len(completed) \in Nat
      /\ DOMAIN completed = 1..Len(completed)
  BY DEF Typed
<1>2. /\ DOMAIN completed' = 1..Len(completed) + 1
      /\ \A n \in 1..Len(completed) : completed'[n] = completed[n]
      /\ completed'[Len(completed) + 1] = pending
  BY <1>1
<1>3. IsFiniteSet(1..Len(completed)) /\ Done(kind) \subseteq 1..Len(completed)
  BY <1>1, FS_Interval DEF Done
<1>4. IsFiniteSet(Done(kind)) /\ Cardinality(Done(kind)) \in Nat
  BY <1>3, FS_Subset, FS_CardinalityType
<1>5. Done(kind)' = {n \in DOMAIN completed' : completed'[n][1] = kind}
  BY DEF Done
<1>6. Done(kind)' = Done(kind) \cup {n \in {Len(completed) + 1} : pending[1] = kind}
  BY <1>1, <1>2, <1>5 DEF Done
<1>7. CASE pending[1] = kind
  <2>1. Done(kind)' = Done(kind) \cup {Len(completed) + 1}
    BY <1>6, <1>7
  <2>2. Len(completed) + 1 \notin Done(kind)
    BY <1>1, <1>3
  <2>3. Cardinality(Done(kind) \cup {Len(completed) + 1}) = Cardinality(Done(kind)) + 1
    BY <1>4, <2>2, FS_AddElement
  <2>4. Cardinality(Done(kind))' = Cardinality(Done(kind)')
    OBVIOUS
  <2> QED
    BY <1>4, <1>6, <1>7, <2>1, <2>3, <2>4
<1>8. CASE pending[1] # kind
  <2>1. Done(kind)' = Done(kind)
    BY <1>6, <1>8
  <2>2. Cardinality(Done(kind))' = Cardinality(Done(kind))
    BY <2>1
  <2>3. Cardinality(Done(kind)) + 0 = Cardinality(Done(kind))
    BY <1>4
  <2> QED
    BY <1>4, <1>6, <1>8, <2>2, <2>3
<1> QED
  BY <1>7, <1>8

(* The number of scrolls is that of the scrolls completed, never more than the
   interactions completed. *)
LEMMA ScrollsCounted ==
  ASSUME Typed
  PROVE  /\ ScrollNumber = 1 + Scrolls(completed, Len(completed))
         /\ Scrolls(completed, Len(completed)) = Cardinality(Done("scroll"))
         /\ Scrolls(completed, Len(completed)) \in 0..Len(completed)
<1>1. Len(completed) \in Nat /\ DOMAIN completed = 1..Len(completed)
  BY DEF Typed
<1> DEFINE D == {n \in 1..Len(completed) : completed[n][1] = "scroll"}
<1>2. IsFiniteSet(1..Len(completed)) /\ Cardinality(1..Len(completed)) = Len(completed)
  <2>1. Cardinality(1..Len(completed)) =
          IF 1 > Len(completed) THEN 0 ELSE Len(completed) - 1 + 1
    BY <1>1, FS_Interval
  <2>2. IsFiniteSet(1..Len(completed))
    BY <1>1, FS_Interval
  <2> QED
    BY <1>1, <2>1, <2>2
<1>3. D \subseteq 1..Len(completed)
  OBVIOUS
<1>4. Cardinality(D) \in Nat /\ Cardinality(D) <= Len(completed)
  <2> HIDE DEF D
  <2>1. IsFiniteSet(D) /\ Cardinality(D) <= Cardinality(1..Len(completed))
    BY <1>2, <1>3, FS_Subset
  <2>2. Cardinality(D) \in Nat
    BY <2>1, FS_CardinalityType
  <2> QED
    BY <1>1, <1>2, <2>1, <2>2
<1> QED
  BY <1>1, <1>4 DEF ScrollNumber, Scrolls, Done

(* Scrolls are counted over a prefix alike in sequences that share it. *)
LEMMA ScrollsShared ==
  ASSUME NEW s, NEW u, NEW k, \A n \in 1..k : s[n] = u[n]
  PROVE  Scrolls(s, k) = Scrolls(u, k)
<1>1. {n \in 1..k : s[n][1] = "scroll"} = {n \in 1..k : u[n][1] = "scroll"}
  OBVIOUS
<1> QED
  BY <1>1 DEF Scrolls

(* _derive_next_action sees the page of the process and nothing else, except that
   it ends the capture when enough Posts have been kept. *)
LEMMA DerivedNext ==
  ASSUME NEW S, Typed
  PROVE  /\ Derived(S) # NoAction =>
              Derived(S) = NextAt(View, Here, Scrolls(completed, Len(completed)))
         /\ S = {} => Derived(S) = NextAt(View, Here, Scrolls(completed, Len(completed)))
<1> DEFINE m == Controls(Marked)
           l == Controls(Labelled)
<1>1. m = ControlsAt(View, Here, Marked) /\ l = ControlsAt(View, Here, Labelled)
  BY DEF Controls, ControlsAt, View, Here, Posted, Permitted
<1>2. ScrollNumber = 1 + Scrolls(completed, Len(completed))
  BY ScrollsCounted
<1>3. View.feed = feed /\ Here.shown = shown
  BY DEF View, Here
<1>4. S = {} => ~(Cardinality(S) >= MaxRecent)
  <2>1. Cardinality({}) = 0
    BY FS_EmptySet
  <2> QED
    BY <2>1, Limits
<1>5. Derived(S) = IF m # {} THEN <<"expand", feed.posts[First(m)]>>
                   ELSE IF l # {} THEN <<"label", 0>>
                   ELSE IF Boundary(S) THEN NoAction ELSE <<"scroll", ScrollNumber>>
  BY DEF Derived, Posted
<1>6. NextAt(View, Here, Scrolls(completed, Len(completed))) =
        IF m # {} THEN <<"expand", feed.posts[First(m)]>>
        ELSE IF l # {} THEN <<"label", 0>>
        ELSE IF shown >= MaxRecent \/ shown = Len(feed.posts) THEN NoAction
        ELSE <<"scroll", ScrollNumber>>
  BY <1>1, <1>2, <1>3 DEF NextAt
<1> HIDE DEF m, l
<1> QED
  BY <1>4, <1>5, <1>6 DEF Boundary

(* The next interaction is one of the program's, and a scroll only where there is
   more to show. *)
LEMMA DerivedType ==
  ASSUME NEW S, Typed, Len(completed) < MaxPages
  PROVE  /\ Derived(S) \in Actions \cup {NoAction}
         /\ Derived(S) # NoAction /\ Derived(S)[1] = "scroll" => shown < Len(feed.posts)
<1>1. CASE Controls(Marked) # {}
  <2>1. Controls(Marked) \subseteq Nat
    BY DEF Controls
  <2>2. First(Controls(Marked)) \in Controls(Marked)
    BY <1>1, <2>1, FirstIn
  <2>3. Posted(First(Controls(Marked))) \in Marked
    BY <2>2 DEF Controls
  <2>4. Derived(S) = <<"expand", Posted(First(Controls(Marked)))>>
    BY <1>1 DEF Derived
  <2> QED
    BY <2>3, <2>4 DEF Actions
<1>2. CASE Controls(Marked) = {} /\ Controls(Labelled) # {}
  <2>1. Derived(S) = <<"label", 0>>
    BY <1>2 DEF Derived
  <2> QED
    BY <2>1 DEF Actions
<1>3. CASE Controls(Marked) = {} /\ Controls(Labelled) = {} /\ Boundary(S)
  BY <1>3 DEF Derived
<1>4. CASE Controls(Marked) = {} /\ Controls(Labelled) = {} /\ ~Boundary(S)
  <2>1. Derived(S) = <<"scroll", ScrollNumber>>
    BY <1>4 DEF Derived
  <2>2. Len(completed) \in Nat
    BY DEF Typed
  <2>3. ScrollNumber \in 1..MaxPages
    BY <2>2, ScrollsCounted, Limits
  <2>4. shown # Len(feed.posts)
    BY <1>4 DEF Boundary
  <2>5. shown < Len(feed.posts)
    BY <2>4, FeedType
  <2> QED
    BY <2>1, <2>3, <2>5 DEF Actions
<1> QED
  BY <1>1, <1>2, <1>3, <1>4

(* _bounded_html keeps no more Posts than the limit, and none that is known. *)
LEMMA BoundedKept ==
  ASSUME Typed, PostsBounded
  PROVE  /\ IsFiniteSet(Bounded) /\ Bounded \subseteq Posts
         /\ Cardinality(Bounded) <= MaxRecent /\ Bounded \cap known = {}
<1> DEFINE unseen == {n \in 1..shown : Posted(n) \notin known \cup captured}
           kept == {m \in unseen :
                      Cardinality(captured) + Cardinality({k \in unseen : k < m}) < MaxRecent}
           added == {feed.posts[n] : n \in kept}
<1>1. Bounded = captured \cup added
  BY DEF Bounded, Posted
<1>2. IsFiniteSet(captured) /\ Cardinality(captured) \in Nat /\ Cardinality(captured) <= MaxRecent
  BY FS_CardinalityType DEF Typed, PostsBounded
<1>3. unseen \subseteq 1..Len(feed.posts) /\ Len(feed.posts) \in Nat
  BY FeedType
<1>4. IsFiniteSet(kept) /\ Cardinality(captured) + Cardinality(kept) <= MaxRecent
  <2> HIDE DEF unseen
  <2> QED
    BY <1>2, <1>3, RankBound, Limits
<1>5. IsFiniteSet(added) /\ Cardinality(added) <= Cardinality(kept)
  <2> HIDE DEF kept
  <2> QED
    BY <1>4, ImageBound
<1>6. added \subseteq Posts \ (known \cup captured)
  <2>1. ASSUME NEW n \in kept
        PROVE  feed.posts[n] \in Posts \ (known \cup captured)
    BY FeedType DEF Posted
  <2> QED
    BY <2>1
<1> HIDE DEF unseen, kept, added
<1>7. captured \cap added = {}
  BY <1>6
<1>8. IsFiniteSet(captured \cup added)
      /\ Cardinality(captured \cup added) <= Cardinality(captured) + Cardinality(added)
  <2>1. /\ IsFiniteSet(captured \cup added)
        /\ Cardinality(captured \cup added) =
             Cardinality(captured) + Cardinality(added) - Cardinality(captured \cap added)
    BY <1>2, <1>5, FS_Union
  <2>2. Cardinality(captured \cap added) = 0
    BY <1>7, FS_EmptySet
  <2>3. Cardinality(added) \in Nat
    BY <1>5, FS_CardinalityType
  <2> QED
    BY <1>2, <2>1, <2>2, <2>3
<1>9. Cardinality(captured \cup added) <= MaxRecent
  <2>1. Cardinality(added) \in Nat /\ Cardinality(kept) \in Nat
        /\ Cardinality(captured \cup added) \in Nat
    BY <1>4, <1>5, <1>8, FS_CardinalityType
  <2> QED
    BY <1>2, <1>4, <1>5, <1>8, <2>1, Limits
<1>10. captured \subseteq Posts /\ captured \cap known = {}
  BY DEF Typed, PostsBounded
<1> QED
  BY <1>1, <1>6, <1>8, <1>9, <1>10

(* What an interaction does to the page of the process. *)
LEMMA EffectShows ==
  ASSUME NEW a \in Actions, Typed, Reachable(a), Effect(a)
  PROVE  /\ shown' \in -1..Len(feed.posts) /\ feed' = feed
         /\ expanded' \subseteq Posts /\ IsFiniteSet(expanded')
         /\ Here' = ShowsAfter(View, Here, a)
<1>1. expanded \subseteq Posts /\ IsFiniteSet(expanded)
  BY DEF Typed
<1>2. Marked \subseteq Posts /\ Labelled \subseteq Posts
  BY BrowserAssumption
<1>3. CASE a[1] = "expand"
  <2>1. expanded' = expanded \cup {a[2]} /\ feed' = feed /\ shown' = shown
    BY <1>3 DEF Effect
  <2>2. a[2] \in Posts
    BY <1>2, <1>3, ActionKinds
  <2>3. IsFiniteSet(expanded \cup {a[2]})
    BY <1>1, FS_AddElement
  <2>4. Here' = ShowsAfter(View, Here, a)
    BY <1>3, <2>1 DEF Here, ShowsAfter
  <2> QED
    BY <1>1, <2>1, <2>2, <2>3, <2>4, FeedType
<1>4. CASE a[1] = "label"
  <2> DEFINE p == Posted(First(LabelTargets))
  <2>1. expanded' = expanded \cup {p} /\ feed' = feed /\ shown' = shown
    BY <1>4 DEF Effect
  <2>2. LabelTargets # {} /\ LabelTargets \subseteq Nat
    BY <1>4 DEF Reachable, LabelTargets
  <2>3. First(LabelTargets) \in LabelTargets
    BY <2>2, FirstIn
  <2>4. p \in Posts
    BY <1>2, <2>3 DEF LabelTargets
  <2>5. IsFiniteSet(expanded \cup {p})
    BY <1>1, FS_AddElement
  <2>6. LabelTargets = {n \in 1..Here.shown : View.feed.posts[n] \in Labelled \ Here.expanded}
    BY DEF LabelTargets, Here, View, Posted
  <2>7. Here' = [shown |-> shown, expanded |-> expanded \cup {p}]
    BY <2>1 DEF Here
  <2>8. ShowsAfter(View, Here, a) = [shown |-> Here.shown, expanded |-> Here.expanded \cup {p}]
    <3>1. p = View.feed.posts[First(LabelTargets)]
      BY DEF View, Posted
    <3> HIDE DEF p
    <3> QED
      BY <1>4, <2>6, <3>1 DEF ShowsAfter
  <2>9. Here' = ShowsAfter(View, Here, a)
    BY <2>7, <2>8 DEF Here
  <2> HIDE DEF p
  <2> QED
    BY <1>1, <2>1, <2>4, <2>5, <2>9, FeedType
<1>5. CASE a[1] = "scroll"
  <2>1. /\ shown' = IF shown < Len(feed.posts) THEN shown + 1 ELSE shown
        /\ feed' = feed /\ expanded' = expanded
    BY <1>5 DEF Effect
  <2>2. shown' \in -1..Len(feed.posts)
    BY <2>1, FeedType
  <2>3. Here' = ShowsAfter(View, Here, a)
    BY <1>5, <2>1 DEF Here, View, ShowsAfter
  <2> QED
    BY <1>1, <2>1, <2>2, <2>3
<1> QED
  BY <1>3, <1>4, <1>5, ActionKinds

-----------------------------------------------------------------------------
(***************************************************************************)
(* The steps of the process.                                               *)
(***************************************************************************)

(* A checkpoint asks for a sequence of interactions. *)
LEMMA WantedType ==
  ASSUME Typed, next # NoAction
  PROVE  /\ Wanted \in Seq(Actions) /\ Len(history) \in Nat /\ Len(Wanted) = Len(history) + 1
         /\ \A n \in 1..Len(history) : Wanted[n] = history[n]
         /\ Wanted[Len(history) + 1] = next
         /\ \A n \in 1..Len(history) + 1 : Wanted[n] \in Actions
<1>1. history \in Seq(Actions) /\ next \in Actions
  BY DEF Typed
<1>2. Wanted \in Seq(Actions) /\ Len(history) \in Nat /\ Len(Wanted) = Len(history) + 1
  BY <1>1 DEF Wanted
<1>3. /\ \A n \in 1..Len(history) : Wanted[n] = history[n]
      /\ Wanted[Len(history) + 1] = next
  BY <1>1 DEF Wanted
<1>4. \A n \in 1..Len(history) + 1 : Wanted[n] \in Actions
  BY <1>2
<1> QED
  BY <1>2, <1>3, <1>4

(* A process with nothing completed has no completed interaction of any kind. *)
LEMMA DoneNone ==
  ASSUME NEW kind, completed = <<>>
  PROVE  Done(kind) = {} /\ Cardinality(Done(kind)) = 0
<1>1. DOMAIN completed = {}
  OBVIOUS
<1>2. Done(kind) = {}
  BY <1>1 DEF Done
<1> QED
  BY <1>2, FS_EmptySet

(* Steps that leave the page and the checkpoint alone keep what is told of them. *)
LEMMA ToldFrame ==
  ASSUME Told, UNCHANGED <<expanded, completed, shown, feed>>,
         pc' # "render" /\ pending' # NoAction /\ pending'[1] = "scroll"
           => shown < Len(feed.posts)
  PROVE  Told'
<1>1. \A kind : Done(kind)' = Done(kind)
  BY DEF Done
<1>2. /\ expanded \cap Marked = {completed[n][2] : n \in Done("expand")}
      /\ Cardinality(expanded \cap Labelled) = Cardinality(Done("label"))
      /\ shown = feed.start + Cardinality(Done("scroll"))
  BY DEF Told
<1> QED
  BY <1>1, <1>2 DEF Told

(* A process that leaves its page alone stays where it is on the way. *)
LEMMA TracedFrame ==
  ASSUME NEW view, Traced(view), UNCHANGED <<history, next>>,
         pc' \in Running => pc \in Running /\ UNCHANGED <<completed, shown, expanded>>
  PROVE  Traced(view)'
<1>1. Wanted' = Wanted
  BY DEF Wanted
<1>2. PICK pages :
        /\ Path(view, Wanted, pages)
        /\ pc \in Running => Here = PageAt(view, Wanted, pages, Len(completed))
  BY DEF Traced
<1>3. Path(view, Wanted', pages)
  BY <1>1, <1>2
<1>4. ASSUME pc' \in Running
      PROVE  Here' = PageAt(view, Wanted', pages, Len(completed'))
  <2>1. Here' = Here /\ completed' = completed
    BY <1>4 DEF Here
  <2> QED
    BY <1>1, <1>2, <1>4, <2>1
<1>5. \E p : /\ Path(view, Wanted', p)
             /\ pc' \in Running => Here' = PageAt(view, Wanted', p, Len(completed'))
  BY <1>3, <1>4
<1> QED
  BY <1>5 DEF Traced

(* At the start there is no checkpoint and no process. *)
LEMMA InitHolds ==
  ASSUME Init
  PROVE  Inv
<1>1. Typed
  <2>1. feed \in Feeds /\ Len(feed.posts) \in Nat /\ 0 \in -1..Len(feed.posts)
    BY FeedLength DEF Init
  <2>2. IsFiniteSet({})
    BY FS_EmptySet
  <2>3. count \in [pages : 0..MaxPages, interactions : 0..MaxInteractions, shells : Nat]
    BY Limits DEF Init, NoCount
  <2>4. 0 \in 0..MaxRetries /\ 0 \in 0..MaxSessions
    BY BrowserAssumption
  <2>5. history \in Seq(Actions) /\ completed \in Seq(Actions)
    BY DEF Init
  <2> QED
    BY <2>1, <2>2, <2>3, <2>4, <2>5 DEF Init, Typed, Steps
<1>2. PostsBounded
  BY Limits, FS_EmptySet DEF Init, PostsBounded
<1>3. pc = "idle" /\ pc \notin Running
  BY DEF Init, Running, Replaying, Rendered
<1>4. Positioned
  BY <1>3 DEF Init, Positioned, Running
<1>5. Prompt
  BY DEF Init, Prompt
<1>6. Viewed
  BY DEF Init, Viewed
<1> QED
  BY <1>1, <1>2, <1>3, <1>4, <1>5, <1>6 DEF Init, Inv

(* A process that ends leaves the checkpoint as it is. *)
LEMMA ClosedKeeps ==
  ASSUME Inv, Closed, UNCHANGED <<history, next, sessions, slipped, views>>,
         job' \in {"open", "succeeded", "failed"}, saved' \subseteq Posts
  PROVE  Inv'
<1>0. Typed /\ Positioned /\ PostsBounded /\ Viewed
  BY DEF Inv
<1>1. Typed'
  <2>1. feed \in Feeds /\ Len(feed.posts) \in Nat /\ 0 \in -1..Len(feed.posts)
    BY <1>0, FeedType DEF Typed
  <2>2. IsFiniteSet({})
    BY FS_EmptySet
  <2>3. count' \in [pages : 0..MaxPages, interactions : 0..MaxInteractions, shells : Nat]
    BY Limits DEF Closed, NoCount
  <2>4. 0 \in 0..MaxRetries
    BY BrowserAssumption
  <2>5. completed' \in Seq(Actions)
    BY DEF Closed
  <2> QED
    BY <1>0, <2>1, <2>2, <2>3, <2>4, <2>5 DEF Closed, Typed, Steps
<1>2. PostsBounded'
  BY Limits, FS_EmptySet DEF Closed, PostsBounded
<1>3. pc' = "idle" /\ pc' \notin Running
  BY DEF Closed, Running, Replaying, Rendered
<1>4. Positioned'
  BY <1>0, <1>3 DEF Closed, Positioned, Running
<1>5. Prompt'
  BY DEF Closed, Prompt
<1>6. Viewed'
  BY <1>0, <1>3 DEF Viewed
<1>7. ASSUME NEW view, views' = {view}, next' # NoAction, ~slipped'
      PROVE  Traced(view)'
  <2>1. Traced(view)
    BY <1>7 DEF Inv
  <2> QED
    BY <2>1, <1>3, TracedFrame
<1> QED
  BY <1>1, <1>2, <1>3, <1>4, <1>5, <1>6, <1>7 DEF Inv

(* OpenBrowser: a process begins with nothing completed, and its view is noted. *)
LEMMA OpenBrowserKeeps ==
  ASSUME Inv, NEW posts \in {{}, Before, Before \cup saved}, NEW view \in Feeds,
         OpenBrowser(posts, view)
  PROVE  Inv'
<1>0. Typed /\ Positioned /\ Prompt /\ PostsBounded /\ Viewed
  BY DEF Inv
<1>1. pc = "idle" /\ pc \notin Running /\ pc' = "goto" /\ pc' \notin Running
  BY DEF OpenBrowser, Running, Replaying, Rendered
<1>2. /\ UNCHANGED <<history, next, shown, expanded, completed, pending, captured, late,
                     slipped>>
      /\ known' = posts /\ feed' = view
      /\ views' = (IF next = NoAction THEN {} ELSE views) \cup {[known |-> posts, feed |-> view]}
  BY DEF OpenBrowser
<1>3. completed = <<>> /\ pending = NoAction /\ captured = {} /\ shown = 0 /\ expanded = {}
  BY <1>0, <1>1 DEF Positioned
<1>4. Typed'
  <2>1. posts \subseteq Posts
    BY <1>0, BrowserAssumption DEF Typed
  <2>2. 0 \in -1..Len(view.posts)
    BY FeedLength
  <2>3. IsFiniteSet(views')
    <3>1. IsFiniteSet(IF next = NoAction THEN {} ELSE views)
      BY <1>0, FS_EmptySet DEF Typed
    <3> QED
      BY <3>1, <1>2, FS_AddElement
  <2>4. sessions' \in 0..MaxSessions
    <3>1. sessions \in 0..MaxSessions /\ sessions < MaxSessions /\ sessions' = sessions + 1
      BY <1>0 DEF Typed, OpenBrowser
    <3> QED
      BY <3>1, Limits
  <2> QED
    BY <1>0, <1>1, <1>2, <1>3, <2>1, <2>2, <2>3, <2>4 DEF OpenBrowser, Typed, Steps
<1>5. PostsBounded'
  BY <1>2, <1>3, Limits, FS_EmptySet DEF PostsBounded
<1>6. Positioned'
  BY <1>0, <1>1, <1>2, <1>3 DEF Positioned, Replaying, Rendered
<1>7. Prompt'
  BY <1>0, <1>1, <1>2 DEF Prompt, OpenBrowser
<1>8. Viewed'
  <2>1. View' = [known |-> posts, feed |-> view]
    BY <1>2 DEF View
  <2> QED
    BY <1>1, <1>2, <2>1 DEF Viewed
<1>9. ASSUME NEW w, views' = {w}, next' # NoAction, ~slipped'
      PROVE  Traced(w)'
  <2>1. views # {} /\ views \subseteq {w}
    BY <1>0, <1>2, <1>9 DEF Viewed
  <2>2. views = {w}
    BY <2>1
  <2>3. Traced(w)
    BY <1>2, <1>9, <2>2 DEF Inv
  <2> QED
    BY <1>1, <1>2, <2>3, TracedFrame
<1> QED
  BY <1>1, <1>4, <1>5, <1>6, <1>7, <1>8, <1>9 DEF Inv

(* Navigate: the page is as the feed starts, where the way begins. *)
LEMMA NavigateKeeps ==
  ASSUME Inv, Navigate
  PROVE  Inv'
<1>0. Typed /\ Positioned /\ Prompt /\ PostsBounded /\ Viewed
  BY DEF Inv
<1>1. /\ pc = "goto" /\ pc \notin Running /\ pc' \in Running
      /\ pc' = IF next = NoAction THEN "render" ELSE "call"
  BY DEF Navigate, Running, Replaying, Rendered
<1>2. /\ UNCHANGED <<history, next, feed, expanded, completed, pending, captured, count, late,
                     slipped, views, known, stop, page>>
      /\ shown' = feed.start
  BY DEF Navigate, durable, ghosts
<1>3. completed = <<>> /\ pending = NoAction /\ captured = {} /\ shown = 0 /\ expanded = {}
  BY <1>0, <1>1 DEF Positioned
<1>4. Typed'
  <2>1. shown' \in -1..Len(feed.posts)
    BY <1>0, <1>2, FeedType
  <2>2. 0 \in 0..MaxRetries
    BY BrowserAssumption
  <2> QED
    BY <1>0, <1>1, <1>2, <2>1, <2>2 DEF Navigate, durable, ghosts, Typed, Steps
<1>5. PostsBounded'
  BY <1>0, <1>2 DEF PostsBounded
<1>6. Positioned'
  <2>1. history \in Seq(Actions) /\ Len(history) \in Nat /\ Len(completed) = 0
        /\ DOMAIN completed = {}
    BY <1>0, <1>3 DEF Typed
  <2>2. CASE next = NoAction
    BY <1>0, <1>1, <1>2, <1>3, <2>1, <2>2 DEF Positioned, Replaying, Rendered
  <2>3. CASE next # NoAction
    BY <1>0, <1>1, <1>2, <1>3, <2>1, <2>3 DEF Positioned, Replaying, Rendered
  <2> QED
    BY <2>2, <2>3
<1>7. Prompt'
  BY <1>0, <1>1, <1>2 DEF Prompt
<1>8. Told'
  <2>1. \A kind : Done(kind)' = {} /\ Cardinality(Done(kind)') = 0
    <3>1. \A kind : Done(kind)' = Done(kind)
      BY <1>2 DEF Done
    <3> QED
      BY <3>1, <1>3, DoneNone
  <2>2. feed.start + 0 = feed.start
    BY <1>0, FeedType
  <2>3. expanded' \cap Marked = {} /\ expanded' \cap Labelled = {} /\ Cardinality({}) = 0
    BY <1>2, <1>3, FS_EmptySet
  <2>4. Done("expand")' = {} /\ Cardinality(Done("label"))' = 0
        /\ Cardinality(Done("scroll"))' = 0
    BY <2>1
  <2>5. pending' = NoAction
    BY <1>2, <1>3
  <2> QED
    BY <1>2, <2>2, <2>3, <2>4, <2>5 DEF Told
<1>9. Viewed'
  <2>1. View' = View
    BY <1>2 DEF View
  <2> QED
    BY <1>0, <1>1, <1>2, <2>1 DEF Viewed
<1>10. ASSUME NEW w, views' = {w}, next' # NoAction, ~slipped'
       PROVE  Traced(w)'
  <2>1. w = View
    BY <1>0, <1>1, <1>2, <1>10 DEF Viewed
  <2>2. Traced(w)
    BY <1>2, <1>10 DEF Inv
  <2>3. PICK pages : Path(w, Wanted, pages)
    BY <2>2 DEF Traced
  <2>4. Wanted' = Wanted
    BY <1>2 DEF Wanted
  <2>5. Here' = pages[0]
    BY <1>2, <1>3, <2>1, <2>3 DEF Path, Here, View
  <2>6. Len(completed') = 0 /\ Len(completed') < Len(Wanted')
    BY <1>0, <1>2, <1>3, <1>10, <2>4, WantedType
  <2>7. Here' = PageAt(w, Wanted', pages, Len(completed'))
    BY <2>5, <2>6 DEF PageAt
  <2>8. \E p : /\ Path(w, Wanted', p)
               /\ pc' \in Running => Here' = PageAt(w, Wanted', p, Len(completed'))
    BY <2>3, <2>4, <2>7
  <2> QED
    BY <2>8 DEF Traced
<1> QED
  BY <1>4, <1>5, <1>6, <1>7, <1>8, <1>9, <1>10 DEF Inv

(* Perform: the next interaction of the way is what the page asks for. *)
LEMMA PerformKeeps ==
  ASSUME Inv, Perform
  PROVE  Inv'
<1>0. Typed /\ Positioned /\ Prompt /\ PostsBounded /\ Viewed
  BY DEF Inv
<1>1. pc = "call" /\ pc' = "check" /\ pc \in Running /\ pc' \in Running
  BY DEF Perform, Running, Replaying, Rendered
<1>2. /\ UNCHANGED <<history, next, feed, shown, expanded, completed, captured, count, late,
                     slipped, views, known, stop, page>>
      /\ pending' = Agreed /\ pending' = Wanted[Len(completed) + 1]
      /\ count.interactions < MaxInteractions
  BY DEF Perform, Rejected, durable, dom, ghosts
<1>3. /\ next # NoAction /\ Len(completed) <= Len(history)
      /\ \A n \in DOMAIN completed : completed[n] = Wanted[n]
      /\ captured # {} => completed = history
      /\ Len(history) + 1 < MaxPages
  BY <1>0, <1>1 DEF Positioned, Replaying
<1>4. Len(completed) \in Nat /\ Len(history) \in Nat
  BY <1>0 DEF Typed
<1>5. pending' \in Actions
  <2>1. Len(completed) + 1 \in 1..Len(history) + 1
    BY <1>3, <1>4
  <2> QED
    BY <1>0, <1>2, <1>3, <2>1, WantedType
<1>6. Typed'
  <2>1. 0 \in 0..MaxRetries
    BY BrowserAssumption
  <2> QED
    BY <1>0, <1>1, <1>2, <1>5, <2>1 DEF Perform, durable, dom, ghosts, Typed, Steps
<1>7. PostsBounded'
  BY <1>0, <1>2 DEF PostsBounded
<1>8. Wanted' = Wanted
  BY <1>2 DEF Wanted
<1>9. Positioned'
  BY <1>0, <1>1, <1>2, <1>3, <1>8 DEF Positioned, Replaying, Rendered
<1>10. Prompt'
  BY <1>0, <1>1, <1>2 DEF Prompt
<1>11. ASSUME ~slipped' PROVE Told'
  <2>1. Told
    BY <1>1, <1>2, <1>11 DEF Inv
  <2>2. ASSUME pending' # NoAction, pending'[1] = "scroll"
        PROVE  shown < Len(feed.posts)
    <3>1. CASE pending # NoAction
      BY <1>1, <1>2, <2>1, <2>2, <3>1 DEF Told, Agreed
    <3>2. CASE pending = NoAction
      <4>1. pending' = Derived(captured)
        BY <1>2, <3>2 DEF Agreed
      <4>2. Len(completed) < MaxPages
        BY <1>3, <1>4, Limits
      <4> QED
        BY <1>0, <2>2, <4>1, <4>2, DerivedType
    <3> QED
      BY <3>1, <3>2
  <2> QED
    BY <1>2, <2>1, <2>2, ToldFrame
<1>12. Viewed'
  <2>1. View' = View
    BY <1>2 DEF View
  <2> QED
    BY <1>0, <1>1, <1>2, <2>1 DEF Viewed
<1>13. ASSUME NEW w, views' = {w}, next' # NoAction, ~slipped'
       PROVE  Traced(w)'
  <2>1. Traced(w)
    BY <1>2, <1>13 DEF Inv
  <2> QED
    BY <1>1, <1>2, <2>1, TracedFrame
<1> QED
  BY <1>6, <1>7, <1>9, <1>10, <1>11, <1>12, <1>13 DEF Inv

(* Check: an attempt begins only where no stop has been seen. *)
LEMMA CheckKeeps ==
  ASSUME Inv, Check
  PROVE  Inv'
<1>0. Typed /\ Positioned /\ Prompt /\ PostsBounded /\ Viewed
  BY DEF Inv
<1>1. pc = "check" /\ pc' = "operate" /\ pc \in Running /\ pc' \in Running /\ ~stop
  BY DEF Check, StopSeen, Running, Replaying, Rendered
<1>2. UNCHANGED <<job, history, next, saved, sessions, feed, shown, expanded, known, completed,
                  pending, captured, count, tries, page, stop, late, slipped, views>>
  BY DEF Check, durable, dom, memory, ghosts
<1>3. Typed'
  BY <1>0, <1>1, <1>2 DEF Typed, Steps
<1>4. PostsBounded'
  BY <1>0, <1>2 DEF PostsBounded
<1>5. Wanted' = Wanted
  BY <1>2 DEF Wanted
<1>6. Positioned'
  BY <1>0, <1>1, <1>2, <1>5 DEF Positioned, Replaying, Rendered
<1>7. Prompt'
  BY <1>0, <1>1, <1>2 DEF Prompt
<1>8. ASSUME ~slipped' PROVE Told'
  <2>1. Told
    BY <1>1, <1>2, <1>8 DEF Inv
  <2> QED
    BY <1>1, <1>2, <2>1, ToldFrame DEF Told
<1>9. Viewed'
  <2>1. View' = View
    BY <1>2 DEF View
  <2> QED
    BY <1>0, <1>1, <1>2, <2>1 DEF Viewed
<1>10. ASSUME NEW w, views' = {w}, next' # NoAction, ~slipped'
       PROVE  Traced(w)'
  <2>1. Traced(w)
    BY <1>2, <1>10 DEF Inv
  <2> QED
    BY <1>1, <1>2, <2>1, TracedFrame
<1> QED
  BY <1>3, <1>4, <1>6, <1>7, <1>8, <1>9, <1>10 DEF Inv

(* Respond: a forbidden response sets the stop and nothing else. *)
LEMMA RespondKeeps ==
  ASSUME Inv, Respond
  PROVE  Inv'
<1>0. Typed /\ Positioned /\ Prompt /\ PostsBounded /\ Viewed
  BY DEF Inv
<1>1. /\ stop' = TRUE /\ pc' = pc /\ ~stop
      /\ UNCHANGED <<job, history, next, saved, sessions, feed, shown, expanded, known,
                     completed,
                     pending, captured, count, tries, page, late, slipped, views>>
  BY DEF Respond, durable, dom, ghosts
<1>2. Typed'
  BY <1>0, <1>1 DEF Typed, Steps
<1>3. PostsBounded'
  BY <1>0, <1>1 DEF PostsBounded
<1>4. Wanted' = Wanted
  BY <1>1 DEF Wanted
<1>5. Positioned'
  BY <1>0, <1>1, <1>4 DEF Positioned
<1>6. Prompt'
  BY <1>0, <1>1 DEF Prompt
<1>7. ASSUME ~slipped', pc' \in Running PROVE Told'
  <2>1. Told
    BY <1>1, <1>7 DEF Inv
  <2> QED
    BY <1>1, <2>1, ToldFrame DEF Told
<1>8. Viewed'
  <2>1. View' = View /\ Here' = Here
    BY <1>1 DEF View, Here
  <2> QED
    BY <1>0, <1>1, <2>1 DEF Viewed
<1>9. ASSUME NEW w, views' = {w}, next' # NoAction, ~slipped'
      PROVE  Traced(w)'
  <2>1. Traced(w)
    BY <1>1, <1>9 DEF Inv
  <2> QED
    BY <1>1, <2>1, TracedFrame
<1> QED
  BY <1>2, <1>3, <1>5, <1>6, <1>7, <1>8, <1>9 DEF Inv

(* What the completed interaction adds to what is told of the page. *)
LEMMA OperateTold ==
  ASSUME Typed, Told, pc # "render", pending \in Actions,
         Reachable(pending), Effect(pending),
         completed' = Append(completed, pending), pending' = NoAction
  PROVE  Told'
<1>1. /\ completed \in Seq(Actions) /\ Len(completed) \in Nat
      /\ \A n \in 1..Len(completed) : completed'[n] = completed[n]
      /\ completed'[Len(completed) + 1] = pending
  BY DEF Typed
<1>2. /\ expanded \cap Marked = {completed[n][2] : n \in Done("expand")}
      /\ Cardinality(expanded \cap Labelled) = Cardinality(Done("label"))
      /\ shown = feed.start + Cardinality(Done("scroll"))
      /\ pending[1] = "scroll" => shown < Len(feed.posts)
  BY NoActionAssumption DEF Told
<1>3. \A n \in Done("expand") : n \in 1..Len(completed)
  BY <1>1 DEF Done
<1>4. /\ Done("expand")' = Done("expand") \cup
           {n \in {Len(completed) + 1} : pending[1] = "expand"}
      /\ Cardinality(Done("label"))' =
           Cardinality(Done("label")) + IF pending[1] = "label" THEN 1 ELSE 0
      /\ Cardinality(Done("scroll"))' =
           Cardinality(Done("scroll")) + IF pending[1] = "scroll" THEN 1 ELSE 0
      /\ Cardinality(Done("label")) \in Nat /\ Cardinality(Done("scroll")) \in Nat
  BY DoneGrows
<1>5. {completed'[n][2] : n \in Done("expand")'} =
        {completed[n][2] : n \in Done("expand")} \cup
          {pending[2] : n \in {m \in {Len(completed) + 1} : pending[1] = "expand"}}
  BY <1>1, <1>3, <1>4
<1>6. IsFiniteSet(expanded \cap Labelled)
  BY FS_Subset DEF Typed
<1>7. feed.start \in Int /\ shown \in Int /\ Len(feed.posts) \in Nat
  BY FeedType
<1>8. CASE pending[1] = "expand"
  <2>1. expanded' = expanded \cup {pending[2]} /\ feed' = feed /\ shown' = shown
    BY <1>8 DEF Effect
  <2>2. pending[2] \in Marked /\ pending[2] \notin Labelled
    BY <1>8, ActionKinds, Limits
  <2>3. expanded' \cap Marked = (expanded \cap Marked) \cup {pending[2]}
        /\ expanded' \cap Labelled = expanded \cap Labelled
    BY <2>1, <2>2
  <2>4. expanded' \cap Marked = {completed'[n][2] : n \in Done("expand")'}
    BY <1>2, <1>5, <1>8, <2>3
  <2>5. Cardinality(expanded' \cap Labelled) = Cardinality(Done("label"))'
    <3>1. Cardinality(Done("label"))' = Cardinality(Done("label"))
      BY <1>4, <1>8
    <3> QED
      BY <1>2, <2>3, <3>1
  <2>6. shown' = feed.start + Cardinality(Done("scroll"))'
    BY <1>2, <1>4, <1>8, <2>1
  <2> QED
    BY <2>1, <2>4, <2>5, <2>6 DEF Told
<1>9. CASE pending[1] = "label"
  <2> DEFINE p == Posted(First(LabelTargets))
  <2>1. expanded' = expanded \cup {p} /\ feed' = feed /\ shown' = shown
    BY <1>9 DEF Effect
  <2>2. LabelTargets # {} /\ LabelTargets \subseteq Nat
    BY <1>9 DEF Reachable, LabelTargets
  <2>3. First(LabelTargets) \in LabelTargets
    BY <2>2, FirstIn
  <2>4. p \in Labelled /\ p \notin expanded /\ p \notin Marked
    BY <2>3, Limits DEF LabelTargets
  <2> HIDE DEF p
  <2>5. expanded' \cap Marked = expanded \cap Marked
        /\ expanded' \cap Labelled = (expanded \cap Labelled) \cup {p}
        /\ p \notin expanded \cap Labelled
    BY <2>1, <2>4
  <2>6. Cardinality(expanded' \cap Labelled) = Cardinality(expanded \cap Labelled) + 1
    BY <1>6, <2>5, FS_AddElement
  <2>7. expanded' \cap Marked = {completed'[n][2] : n \in Done("expand")'}
    BY <1>2, <1>5, <1>9, <2>5
  <2>8. Cardinality(expanded' \cap Labelled) = Cardinality(Done("label"))'
    BY <1>2, <1>4, <1>9, <2>6
  <2>9. shown' = feed.start + Cardinality(Done("scroll"))'
    BY <1>2, <1>4, <1>9, <2>1
  <2> QED
    BY <2>1, <2>7, <2>8, <2>9 DEF Told
<1>10. CASE pending[1] = "scroll"
  <2>1. /\ shown' = IF shown < Len(feed.posts) THEN shown + 1 ELSE shown
        /\ feed' = feed /\ expanded' = expanded
    BY <1>10 DEF Effect
  <2>2. shown' = shown + 1
    BY <1>2, <1>10, <2>1
  <2>3. shown' = feed.start + Cardinality(Done("scroll"))'
    BY <1>2, <1>4, <1>7, <1>10, <2>2
  <2>4. expanded' \cap Marked = {completed'[n][2] : n \in Done("expand")'}
    BY <1>2, <1>5, <1>10, <2>1
  <2>5. Cardinality(expanded' \cap Labelled) = Cardinality(Done("label"))'
    BY <1>2, <1>4, <1>10, <2>1
  <2> QED
    BY <2>1, <2>3, <2>4, <2>5 DEF Told
<1> QED
  BY <1>8, <1>9, <1>10, ActionKinds

(* Operate: the page follows the way. *)
LEMMA OperateKeeps ==
  ASSUME Inv, Operate
  PROVE  Inv'
<1>0. Typed /\ Positioned /\ Prompt /\ PostsBounded /\ Viewed
  BY DEF Inv
<1>1. /\ pc = "operate" /\ pc \in Running /\ pc' \in Running
      /\ pc' = IF Len(completed') = Len(Wanted) THEN "render" ELSE "call"
  BY DEF Operate, Running, Replaying, Rendered
<1>2. /\ UNCHANGED <<job, history, next, saved, sessions, known, feed, captured, tries, page,
                     stop, slipped, views>>
      /\ Reachable(pending) /\ Effect(pending)
      /\ completed' = Append(completed, pending) /\ pending' = NoAction
      /\ late' = IF stop THEN late + 1 ELSE late
      /\ count' = [count EXCEPT !.interactions = @ + 1]
  BY DEF Operate, Counted, durable
<1>3. /\ next # NoAction /\ Len(completed) <= Len(history)
      /\ \A n \in DOMAIN completed : completed[n] = Wanted[n]
      /\ captured # {} => completed = history
      /\ pending = Wanted[Len(completed) + 1] /\ count.interactions < MaxInteractions
  BY <1>0, <1>1 DEF Positioned, Replaying
<1>4. /\ completed \in Seq(Actions) /\ Len(completed) \in Nat /\ Len(history) \in Nat
      /\ DOMAIN completed = 1..Len(completed)
  BY <1>0 DEF Typed
<1>5. pending \in Actions
  <2>1. Len(completed) + 1 \in 1..Len(history) + 1
    BY <1>3, <1>4
  <2> QED
    BY <1>0, <1>3, <2>1, WantedType
<1>6. /\ completed' \in Seq(Actions) /\ Len(completed') = Len(completed) + 1
      /\ DOMAIN completed' = 1..Len(completed) + 1
      /\ \A n \in 1..Len(completed) : completed'[n] = completed[n]
      /\ completed'[Len(completed) + 1] = pending
  BY <1>2, <1>4, <1>5
<1>7. /\ shown' \in -1..Len(feed.posts) /\ expanded' \subseteq Posts /\ IsFiniteSet(expanded')
      /\ Here' = ShowsAfter(View, Here, pending)
  BY <1>0, <1>2, <1>5, EffectShows
<1>8. Wanted' = Wanted /\ Wanted \in Seq(Actions) /\ Len(Wanted) = Len(history) + 1
  BY <1>0, <1>2, <1>3, WantedType DEF Wanted
<1>9. late = 0 /\ late' \in 0..1 /\ (~stop => late' = 0)
  BY <1>0, <1>1, <1>2 DEF Prompt
<1>10. \A n \in DOMAIN completed' : completed'[n] = Wanted[n]
  BY <1>3, <1>4, <1>6
<1>11. Typed'
  <2>1. count' \in [pages : 0..MaxPages, interactions : 0..MaxInteractions, shells : Nat]
    <3>1. /\ count \in [pages : 0..MaxPages, interactions : 0..MaxInteractions, shells : Nat]
          /\ count.interactions + 1 \in 0..MaxInteractions
      BY <1>0, <1>3, Limits DEF Typed
    <3> QED
      BY <1>2, <3>1
  <2>2. late' \in Nat
    BY <1>9
  <2> QED
    BY <1>0, <1>1, <1>2, <1>6, <1>7, <2>1, <2>2 DEF Typed, Steps
<1>12. PostsBounded'
  BY <1>0, <1>2 DEF PostsBounded
<1>13. Positioned'
  <2>1. CASE Len(completed') = Len(Wanted)
    <3>1. completed' = Wanted
      <4>1. Len(completed') = Len(Wanted) /\ DOMAIN completed' = 1..Len(Wanted)
        BY <2>1, <1>6
      <4> QED
        BY <4>1, <1>6, <1>8, <1>10, SeqEqual
    <3>2. pc' = "render"
      BY <1>1, <2>1
    <3> QED
      BY <1>0, <1>2, <1>3, <1>8, <3>1, <3>2
      DEF Positioned, Running, Replaying, Rendered
  <2>2. CASE Len(completed') # Len(Wanted)
    <3>1. pc' = "call" /\ Len(completed') <= Len(history)
      BY <1>1, <1>3, <1>4, <1>6, <1>8, <2>2
    <3>2. captured = {}
      BY <1>3, <1>4, <1>6, <1>8, <2>2
    <3> QED
      BY <1>0, <1>2, <1>3, <1>8, <1>10, <3>1, <3>2
      DEF Positioned, Running, Replaying, Rendered
  <2> QED
    BY <2>1, <2>2
<1>14. Prompt'
  BY <1>1, <1>2, <1>9 DEF Prompt
<1>15. ASSUME ~slipped' PROVE Told'
  <2>1. Told
    BY <1>1, <1>2, <1>15 DEF Inv
  <2> QED
    BY <1>0, <1>1, <1>2, <1>5, <2>1, OperateTold
<1>16. Viewed'
  <2>1. View' = View
    BY <1>2 DEF View
  <2> QED
    BY <1>0, <1>1, <1>2, <2>1 DEF Viewed
<1>17. ASSUME NEW w, views' = {w}, next' # NoAction, ~slipped'
       PROVE  Traced(w)'
  <2>1. w = View
    BY <1>0, <1>1, <1>2, <1>17 DEF Viewed
  <2>2. Traced(w)
    BY <1>2, <1>17 DEF Inv
  <2>3. PICK pages : /\ Path(w, Wanted, pages)
                     /\ Here = PageAt(w, Wanted, pages, Len(completed))
    BY <1>1, <2>2 DEF Traced
  <2> DEFINE n == Len(completed)
  <2>4. n \in Nat /\ n <= Len(Wanted) - 1 /\ Len(Wanted) \in Nat
    BY <1>3, <1>4, <1>8
  <2>5. Here = pages[n]
    BY <2>3, <2>4 DEF PageAt
  <2>6. Here' = ShowsAfter(w, pages[n], Wanted[n + 1])
    BY <1>3, <1>7, <2>1, <2>5
  <2>7. Here' = PageAt(w, Wanted, pages, n + 1)
    <3>1. CASE n + 1 < Len(Wanted)
      <4>1. n + 1 \in 0..Len(Wanted) - 1 /\ n + 1 > 0 /\ n + 1 - 1 = n
        BY <2>4, <3>1
      <4>2. pages[n + 1] = ShowsAfter(w, pages[n + 1 - 1], Wanted[n + 1])
        BY <2>3, <4>1 DEF Path
      <4> QED
        BY <2>6, <3>1, <4>1, <4>2 DEF PageAt
    <3>2. CASE ~(n + 1 < Len(Wanted))
      <4>1. n + 1 - 1 = n
        BY <2>4
      <4> QED
        BY <2>6, <3>2, <4>1 DEF PageAt
    <3> QED
      BY <3>1, <3>2
  <2>8. \E p : /\ Path(w, Wanted', p)
               /\ pc' \in Running => Here' = PageAt(w, Wanted', p, Len(completed'))
    BY <1>6, <1>8, <2>3, <2>7
  <2> QED
    BY <2>8 DEF Traced
<1> QED
  BY <1>11, <1>12, <1>13, <1>14, <1>15, <1>16, <1>17 DEF Inv

(* OperateFails: the attempt leaves no trace, or one that is remembered. *)
LEMMA OperateFailsKeeps ==
  ASSUME Inv, OperateFails
  PROVE  Inv'
<1>0. Typed /\ Positioned /\ Prompt /\ PostsBounded /\ Viewed
  BY DEF Inv
<1>1. pc = "operate" /\ pc' = "check" /\ pc \in Running /\ pc' \in Running
  BY DEF OperateFails, Running, Replaying, Rendered
<1>2. /\ UNCHANGED <<job, history, next, saved, sessions, known, completed, pending, captured,
                     count, page, stop, views>>
      /\ tries < MaxRetries /\ tries' = tries + 1
      /\ \/ UNCHANGED <<feed, shown, expanded, late, slipped>>
         \/ /\ Reachable(pending) /\ Effect(pending) /\ slipped' = TRUE
            /\ late' = IF stop THEN late + 1 ELSE late
  BY DEF OperateFails, Counted, durable, dom, ghosts
<1>3. pending \in Actions
  <2>1. /\ next # NoAction /\ Len(completed) <= Len(history)
        /\ pending = Wanted[Len(completed) + 1]
    BY <1>0, <1>1 DEF Positioned, Replaying
  <2>2. Len(completed) \in Nat /\ Len(history) \in Nat
    BY <1>0 DEF Typed
  <2>3. Len(completed) + 1 \in 1..Len(history) + 1
    BY <2>1, <2>2
  <2> QED
    BY <1>0, <2>1, <2>3, WantedType
<1>4. feed' = feed /\ shown' \in -1..Len(feed.posts) /\ expanded' \subseteq Posts
      /\ IsFiniteSet(expanded')
  <2>1. CASE UNCHANGED <<feed, shown, expanded>>
    BY <1>0, <2>1 DEF Typed
  <2>2. CASE Reachable(pending) /\ Effect(pending)
    BY <1>0, <1>3, <2>2, EffectShows
  <2> QED
    BY <1>2, <2>1, <2>2
<1>5. late = 0 /\ late' \in 0..1 /\ (~stop => late' = 0)
  BY <1>0, <1>1, <1>2 DEF Prompt
<1>6. Typed'
  <2>1. tries' \in 0..MaxRetries
    BY <1>0, <1>2, Limits DEF Typed
  <2>2. late' \in Nat
    BY <1>5
  <2>3. slipped' \in BOOLEAN
    BY <1>0, <1>2 DEF Typed
  <2> QED
    BY <1>0, <1>1, <1>2, <1>4, <2>1, <2>2, <2>3 DEF Typed, Steps
<1>7. PostsBounded'
  BY <1>0, <1>2 DEF PostsBounded
<1>8. Wanted' = Wanted
  BY <1>2 DEF Wanted
<1>9. Positioned'
  BY <1>0, <1>1, <1>2, <1>8 DEF Positioned, Running, Replaying, Rendered
<1>10. Prompt'
  BY <1>1, <1>2, <1>5 DEF Prompt
<1>11. ASSUME ~slipped' PROVE Told'
  <2>1. UNCHANGED <<feed, shown, expanded, slipped>>
    BY <1>2, <1>11
  <2>2. Told
    BY <1>1, <1>11, <2>1 DEF Inv
  <2> QED
    BY <1>1, <1>2, <2>1, <2>2, ToldFrame DEF Told
<1>12. Viewed'
  <2>1. View' = View
    BY <1>2, <1>4 DEF View
  <2> QED
    BY <1>0, <1>1, <1>2, <2>1 DEF Viewed
<1>13. ASSUME NEW w, views' = {w}, next' # NoAction, ~slipped'
       PROVE  Traced(w)'
  <2>1. UNCHANGED <<feed, shown, expanded, slipped>>
    BY <1>2, <1>13
  <2>2. Traced(w)
    BY <1>2, <1>13, <2>1 DEF Inv
  <2> QED
    BY <1>1, <1>2, <2>1, <2>2, TracedFrame
<1> QED
  BY <1>6, <1>7, <1>9, <1>10, <1>11, <1>12, <1>13 DEF Inv

(* Render: the page is kept within the limit, and what comes next is what a
   browser with this view does next. *)
LEMMA RenderKeeps ==
  ASSUME Inv, Render
  PROVE  Inv'
<1>0. Typed /\ Positioned /\ Prompt /\ PostsBounded /\ Viewed
  BY DEF Inv
<1>1. pc = "render" /\ pc' = "return" /\ pc \in Running /\ pc' \in Running
  BY DEF Render, Running, Replaying, Rendered
<1>2. /\ UNCHANGED <<job, history, next, saved, sessions, feed, shown, expanded, known,
                     completed,
                     tries, stop, late, slipped, views>>
      /\ captured' = Bounded /\ page' = Visible \cap Bounded /\ pending' = Derived(Bounded)
      /\ count.pages < MaxPages
      /\ count' = [count EXCEPT !.pages = @ + 1, !.shells = IF shown <= 0 THEN @ + 1 ELSE 0]
  BY DEF Render, durable, dom, ghosts
<1>3. /\ completed \in Seq(Actions) /\ Len(completed) \in Nat
      /\ IF next = NoAction THEN completed = <<>> /\ shown = feed.start /\ expanded = {}
         ELSE completed = Wanted /\ Len(history) + 1 < MaxPages
  BY <1>0, <1>1 DEF Typed, Positioned, Rendered
<1>4. Len(completed) < MaxPages
  <2>1. CASE next = NoAction
    BY <1>3, <2>1, Limits
  <2>2. CASE next # NoAction
    BY <1>0, <1>3, <2>2, WantedType
  <2> QED
    BY <2>1, <2>2
<1>5. /\ IsFiniteSet(Bounded) /\ Bounded \subseteq Posts
      /\ Cardinality(Bounded) <= MaxRecent /\ Bounded \cap known = {}
  BY <1>0, BoundedKept
<1>6. /\ pending' \in Actions \cup {NoAction}
      /\ pending' # NoAction /\ pending'[1] = "scroll" => shown < Len(feed.posts)
  BY <1>0, <1>2, <1>4, DerivedType
<1>7. Typed'
  <2>1. count' \in [pages : 0..MaxPages, interactions : 0..MaxInteractions, shells : Nat]
    <3>1. /\ count \in [pages : 0..MaxPages, interactions : 0..MaxInteractions, shells : Nat]
      BY <1>0 DEF Typed
    <3>2. count.pages + 1 \in 0..MaxPages /\ count.shells + 1 \in Nat
      BY <1>2, <3>1, Limits
    <3> QED
      BY <1>2, <3>1, <3>2
  <2>2. page' \subseteq captured'
    BY <1>2
  <2> QED
    BY <1>0, <1>1, <1>2, <1>5, <1>6, <2>1, <2>2 DEF Typed, Steps
<1>8. PostsBounded'
  BY <1>2, <1>5 DEF PostsBounded
<1>9. Wanted' = Wanted
  BY <1>2 DEF Wanted
<1>10. Positioned'
  BY <1>0, <1>1, <1>2, <1>3, <1>9 DEF Positioned, Running, Replaying, Rendered
<1>11. Prompt'
  BY <1>0, <1>1, <1>2 DEF Prompt
<1>12. ASSUME ~slipped' PROVE Told'
  <2>1. Told
    BY <1>1, <1>2, <1>12 DEF Inv
  <2> QED
    BY <1>2, <1>6, <2>1, ToldFrame
<1>13. Viewed'
  <2>1. View' = View /\ Here' = Here
    BY <1>2 DEF View, Here
  <2>2. pending' # NoAction => pending' = NextAt(View, Here, Scrolls(completed, Len(completed)))
    BY <1>0, <1>2, DerivedNext
  <2> QED
    BY <1>0, <1>1, <1>2, <2>1, <2>2 DEF Viewed
<1>14. ASSUME NEW w, views' = {w}, next' # NoAction, ~slipped'
       PROVE  Traced(w)'
  <2>1. Traced(w)
    BY <1>2, <1>14 DEF Inv
  <2> QED
    BY <1>1, <1>2, <2>1, TracedFrame
<1> QED
  BY <1>7, <1>8, <1>10, <1>11, <1>12, <1>13, <1>14 DEF Inv

(* CommitPage with an interaction to come: the checkpoint goes one interaction
   further along the way. *)
LEMMA CheckpointKeeps ==
  ASSUME Inv, CommitPage, pending # NoAction
  PROVE  Inv'
<1>0. Typed /\ Positioned /\ Prompt /\ PostsBounded /\ Viewed
  BY DEF Inv
<1>1. pc = "return" /\ pc' = "call" /\ pc \in Running /\ pc' \in Running
  BY DEF CommitPage, Running, Replaying, Rendered
<1>2. /\ UNCHANGED <<job, sessions, feed, shown, expanded, known, completed, pending, captured,
                     count, tries, stop, late, slipped, views>>
      /\ saved' = saved \cup page /\ page' = {}
      /\ Len(completed) + 1 < MaxPages /\ history' = completed /\ next' = pending
  BY DEF CommitPage, dom
<1>3. /\ completed \in Seq(Actions) /\ Len(completed) \in Nat /\ pending \in Actions
      /\ DOMAIN completed = 1..Len(completed)
  BY <1>0 DEF Typed
<1>4. /\ Wanted' = Append(completed, pending) /\ Len(Wanted') = Len(completed) + 1
      /\ \A n \in 1..Len(completed) : Wanted'[n] = completed[n]
      /\ Wanted'[Len(completed) + 1] = pending
  BY <1>2, <1>3 DEF Wanted
<1>5. IF next = NoAction THEN completed = <<>> /\ shown = feed.start /\ expanded = {}
      ELSE completed = Wanted
  BY <1>0, <1>1 DEF Positioned, Rendered
<1>6. Typed'
  BY <1>0, <1>1, <1>2, <1>3 DEF Typed, Steps
<1>7. PostsBounded'
  BY <1>0, <1>2 DEF PostsBounded
<1>8. Positioned'
  BY <1>1, <1>2, <1>3, <1>4 DEF Positioned, Running, Replaying, Rendered
<1>9. Prompt'
  BY <1>0, <1>1, <1>2 DEF Prompt
<1>10. ASSUME ~slipped' PROVE Told'
  <2>1. Told
    BY <1>1, <1>2, <1>10 DEF Inv
  <2> QED
    BY <1>1, <1>2, <2>1, ToldFrame DEF Told
<1>11. Viewed'
  <2>1. View' = View
    BY <1>2 DEF View
  <2> QED
    BY <1>0, <1>1, <1>2, <2>1 DEF Viewed
<1>12. ASSUME NEW w, views' = {w}, next' # NoAction, ~slipped'
       PROVE  Traced(w)'
  <2>1. w = View
    BY <1>0, <1>1, <1>2, <1>12 DEF Viewed
  <2>2. pending = NextAt(w, Here, Scrolls(Wanted', Len(completed)))
    <3>1. pending = NextAt(w, Here, Scrolls(completed, Len(completed)))
      BY <1>0, <1>1, <2>1, <1>2, <1>12 DEF Viewed
    <3>2. Scrolls(completed, Len(completed)) = Scrolls(Wanted', Len(completed))
      BY <1>4, ScrollsShared
    <3> QED
      BY <3>1, <3>2
  <2>3. \E p : Path(w, Wanted', p) /\ p[Len(completed)] = Here
    <3>1. CASE next = NoAction
      <4> DEFINE p == [k \in {0} |-> Here]
      <4>1. Len(completed) = 0 /\ Here = [shown |-> w.feed.start, expanded |-> {}]
        <5>1. completed = <<>> /\ shown = feed.start /\ expanded = {}
          BY <1>5, <3>1
        <5>2. w.feed = feed
          BY <2>1 DEF View
        <5> QED
          BY <5>1, <5>2 DEF Here
      <4>2. p[0] = Here
        OBVIOUS
      <4> HIDE DEF p
      <4>3. ASSUME NEW k \in 0..Len(Wanted') - 1
            PROVE  /\ Wanted'[k + 1] = NextAt(w, p[k], Scrolls(Wanted', k))
                   /\ ~(k > 0)
        <5>1. k = 0 /\ k = Len(completed)
          BY <1>4, <4>1
        <5>2. Wanted'[k + 1] = pending
          BY <1>4, <5>1
        <5>3. p[k] = Here
          BY <4>2, <5>1
        <5>4. pending = NextAt(w, p[k], Scrolls(Wanted', k))
          BY <2>2, <5>1, <5>3
        <5> QED
          BY <5>1, <5>2, <5>4
      <4>4. Path(w, Wanted', p)
        BY <4>1, <4>2, <4>3 DEF Path
      <4> QED
        BY <4>1, <4>2, <4>4
    <3>2. CASE next # NoAction
      <4>1. Traced(w)
        BY <1>2, <1>12, <3>2 DEF Inv
      <4>2. PICK pages : /\ Path(w, Wanted, pages)
                         /\ Here = PageAt(w, Wanted, pages, Len(completed))
        BY <1>1, <4>1 DEF Traced
      <4> DEFINE n == Len(completed)
                 p == [k \in 0..n |-> IF k < n THEN pages[k] ELSE Here]
      <4>3. completed = Wanted /\ n \in Nat /\ n > 0 /\ Len(Wanted') = n + 1
        <5>1. completed = Wanted
          BY <1>5, <3>2
        <5>2. Len(Wanted) > 0
          BY <1>0, <3>2, WantedType
        <5> QED
          BY <1>3, <1>4, <5>1, <5>2
      <4>4. Here = ShowsAfter(w, pages[n - 1], completed[n])
        BY <4>2, <4>3 DEF PageAt
      <4>5. p[n] = Here /\ \A k \in 0..n - 1 : p[k] = pages[k]
        BY <4>3
      <4>6. /\ pages[0] = [shown |-> w.feed.start, expanded |-> {}]
            /\ \A k \in 0..n - 1 :
                 /\ completed[k + 1] = NextAt(w, pages[k], Scrolls(completed, k))
                 /\ k > 0 => pages[k] = ShowsAfter(w, pages[k - 1], completed[k])
        BY <4>2, <4>3 DEF Path
      <4> HIDE DEF p
      <4>7. p[0] = [shown |-> w.feed.start, expanded |-> {}]
        BY <4>3, <4>5, <4>6
      <4>8. ASSUME NEW k \in 0..n
            PROVE  /\ Wanted'[k + 1] = NextAt(w, p[k], Scrolls(Wanted', k))
                   /\ k > 0 => p[k] = ShowsAfter(w, p[k - 1], Wanted'[k])
        <5>1. CASE k = n
          <6>1. Wanted'[k + 1] = NextAt(w, p[k], Scrolls(Wanted', k))
            BY <1>4, <2>2, <4>5, <5>1
          <6>2. n - 1 \in 0..n - 1 /\ n \in 1..n
            BY <4>3
          <6>3. p[n - 1] = pages[n - 1] /\ Wanted'[n] = completed[n]
            BY <1>4, <4>5, <6>2
          <6>4. p[k] = ShowsAfter(w, p[k - 1], Wanted'[k])
            BY <4>4, <4>5, <5>1, <6>3
          <6> QED
            BY <6>1, <6>4
        <5>2. CASE k # n
          <6>1. k \in 0..n - 1 /\ k + 1 \in 1..n
            BY <4>3, <5>2
          <6>2. Scrolls(Wanted', k) = Scrolls(completed, k)
            <7>1. \A m \in 1..k : m \in 1..n
              BY <4>3, <6>1
            <7>2. \A m \in 1..k : Wanted'[m] = completed[m]
              BY <1>4, <7>1
            <7> QED
              BY <7>2, ScrollsShared
          <6>3. Wanted'[k + 1] = NextAt(w, p[k], Scrolls(Wanted', k))
            BY <1>4, <4>5, <4>6, <6>1, <6>2
          <6>4. ASSUME k > 0 PROVE p[k] = ShowsAfter(w, p[k - 1], Wanted'[k])
            <7>1. k - 1 \in 0..n - 1 /\ k \in 1..n
              BY <6>1, <6>4
            <7> QED
              BY <1>4, <4>5, <4>6, <6>1, <6>4, <7>1
          <6> QED
            BY <6>3, <6>4
        <5> QED
          BY <5>1, <5>2
      <4>9. Path(w, Wanted', p)
        <5>1. 0..Len(Wanted') - 1 = 0..n
          BY <4>3
        <5> HIDE DEF n
        <5> QED
          BY <4>7, <4>8, <5>1 DEF Path
      <4> QED
        BY <4>5, <4>9
    <3> QED
      BY <3>1, <3>2
  <2>4. PICK p : Path(w, Wanted', p) /\ p[Len(completed)] = Here
    BY <2>3
  <2>5. Here' = PageAt(w, Wanted', p, Len(completed'))
    <3>1. Here' = Here
      BY <1>2 DEF Here
    <3>2. Len(completed') = Len(completed) /\ Len(completed) < Len(Wanted')
      BY <1>2, <1>3, <1>4
    <3>3. PageAt(w, Wanted', p, Len(completed)) = p[Len(completed)]
      BY <3>2 DEF PageAt
    <3> QED
      BY <2>4, <3>1, <3>2, <3>3
  <2>6. \E q : /\ Path(w, Wanted', q)
               /\ pc' \in Running => Here' = PageAt(w, Wanted', q, Len(completed'))
    BY <2>4, <2>5
  <2> QED
    BY <2>6 DEF Traced
<1> QED
  BY <1>6, <1>7, <1>8, <1>9, <1>10, <1>11, <1>12 DEF Inv

-----------------------------------------------------------------------------
(***************************************************************************)
(* The theorems.                                                           *)
(***************************************************************************)

(* Every step keeps the invariant. *)
LEMMA NextKeeps ==
  ASSUME Inv, [Next]_vars
  PROVE  Inv'
<1>1. ASSUME NEW posts \in {{}, Before, Before \cup saved}, NEW view \in Feeds,
             OpenBrowser(posts, view)
      PROVE  Inv'
  BY <1>1, OpenBrowserKeeps
<1>2. CASE Navigate
  BY <1>2, NavigateKeeps
<1>3. CASE Perform
  BY <1>3, PerformKeeps
<1>4. CASE Check
  BY <1>4, CheckKeeps
<1>5. CASE Operate
  BY <1>5, OperateKeeps
<1>6. CASE OperateFails
  BY <1>6, OperateFailsKeeps
<1>7. CASE Render
  BY <1>7, RenderKeeps
<1>8. CASE CommitPage
  <2>1. CASE pending # NoAction
    BY <1>8, <2>1, CheckpointKeeps
  <2>2. CASE pending = NoAction
    <3>1. /\ Closed /\ UNCHANGED <<history, next, sessions, slipped, views>>
          /\ job' = "succeeded" /\ saved' = saved \cup page
      BY <1>8, <2>2 DEF CommitPage
    <3>2. saved' \subseteq Posts
      BY <3>1 DEF Inv, Typed
    <3> QED
      BY <3>1, <3>2, ClosedKeeps
  <2> QED
    BY <2>1, <2>2
<1>9. CASE Respond
  BY <1>9, RespondKeeps
<1>10. CASE StopCapture \/ Interrupt
  <2>1. job \in {"open", "succeeded", "failed"} /\ saved \subseteq Posts
    BY DEF Inv, Typed
  <2>2. /\ Closed /\ UNCHANGED <<history, next, saved, sessions, slipped, views>>
        /\ job' \in {"open", "succeeded", "failed"}
    BY <1>10, <2>1 DEF StopCapture, Interrupt, durable
  <2> QED
    BY <2>1, <2>2, ClosedKeeps
<1>11. CASE UNCHANGED vars
  <2>1. UNCHANGED <<job, history, next, saved, sessions, pc, feed, shown, expanded, known,
                    completed, pending, captured, count, tries, page, stop, late, slipped, views>>
    BY <1>11 DEF vars, durable, dom, memory, ghosts
  <2>2. Typed' /\ PostsBounded' /\ Prompt'
    BY <2>1 DEF Inv, Typed, PostsBounded, Prompt
  <2>3. Wanted' = Wanted /\ View' = View /\ Here' = Here
    BY <2>1 DEF Wanted, View, Here
  <2>4. Positioned' /\ Viewed'
    BY <2>1, <2>3 DEF Inv, Positioned, Viewed
  <2>5. ~slipped' /\ pc' \in Running => Told'
    BY <2>1, ToldFrame DEF Inv, Told
  <2>6. ASSUME NEW w, views' = {w}, next' # NoAction, ~slipped'
        PROVE  Traced(w)'
    <3>1. Traced(w)
      BY <2>1, <2>6 DEF Inv
    <3> QED
      BY <2>1, <3>1, TracedFrame
  <2> QED
    BY <2>2, <2>4, <2>5, <2>6 DEF Inv
<1> QED
  BY <1>1, <1>2, <1>3, <1>4, <1>5, <1>6, <1>7, <1>8, <1>9, <1>10, <1>11 DEF Next

(* The invariant holds in every state the processes of a job can reach. *)
THEOREM Invariance == Spec => []Inv
<1>1. Init => Inv
  BY InitHolds
<1>2. Inv /\ [Next]_vars => Inv'
  BY NextKeeps
<1> QED
  BY <1>1, <1>2, PTL DEF Spec

(* Every variable keeps its type: a process never passes its limits of pages and
   interactions, and never asks for a scroll beyond its pages. *)
THEOREM TypeCorrect == Spec => []TypeOK
<1>1. Inv => TypeOK
  <2> SUFFICES ASSUME Inv PROVE TypeOK
    OBVIOUS
  <2>1. Typed
    BY DEF Inv
  <2> QED
    BY <2>1 DEF Typed, TypeOK
<1> QED
  BY <1>1, Invariance, PTL

(* A checkpoint tells the truth about the page it was left on, over any number of
   processes: the expanded Posts and the rendered length are those of the
   interactions it names. *)
THEOREM CheckpointIsTold == Spec => []CheckpointTold
<1>1. Inv => CheckpointTold
  <2> SUFFICES ASSUME Inv, pc \in Rendered, ~slipped
               PROVE  /\ next # NoAction => completed = Wanted
                      /\ expanded \cap Marked = {completed[n][2] : n \in Done("expand")}
                      /\ Cardinality(expanded \cap Labelled) = Cardinality(Done("label"))
                      /\ shown = feed.start + Cardinality(Done("scroll"))
    BY DEF CheckpointTold, Rendered
  <2>1. Positioned /\ Told
    BY DEF Inv, Running
  <2> QED
    BY <2>1 DEF Positioned, Told
<1> QED
  BY <1>1, Invariance, PTL

(* A process keeps no more Posts than its limit and none that is known, however
   the feed grows between its pages. *)
THEOREM PostsAreBounded == Spec => []PostsBounded
<1>1. Inv => PostsBounded
  BY DEF Inv
<1> QED
  BY <1>1, Invariance, PTL

(* After a forbidden response at most one more interaction reaches the site. *)
THEOREM StopBitesAtOnce == Spec => []StopIsPrompt
<1>1. Inv => StopIsPrompt
  BY DEF Inv, Prompt, StopIsPrompt
<1> QED
  BY <1>1, Invariance, PTL

(* A checkpoint is rejected only if another feed or other known Posts came between
   the processes, or an interaction took effect twice. *)
THEOREM RejectionHasCause == Spec => []RejectedOnlyOnChange
<1>1. Inv => RejectedOnlyOnChange
  <2> SUFFICES ASSUME Inv, Rejected, ~slipped, ~(Cardinality(views) > 1)
               PROVE  FALSE
    BY DEF RejectedOnlyOnChange
  <2>0. Typed /\ Positioned /\ Viewed
    BY DEF Inv
  <2>1. pc = "call" /\ pc \in Running /\ Agreed # Wanted[Len(completed) + 1]
    BY DEF Rejected, Running, Replaying
  <2>2. /\ next # NoAction /\ Len(completed) <= Len(history)
        /\ \A n \in DOMAIN completed : completed[n] = Wanted[n]
        /\ IF pending = NoAction THEN captured = {} ELSE pending = next /\ completed = history
    BY <2>0, <2>1 DEF Positioned, Replaying
  <2>3. /\ Len(completed) \in Nat /\ DOMAIN completed = 1..Len(completed)
        /\ Len(history) \in Nat /\ Len(Wanted) = Len(history) + 1
        /\ Wanted[Len(history) + 1] = next
    BY <2>0, <2>2, WantedType DEF Typed
  <2>4. pending = NoAction /\ captured = {}
    BY <2>1, <2>2, <2>3 DEF Agreed
  <2>5. views = {View}
    <3>1. IsFiniteSet(views) /\ View \in views /\ Cardinality(views) \in Nat
      BY <2>0, <2>1, FS_CardinalityType DEF Typed, Viewed
    <3>2. Cardinality(views) # 0
      BY <3>1, FS_EmptySet
    <3>3. Cardinality(views) = 1
      BY <3>1, <3>2
    <3> QED
      BY <3>1, <3>3, FS_Singleton
  <2>6. Traced(View)
    BY <2>2, <2>5 DEF Inv
  <2>7. PICK pages : /\ Path(View, Wanted, pages)
                     /\ Here = PageAt(View, Wanted, pages, Len(completed))
    BY <2>1, <2>6 DEF Traced
  <2>8. Here = pages[Len(completed)]
    BY <2>2, <2>3, <2>7 DEF PageAt
  <2>9. Wanted[Len(completed) + 1] =
          NextAt(View, Here, Scrolls(Wanted, Len(completed)))
    <3>1. Len(completed) \in 0..Len(Wanted) - 1
      BY <2>2, <2>3
    <3> QED
      BY <2>7, <2>8, <3>1 DEF Path
  <2>10. Scrolls(Wanted, Len(completed)) = Scrolls(completed, Len(completed))
    BY <2>2, <2>3, ScrollsShared
  <2>11. Derived({}) = Wanted[Len(completed) + 1]
    BY <2>0, <2>9, <2>10, DerivedNext
  <2> QED
    BY <2>1, <2>4, <2>11 DEF Agreed
<1> QED
  BY <1>1, Invariance, PTL
=============================================================================
