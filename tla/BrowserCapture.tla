---------------------------- MODULE BrowserCapture ----------------------------
(***************************************************************************)
(* The browser side of one live capture job                                *)
(* (src/src/app/capture/playwright_adapter.py): each page leaves a         *)
(* checkpoint that names the interactions done and the next one; a resumed *)
(* process opens a new browser, repeats the history and goes on.           *)
(*                                                                         *)
(* A rendering is a prefix of the Group's feed.  Some Posts have a control *)
(* that expands them: a marked one is found by its own selector, the       *)
(* others share one label and are found by it.  The site answers a click,  *)
(* an error or a forbidden response; it may show another feed to a later   *)
(* process.                                                                *)
(***************************************************************************)
EXTENDS Integers, Sequences, FiniteSets

CONSTANTS
  Posts,           \* Post ids
  Feeds,           \* what the Group page may show: its Posts, newest first, and
                   \* how many of them before the first scroll (negative: a
                   \* shell that takes more than one scroll to show a Post)
  Marked,          \* Posts with a data-pgscan-expand-post control
  Labelled,        \* Posts whose control has the common label
  Before,          \* Posts that earlier jobs have captured
  MaxRecent,       \* limits.max_recent_posts
  MaxPages,        \* limits.max_pages
  MaxInteractions, \* limits.max_interactions
  MaxRetries,      \* limits.max_retries
  MaxShells,       \* limits.max_empty_group_shell_pages
  MaxSessions,     \* bound on the number of processes
  NoAction         \* nothing is left to do; no checkpoint

ASSUME BrowserAssumption ==
  /\ Feeds \subseteq [posts : Seq(Posts), start : Int] /\ Feeds # {}
  /\ \A view \in Feeds : view.posts # <<>> /\ view.start \in -1..Len(view.posts) /\
       \A m, n \in DOMAIN view.posts : view.posts[m] = view.posts[n] => m = n
  /\ Marked \cap Labelled = {} /\ Marked \cup Labelled \cup Before \subseteq Posts
  /\ {MaxRecent, MaxPages, MaxInteractions, MaxShells} \subseteq Nat \ {0}
  /\ {MaxRetries, MaxSessions} \subseteq Nat

VARIABLES
  job,       \* "open", "succeeded" or "failed"
  history,   \* interactions the latest durable checkpoint names as completed
  next,      \* its pending interaction (NoAction: no checkpoint yet)
  saved,     \* Posts on the checkpointed pages of this job
  sessions,  \* processes started so far
  pc,        \* where the running process is
  known,     \* its known_post_ids
  feed,      \* the feed its browser shows
  shown,     \* how many Posts of the feed are rendered (none below one)
  expanded,  \* Posts whose control was clicked
  completed, \* _completed
  pending,   \* _pending
  captured,  \* _captured_post_ids
  count,     \* _page_count, _interaction_count, _empty_group_shell_pages
  tries,     \* failed attempts of the running operation
  page,      \* the Posts on the rendering it returns
  stop,      \* _stop_failure is set
  late,      \* interactions done after the stop was set
  slipped,   \* an interaction of the job took effect and was tried again
  views      \* what the processes since the first checkpoint's started from

durable == <<job, history, next, saved, sessions>>
dom == <<feed, shown, expanded>>
memory == <<known, completed, pending, captured, count, tries, page, stop>>
ghosts == <<late, slipped, views>>
vars == <<durable, pc, dom, memory, ghosts>>

Steps == {"idle", "goto", "call", "check", "operate", "render", "return"}
Actions == {<<"expand", p>> : p \in Marked} \cup {<<"label", 0>>}
             \cup {<<"scroll", n>> : n \in 1..MaxPages}
NoCount == [pages |-> 0, interactions |-> 0, shells |-> 0]

ASSUME NoActionAssumption == NoAction \notin Actions

-----------------------------------------------------------------------------
(* The rendered Posts. *)
Posted(n) == feed.posts[n]
Visible == {Posted(n) : n \in 1..shown}
(* _permitted_post_ids: the first max_recent_posts of them. *)
Permitted == {Posted(n) : n \in 1..shown \cap 1..MaxRecent}
(* Controls of unknown, permitted Posts. *)
Controls(kind) == {n \in 1..shown : Posted(n) \in (kind \cap Permitted) \ (expanded \cup known)}
First(positions) == CHOOSE n \in positions : \A m \in positions : n <= m
(* _history_boundary_reached: enough Posts, the end of the content, or a Post
   at the lower bound of the capture, which is where a feed ends here. *)
Boundary(posts) ==
  Cardinality(posts) >= MaxRecent \/ shown >= MaxRecent \/ shown = Len(feed.posts)
(* Mutant of ScrollNumber: scrolls are numbered by the pages of the process. *)
ScrollsHere == count.pages + 1
ScrollNumber == 1 + Cardinality({n \in DOMAIN completed : completed[n][1] = "scroll"})
(* _derive_next_action. *)
Derived(posts) ==
  IF Controls(Marked) # {} THEN <<"expand", Posted(First(Controls(Marked)))>>
  ELSE IF Controls(Labelled) # {} THEN <<"label", 0>>
  ELSE IF Boundary(posts) THEN NoAction
  ELSE <<"scroll", ScrollNumber>>

(* The positions whose control a click on the label may reach: `first` takes
   the first such button of the page, whoever's it is. *)
LabelTargets == {n \in 1..shown : Posted(n) \in Labelled \ expanded}
(* The target of a click is there. *)
Reachable(action) ==
  CASE action[1] = "expand" -> action[2] \in Visible \ expanded
    [] action[1] = "label" -> LabelTargets # {}
    [] OTHER -> TRUE
(* What the page does when the interaction reaches it. *)
Effect(action) ==
  CASE action[1] = "expand" -> expanded' = expanded \cup {action[2]} /\ UNCHANGED <<feed, shown>>
    [] action[1] = "label" ->
         expanded' = expanded \cup {Posted(First(LabelTargets))} /\ UNCHANGED <<feed, shown>>
    [] OTHER -> /\ shown' = IF shown < Len(feed.posts) THEN shown + 1 ELSE shown
                /\ UNCHANGED <<feed, expanded>>

-----------------------------------------------------------------------------
Closed == /\ pc' = "idle" /\ known' = {} /\ completed' = <<>> /\ pending' = NoAction
          /\ captured' = {} /\ count' = NoCount /\ tries' = 0 /\ page' = {}
          /\ stop' = FALSE /\ late' = 0
          /\ shown' = 0 /\ expanded' = {} /\ UNCHANGED feed

Init ==
  /\ job = "open" /\ history = <<>> /\ next = NoAction /\ saved = {} /\ sessions = 0
  /\ pc = "idle" /\ known = {} /\ feed \in Feeds /\ shown = 0 /\ expanded = {}
  /\ completed = <<>> /\ pending = NoAction /\ captured = {} /\ count = NoCount
  /\ tries = 0 /\ page = {} /\ stop = FALSE /\ late = 0 /\ slipped = FALSE
  /\ views = {}

(* A process opens a browser: _known_post_ids reads what jobs have
   checkpointed, a library caller passes what it wants. *)
OpenBrowser(posts, view) ==
  /\ pc = "idle" /\ job = "open" /\ sessions < MaxSessions
  /\ sessions' = sessions + 1
  /\ known' = posts /\ feed' = view
  /\ views' = (IF next = NoAction THEN {} ELSE views) \cup {[known |-> posts, feed |-> view]}
  /\ pc' = "goto"
  /\ UNCHANGED <<job, history, next, saved, shown, expanded, completed, pending,
                 captured, count, tries, page, stop, late, slipped>>

(* _ensure_page: the navigation succeeds; a shell may show no Post yet. *)
Navigate ==
  /\ pc = "goto" /\ ~stop
  /\ shown' = feed.start
  /\ tries' = 0
  /\ pc' = IF next = NoAction THEN "render" ELSE "call"
  /\ UNCHANGED <<durable, feed, expanded, known, completed, pending, captured, count,
                 page, stop, ghosts>>

(* The interactions the checkpoint asks for, in order. *)
Wanted == Append(history, next)
(* A new browser derives each of them again; an open one trusts _pending. *)
Agreed == IF pending # NoAction THEN pending ELSE Derived(captured)
(* checkpoint_invalid. *)
Rejected == pc = "call" /\ Agreed # Wanted[Len(completed) + 1]

(* Mutant of Perform: no interaction limit. *)
PerformUnlimited ==
  /\ pc = "call" /\ ~Rejected
  /\ count.pages < MaxPages
  /\ pending' = Agreed
  /\ tries' = 0
  /\ pc' = "check"
  /\ UNCHANGED <<durable, dom, known, completed, captured, count, page, stop, ghosts>>
(* __call__ with a checkpoint: the next interaction of its history. *)
Perform ==
  /\ pc = "call" /\ ~Rejected
  /\ count.pages < MaxPages /\ count.interactions < MaxInteractions
  /\ pending' = Agreed
  /\ tries' = 0
  /\ pc' = "check"
  /\ UNCHANGED <<durable, dom, known, completed, captured, count, page, stop, ghosts>>

(* Mutant of StopSeen: attempts do not look for a stop. *)
StopIgnored == FALSE
StopSeen == stop
(* _retry: every attempt begins with a look for a stop or a lost account; the
   look itself talks to the browser, which may deliver a response then. *)
Check ==
  /\ pc = "check" /\ ~StopSeen
  /\ pc' = "operate"
  /\ UNCHANGED <<durable, dom, memory, ghosts>>

Counted == late' = IF stop THEN late + 1 ELSE late
(* The interaction succeeds, and the pace after it is kept; if a stop came
   meanwhile, nothing of it is used but the site has seen it. *)
Operate ==
  /\ pc = "operate" /\ Reachable(pending)
  /\ Effect(pending)
  /\ Counted
  /\ completed' = Append(completed, pending)
  /\ pending' = NoAction
  /\ count' = [count EXCEPT !.interactions = @ + 1]
  /\ pc' = IF Len(completed') = Len(Wanted) THEN "render" ELSE "call"
  /\ UNCHANGED <<durable, known, feed, captured, tries, page, stop, slipped, views>>

(* Mutant of OperateFails: a failed interaction is recorded as completed. *)
OperateFailsQuietly ==
  /\ pc = "operate" /\ tries < MaxRetries
  /\ completed' = Append(completed, pending)
  /\ pending' = NoAction
  /\ pc' = IF Len(completed') = Len(Wanted) THEN "render" ELSE "call"
  /\ UNCHANGED <<durable, dom, known, captured, count, tries, page, stop, ghosts>>
(* A Playwright error before or after the effect; the next attempt follows. *)
OperateFails ==
  /\ pc = "operate" /\ tries < MaxRetries
  /\ tries' = tries + 1
  /\ pc' = "check"
  /\ \/ UNCHANGED <<dom, ghosts>>
     \/ Reachable(pending) /\ Effect(pending) /\ Counted /\ slipped' = TRUE
        /\ UNCHANGED views
  /\ UNCHANGED <<durable, known, completed, pending, captured, count, page, stop>>

(* Mutant of Bounded: an off-by-one in the limit. *)
BoundedLate ==
  LET unseen == {n \in 1..shown : Posted(n) \notin known \cup captured}
  IN captured \cup {Posted(n) : n \in {m \in unseen :
       Cardinality(captured) + Cardinality({k \in unseen : k < m}) <= MaxRecent}}
(* _bounded_html: known Posts and Posts beyond the limit are cut out. *)
Bounded ==
  LET unseen == {n \in 1..shown : Posted(n) \notin known \cup captured}
  IN captured \cup {Posted(n) : n \in {m \in unseen :
       Cardinality(captured) + Cardinality({k \in unseen : k < m}) < MaxRecent}}

(* The rendering and the next interaction; an empty shell too often stops. *)
Render ==
  /\ pc = "render" /\ ~stop
  /\ count.pages < MaxPages
  /\ captured' = Bounded
  /\ page' = Visible \cap Bounded
  /\ count' = [count EXCEPT !.pages = @ + 1, !.shells = IF shown <= 0 THEN @ + 1 ELSE 0]
  /\ count'.shells < MaxShells \/ count'.shells <= 1
  /\ pending' = Derived(Bounded)
  /\ pc' = "return"
  /\ UNCHANGED <<durable, dom, known, completed, tries, stop, ghosts>>

(* The workflow saves the page and its checkpoint (LiveCapture). *)
CommitPage ==
  /\ pc = "return"
  /\ saved' = saved \cup page
  /\ IF pending = NoAction THEN job' = "succeeded" /\ Closed /\ UNCHANGED <<history, next>>
     ELSE /\ Len(completed) + 1 < MaxPages
          /\ history' = completed /\ next' = pending
          /\ pc' = "call" /\ page' = {}
          /\ UNCHANGED <<job, dom, known, completed, pending, captured, count, tries, stop, late>>
  /\ UNCHANGED <<sessions, slipped, views>>

(* _on_response: 401, 403 or 429, delivered whenever the browser is asked. *)
Respond ==
  /\ pc \in Steps \ {"idle", "return"} /\ ~stop
  /\ stop' = TRUE
  /\ UNCHANGED <<durable, pc, dom, known, completed, pending, captured, count, tries,
                 page, ghosts>>

(* BrowserStateError: the stop is seen, the account or the layout is lost, a
   limit is passed, the attempts are used up, the checkpoint is rejected. *)
StopCapture ==
  /\ pc # "idle"
  /\ job' = "failed"
  /\ Closed
  /\ UNCHANGED <<history, next, saved, sessions, slipped, views>>

(* The process is interrupted; the job can be resumed. *)
Interrupt ==
  /\ pc # "idle"
  /\ Closed
  /\ UNCHANGED <<durable, slipped, views>>

Next ==
  \/ \E posts \in {{}, Before, Before \cup saved}, view \in Feeds : OpenBrowser(posts, view)
  \/ Navigate \/ Perform \/ Check \/ Operate \/ OperateFails \/ Render \/ CommitPage
  \/ Respond \/ StopCapture \/ Interrupt

Spec == Init /\ [][Next]_vars

-----------------------------------------------------------------------------
(* Every variable keeps its type; a running process has opened a browser. *)
TypeOK ==
  /\ job \in {"open", "succeeded", "failed"}
  /\ history \in Seq(Actions) /\ next \in Actions \cup {NoAction}
  /\ saved \subseteq Posts /\ sessions \in 0..MaxSessions
  /\ pc \in Steps /\ known \subseteq Posts /\ feed \in Feeds
  /\ shown \in -1..Len(feed.posts) /\ expanded \subseteq Posts
  /\ completed \in Seq(Actions) /\ pending \in Actions \cup {NoAction}
  /\ captured \subseteq Posts /\ page \subseteq captured
  /\ count.pages \in 0..MaxPages /\ count.interactions \in 0..MaxInteractions
  /\ tries \in 0..MaxRetries /\ stop \in BOOLEAN /\ slipped \in BOOLEAN

(* A checkpoint tells the truth about the page it was left on: unless an
   interaction took effect twice, the expanded Posts and the rendered length
   are those of the interactions it names, over any number of resumes. *)
Done(kind) == {n \in DOMAIN completed : completed[n][1] = kind}
CheckpointTold ==
  pc \in {"render", "return"} /\ ~slipped =>
    /\ next # NoAction => completed = Wanted
    /\ expanded \cap Marked = {completed[n][2] : n \in Done("expand")}
    /\ Cardinality(expanded \cap Labelled) = Cardinality(Done("label"))
    /\ shown = feed.start + Cardinality(Done("scroll"))

(* The Posts of a process's pages are never more than the limit and never
   known ones, however the feed grows between its pages. *)
PostsBounded ==
  Cardinality(captured) <= MaxRecent /\ captured \cap known = {}

(* After a forbidden response at most one more interaction reaches the site,
   also while an operation is retried. *)
StopIsPrompt == late <= 1

(* A checkpoint is rejected only if something changed: another feed, another
   set of known Posts, or an interaction that took effect twice. *)
RejectedOnlyOnChange ==
  Rejected => slipped \/ Cardinality(views) > 1

(* README.md:169: "An interrupted run produces the same final identifier set
   as an uninterrupted run."  Resuming over an unchanged feed is not refused. *)
ResumeAccepted == Rejected => slipped \/ \E view \in views : view.feed # feed
=============================================================================
