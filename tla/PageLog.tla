------------------------------- MODULE PageLog -------------------------------
(***************************************************************************)
(* What a durable live capture promises, independently of how it is        *)
(* stored: every job owns a log of committed pages that only grows at its  *)
(* end, each page continues from the cursor the previous one left, no      *)
(* cursor is followed twice, and the job is closed exactly once.           *)
(***************************************************************************)
EXTENDS Naturals, Sequences

CONSTANTS Jobs,      \* capture jobs
          Bytes,     \* renderings a page can have
          Cursors,   \* pagination cursors a page can leave
          NoCursor,  \* "no next page" (and the cursor of the first page)
          MaxPages   \* page bound of one job

VARIABLES log,       \* log[j]: the committed pages of job j, oldest first
          outcome    \* outcome[j]: "open", "succeeded" or "failed"

vars == <<log, outcome>>

(* The cursor from which the next page of a log is fetched. *)
NextCursor(pages) ==
  IF pages = <<>> THEN NoCursor ELSE pages[Len(pages)].cursor

(* A log is complete when its last page left no cursor. *)
Complete(pages) == pages # <<>> /\ pages[Len(pages)].cursor = NoCursor

Init == /\ log = [j \in Jobs |-> <<>>]
        /\ outcome = [j \in Jobs |-> "open"]

(* Page `bytes` is committed as the next page of job j and leaves cursor c. *)
Commit(j, bytes, c) ==
  /\ outcome[j] = "open"
  /\ ~Complete(log[j])
  /\ Len(log[j]) < (IF c = NoCursor THEN MaxPages ELSE MaxPages - 1)
  /\ c # NoCursor => \A n \in DOMAIN log[j] : log[j][n].cursor # c
  /\ log' = [log EXCEPT ![j] =
       Append(@, [capture |-> [job |-> j, page |-> Len(@) + 1,
                               cursor |-> NextCursor(@), bytes |-> bytes],
                  cursor |-> c])]
  /\ UNCHANGED outcome

(* A job succeeds with a complete log and fails only with an incomplete one. *)
Close(j) ==
  /\ outcome[j] = "open"
  /\ outcome' = [outcome EXCEPT ![j] =
                   IF Complete(log[j]) THEN "succeeded" ELSE "failed"]
  /\ UNCHANGED log

Next == \E j \in Jobs :
          \/ \E bytes \in Bytes, c \in Cursors \cup {NoCursor} : Commit(j, bytes, c)
          \/ Close(j)

Spec == Init /\ [][Next]_vars
=============================================================================
