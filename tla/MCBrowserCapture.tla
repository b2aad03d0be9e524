--------------------------- MODULE MCBrowserCapture ---------------------------
(***************************************************************************)
(* A small instance of BrowserCapture: a Post with a marked control, two    *)
(* with a labelled one and a plain one; the Group shows three Posts after  *)
(* an empty shell or at once, gains a Post between two processes, or       *)
(* shows an empty shell twice.                                             *)
(***************************************************************************)
EXTENDS BrowserCapture

CONSTANTS a, b, c, d

MCPosts == {a, b, c, d}
MCMarked == {a}
MCLabelled == {b, c}
MCBefore == {c}
MCFeeds == {[posts |-> <<c, a, b>>, start |-> 1], [posts |-> <<c, a, b>>, start |-> 0],
            [posts |-> <<d, c, a, b>>, start |-> 4], [posts |-> <<a>>, start |-> -1]}
=============================================================================
