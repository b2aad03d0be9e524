------------------------------ MODULE MCDelivery ------------------------------
(* A small instance of Delivery: two processes, a job of two pages, both    *)
(* session classes, one of the exports that are written in place, and the   *)
(* SQLite export.                                                           *)
EXTENDS Delivery, TLC

CONSTANTS w1, w2, imported, guided_login
MCWorkers == {w1, w2}
MCClasses == {imported, guided_login}
MCTexts == <<"json">>
MCSymmetry == Permutations(MCWorkers) \cup Permutations(MCClasses)
=============================================================================
