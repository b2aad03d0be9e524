------------------------- MODULE MCTargetPreparation -------------------------
(***************************************************************************)
(* A small instance of TargetPreparation: two Groups, a page that shows    *)
(* one and a page that shows both, a list that names a Group twice.        *)
(***************************************************************************)
EXTENDS TargetPreparation, TLC

CONSTANTS g1, g2

MCGroups == {g1, g2}
MCViews == {<<g1>>, <<g2, g1>>}
MCLists == {<<g1, g1>>, <<g1, g2>>}
Symmetry == Permutations(Procs) \cup Permutations(Campaigns)
=============================================================================
