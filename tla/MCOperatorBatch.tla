--------------------------- MODULE MCOperatorBatch ---------------------------
(***************************************************************************)
(* A small instance of OperatorBatch: discovery returns three Groups, or   *)
(* the first two of them.                                                  *)
(***************************************************************************)
EXTENDS OperatorBatch

CONSTANTS g1, g2, g3

MCTargetLists == {<<g1, g2, g3>>, <<g1, g2>>}
=============================================================================
