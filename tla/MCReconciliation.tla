--------------------------- MODULE MCReconciliation ---------------------------
(***************************************************************************)
(* Small instances of Reconciliation for TLC.                              *)
(***************************************************************************)
EXTENDS Reconciliation, TLC

CONSTANTS c1, w1

MCOne == {1}
MCOneDep == 1 :> {}
=============================================================================
