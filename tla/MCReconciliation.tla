-------------------------- MODULE MCReconciliation --------------------------
(* Small instances of Reconciliation. *)
EXTENDS Reconciliation

CONSTANTS r1, o1
=============================================================================
