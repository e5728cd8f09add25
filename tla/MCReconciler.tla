---------------------------- MODULE MCReconciler ----------------------------
(* One instance of Reconciler: the values of its structured constants. *)
EXTENDS Reconciler

SoldLimits == {2}
Cycles == {"MONTH"}
=============================================================================
