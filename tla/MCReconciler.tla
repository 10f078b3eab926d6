---------------------------- MODULE MCReconciler ----------------------------
(* Small instances of the reconciler. *)
EXTENDS Reconciler
=============================================================================
