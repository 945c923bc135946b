----------------------------- MODULE MCReconciler -----------------------------
(* Finite instances of Reconciler.                                           *)
EXTENDS Reconciler
===============================================================================
