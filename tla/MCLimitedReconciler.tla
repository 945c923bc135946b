-------------------------- MODULE MCLimitedReconciler --------------------------
EXTENDS LimitedReconciler
===============================================================================
