--------------------------- MODULE MCGatedReconciler ---------------------------
(* A finite instance of GatedReconciler: one key, a connecter without a key.  *)
EXTENDS GatedReconciler, Sequences

CONSTANT k1

\* A refusal that names a delay.
MCSignals ==
  {[throttled |-> TRUE, retryAfter |-> 2, resetAt |-> 0, limit |-> 0, remaining |-> 0,
    hasQuota |-> FALSE]}

\* No pressure, and too much of it.
MCSamples ==
  {[dir |-> TRUE, pressure |-> {p}, max |-> {}, current |-> {}, inactive |-> {}] : p \in {0, 60}}

-----------------------------------------------------------------------------
\* Reconciler keeps a reason per condition where the code keeps a slice of conditions.

Slices == INSTANCE ConditionedStatus WITH
  Types <- {"Ready", "Synced"}, Says <- ReadyReasons \cup SyncedReasons

\* The slices that may stand for the reasons r of Ready and s of Synced; "": not set.
SlicesOf(r, s) ==
  LET Cond(t, x) == IF x = "" THEN <<>> ELSE <<[type |-> t, says |-> x, at |-> 0]>>
  IN  {Cond("Ready", r) \o Cond("Synced", s), Cond("Synced", s) \o Cond("Ready", r)}

\* SetConditions of the slices is SetConditions of Reconciler, whichever way they are ordered.
ASSUME SlicesAreReasons ==
  \A o \in {SetConditions(NoObject, r, s) : r \in ReadyReasons, s \in SyncedReasons},
     r \in ReadyReasons \ {""}, s \in SyncedReasons \ {""} :
    \A slice \in SlicesOf(o.ready, o.synced) :
      LET new == Slices!SetConditions(slice, <<[type |-> "Ready", says |-> r, at |-> 1],
                                               [type |-> "Synced", says |-> s, at |-> 1]>>)
          was == SetConditions(o, r, s)
      IN  /\ Slices!SaidOf(new, "Ready") = {was.ready}
          /\ Slices!SaidOf(new, "Synced") = {was.synced}
          /\ Slices!OnePerType(new)
          /\ \A i \in DOMAIN slice : slice[i].says = new[i].says <=> new[i].at = 0
===============================================================================
