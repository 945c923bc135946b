--------------------------- MODULE ConditionedStatus ---------------------------
(***************************************************************************)
(* apis/common/v1/condition.go and pkg/resource/conditions.go: the slice   *)
(* that stands for a map from types to conditions.  A condition says its   *)
(* status, reason and message; at is its LastTransitionTime.               *)
(***************************************************************************)
EXTENDS Naturals, Sequences

CONSTANTS Types, Says

Conditions == [type : Types, says : Says, at : Nat]

\* Condition.Equal does not look at the time.
Equal(c, d) == c.type = d.type /\ c.says = d.says

Has(s, t) == \E i \in DOMAIN s : s[i].type = t

\* One round of SetConditions: a condition that says the same keeps its time.
SetCondition(s, c) ==
  IF Has(s, c.type)
  THEN [i \in 1..Len(s) |-> IF s[i].type = c.type /\ ~Equal(s[i], c) THEN c ELSE s[i]]
  ELSE Append(s, c)

SetConditions(s, cs) ==
  LET set[n \in 0..Len(cs)] == IF n = 0 THEN s ELSE SetCondition(set[n - 1], cs[n])
  IN  set[Len(cs)]

First(s, t) == CHOOSE i \in 1..Len(s) : s[i].type = t /\ \A j \in 1..(i - 1) : s[j].type # t

UpsertCondition(s, c) == IF Has(s, c.type) THEN [s EXCEPT ![First(s, c.type)] = c] ELSE Append(s, c)

RemoveCondition(s, t) ==
  IF Has(s, t) THEN SubSeq(s, 1, First(s, t) - 1) \o SubSeq(s, First(s, t) + 1, Len(s)) ELSE s

\* What s says of type t: nothing, or one thing.
SaidOf(s, t) == {s[i].says : i \in {j \in 1..Len(s) : s[j].type = t}}

OnePerType(s) == \A i, j \in 1..Len(s) : s[i].type = s[j].type => i = j
===============================================================================
