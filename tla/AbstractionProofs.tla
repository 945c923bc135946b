--------------------------- MODULE AbstractionProofs ---------------------------
(***************************************************************************)
(* Proofs about the two modules that Reconciler is seen through:           *)
(* ConditionedStatus, whose slice of conditions behaves as the map that    *)
(* Reconciler has in its place, and CreateHandshake, which Reconciler      *)
(* implements and which never makes two external resources.                *)
(***************************************************************************)
EXTENDS ConditionedStatus, CreateHandshake, TLAPS

-----------------------------------------------------------------------------
\* The slice of conditions.

LEMMA FirstIsThere ==
  ASSUME NEW s \in Seq(Conditions), NEW t, Has(s, t), OnePerType(s)
  PROVE  First(s, t) \in 1..Len(s) /\ s[First(s, t)].type = t
<1>1. PICK i \in 1..Len(s) : s[i].type = t
  BY DEF Has
<1>2. \A j \in 1..(i - 1) : s[j].type # t
  BY <1>1 DEF OnePerType
<1> QED
  BY <1>1, <1>2 DEF First

\* Conditions are "only one of each type": setting, upserting and removing keep it so.
THEOREM OneOfEachType ==
  ASSUME NEW s \in Seq(Conditions), NEW c \in Conditions, OnePerType(s)
  PROVE  /\ OnePerType(SetCondition(s, c))
         /\ OnePerType(UpsertCondition(s, c))
         /\ OnePerType(RemoveCondition(s, c.type))
<1>1. CASE ~Has(s, c.type)
  <2>1. /\ SetCondition(s, c) = Append(s, c)
        /\ UpsertCondition(s, c) = Append(s, c)
        /\ RemoveCondition(s, c.type) = s
    BY <1>1 DEF SetCondition, UpsertCondition, RemoveCondition
  <2>2. \A i \in 1..Len(s) : s[i].type # c.type
    BY <1>1 DEF Has
  <2>3. OnePerType(Append(s, c))
    BY <2>2 DEF OnePerType
  <2> QED BY <2>1, <2>3
<1>2. CASE Has(s, c.type)
  <2>1. OnePerType(SetCondition(s, c))
    <3> DEFINE r == [i \in 1..Len(s) |-> IF s[i].type = c.type /\ ~Equal(s[i], c) THEN c ELSE s[i]]
    <3>1. SetCondition(s, c) = r
      BY <1>2 DEF SetCondition
    <3>2. Len(r) = Len(s) /\ \A i \in 1..Len(s) : r[i].type = s[i].type
      OBVIOUS
    <3> HIDE DEF r
    <3> QED BY <3>1, <3>2 DEF OnePerType
  <2> DEFINE f == First(s, c.type)
  <2>2. f \in 1..Len(s) /\ s[f].type = c.type
    BY <1>2, FirstIsThere
  <2> HIDE DEF f
  <2>3. OnePerType(UpsertCondition(s, c))
    <3>1. UpsertCondition(s, c) = [s EXCEPT ![f] = c]
      BY <1>2 DEF UpsertCondition, f
    <3>2. Len([s EXCEPT ![f] = c]) = Len(s) /\ \A i \in 1..Len(s) : [s EXCEPT ![f] = c][i].type = s[i].type
      BY <2>2
    <3> QED BY <3>1, <3>2 DEF OnePerType
  <2>4. OnePerType(RemoveCondition(s, c.type))
    <3> DEFINE r == SubSeq(s, 1, f - 1) \o SubSeq(s, f + 1, Len(s))
    <3>1. RemoveCondition(s, c.type) = r
      BY <1>2 DEF RemoveCondition, f
    <3> DEFINE front == SubSeq(s, 1, f - 1)
               back  == SubSeq(s, f + 1, Len(s))
    <3>2. /\ front \in Seq(Conditions) /\ Len(front) = f - 1
          /\ \A i \in 1..(f - 1) : front[i] = s[i]
      BY <2>2
    <3>3. /\ back \in Seq(Conditions) /\ Len(back) = Len(s) - f
          /\ \A i \in 1..(Len(s) - f) : back[i] = s[i + f]
      BY <2>2
    <3> HIDE DEF front, back
    <3>4. Len(r) = Len(s) - 1 /\ \A i \in 1..Len(r) : r[i] = s[IF i < f THEN i ELSE i + 1]
      <4>1. r = front \o back
        BY DEF front, back
      <4> HIDE DEF r
      <4>2. Len(r) = Len(s) - 1 /\ f \in Nat /\ Len(s) \in Nat
        BY <2>2, <3>2, <3>3, <4>1
      <4>3. \A i \in 1..(f - 1) : r[i] = s[i]
        BY <2>2, <3>2, <3>3, <4>1
      <4>4. \A i \in f..(Len(s) - 1) : r[i] = s[i + 1]
        <5> SUFFICES ASSUME NEW i \in f..(Len(s) - 1) PROVE r[i] = s[i + 1]
          OBVIOUS
        <5>1. i - (f - 1) \in 1..(Len(s) - f)
          BY <4>2
        <5>2. r[i] = back[i - (f - 1)]
          BY <3>2, <3>3, <4>1, <4>2, <5>1
        <5> QED BY <3>3, <4>2, <5>1, <5>2
      <4> QED BY <4>2, <4>3, <4>4
    <3> HIDE DEF r
    <3>5. Len(s) \in Nat
      OBVIOUS
    <3> QED BY <2>2, <3>1, <3>4, <3>5 DEF OnePerType
  <2> QED BY <2>1, <2>3, <2>4
<1> QED BY <1>1, <1>2

\* Setting a condition replaces what the slice says of its type, and of no other type.
THEOREM SetIsUpdate ==
  ASSUME NEW s \in Seq(Conditions), NEW c \in Conditions, NEW t \in Types
  PROVE  SaidOf(SetCondition(s, c), t) = IF t = c.type THEN {c.says} ELSE SaidOf(s, t)
<1>1. CASE ~Has(s, c.type)
  <2>1. SetCondition(s, c) = Append(s, c)
    BY <1>1 DEF SetCondition
  <2>2. \A i \in 1..Len(s) : s[i].type # c.type
    BY <1>1 DEF Has
  <2> QED BY <2>1, <2>2 DEF SaidOf
<1>2. CASE Has(s, c.type)
  <2> DEFINE r == [i \in 1..Len(s) |-> IF s[i].type = c.type /\ ~Equal(s[i], c) THEN c ELSE s[i]]
  <2>1. SetCondition(s, c) = r
    BY <1>2 DEF SetCondition
  <2>2. /\ Len(r) = Len(s)
        /\ \A i \in 1..Len(s) : /\ r[i].type = s[i].type
                                /\ r[i].says = IF s[i].type = c.type THEN c.says ELSE s[i].says
    BY DEF Equal
  <2>3. \E i \in 1..Len(s) : s[i].type = c.type
    BY <1>2 DEF Has
  <2> HIDE DEF r
  <2> QED BY <2>1, <2>2, <2>3 DEF SaidOf
<1> QED BY <1>1, <1>2

\* A condition that says what is said already changes nothing, not even its time.
THEOREM SameIsNoChange ==
  ASSUME NEW s \in Seq(Conditions), NEW c \in Conditions, OnePerType(s), SaidOf(s, c.type) = {c.says}
  PROVE  SetCondition(s, c) = s
<1>1. PICK i \in 1..Len(s) : s[i].type = c.type /\ s[i].says = c.says
  BY DEF SaidOf
<1>2. \A j \in 1..Len(s) : s[j].type = c.type => Equal(s[j], c)
  BY <1>1 DEF OnePerType, Equal
<1>3. SetCondition(s, c) = [j \in 1..Len(s) |-> s[j]]
  BY <1>1, <1>2 DEF SetCondition, Has
<1> QED BY <1>3

-----------------------------------------------------------------------------
\* The create handshake.

HandshakeInv == /\ open \in BOOLEAN
                /\ wire \in BOOLEAN
                /\ resources \in Nat
                /\ AtMostOne

\* Every step keeps at most one resource: a request lands only where none exists.
LEMMA HandshakeStep ==
  ASSUME HandshakeInv, [Next]_vars
  PROVE  HandshakeInv'
<1>1. CASE Open
  BY <1>1 DEF Open, HandshakeInv, AtMostOne
<1>2. CASE Land
  <2>1. wire /\ open' = open
    BY <1>2, Zenon DEF Land
  <2>2. resources = 0 /\ open \in BOOLEAN
    BY <2>1 DEF HandshakeInv, AtMostOne
  <2>3. resources' \in Nat /\ resources' <= 1
    BY <1>2, <2>2 DEF Land
  <2>4. open' \in BOOLEAN
    BY <2>1, <2>2, Zenon
  <2>5. wire' \in BOOLEAN /\ ~wire'
    BY <1>2, Zenon DEF Land
  <2> QED BY <2>3, <2>4, <2>5 DEF HandshakeInv, AtMostOne
<1>3. CASE Drop
  BY <1>3 DEF Drop, HandshakeInv, AtMostOne
<1>4. CASE Close
  BY <1>4 DEF Close, HandshakeInv, AtMostOne
<1>5. CASE Remove
  BY <1>5 DEF Remove, HandshakeInv, AtMostOne
<1>6. CASE UNCHANGED vars
  BY <1>6 DEF vars, HandshakeInv, AtMostOne
<1> QED
  BY <1>1, <1>2, <1>3, <1>4, <1>5, <1>6 DEF Next

\* The handshake as Reconcile keeps it suffices: at most one request is under way, only under
\* an open handshake and for a resource that does not exist, so none is ever created twice.
THEOREM HandshakeSuffices == Spec => []AtMostOne
<1>1. Init => HandshakeInv
  <2> SUFFICES ASSUME Init PROVE HandshakeInv
    OBVIOUS
  <2>1. resources \in Nat /\ resources <= 1
    BY DEF Init
  <2>2. open \in BOOLEAN /\ wire \in BOOLEAN /\ ~wire
    BY Zenon DEF Init
  <2> QED BY <2>1, <2>2 DEF HandshakeInv, AtMostOne
<1>2. HandshakeInv /\ [Next]_vars => HandshakeInv'
  BY HandshakeStep
<1>3. HandshakeInv => AtMostOne
  BY DEF HandshakeInv
<1> QED
  BY <1>1, <1>2, <1>3, PTL DEF Spec
===============================================================================
