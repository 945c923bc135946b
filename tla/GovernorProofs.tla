---------------------------- MODULE GovernorProofs ----------------------------
(***************************************************************************)
(* Proofs about Governor, for every set of keys, number of workers, signal *)
(* set and timing: its types, the conservation of slots, and the bounds of *)
(* the capacities.                                                         *)
(***************************************************************************)
EXTENDS Governor, FiniteSetTheorems, TLAPS

\* The shape of a localState.
LEMMA LocalRecord ==
  ASSUME NEW c \in Nat, NEW a \in BOOLEAN, NEW b \in BOOLEAN
  PROVE  [capacity |-> c, cause |-> a, ramping |-> b]
           \in [capacity : Nat, cause : BOOLEAN, ramping : BOOLEAN]
  OBVIOUS

\* The ceiling is a positive number whatever the number of registered reconcilers.
LEMMA CeilingPositive ==
  ASSUME reconcilers \in Nat
  PROVE  ceiling \in Nat /\ ceiling >= 1
<1> DEFINE m == LargerOf(1, reconcilers)
<1>1. m \in Nat /\ m >= 1
  BY DEF LargerOf
<1>2. PerController \in Nat /\ PerController >= 1
  BY GovernorAssumption
<1> HIDE DEF m
<1>3. PerController * m \in Nat /\ PerController * m >= 1
  BY <1>1, <1>2
<1> QED
  BY <1>3 DEF ceiling, m

\* One more reconciler does not lower the ceiling.
LEMMA CeilingGrows ==
  ASSUME reconcilers \in Nat
  PROVE  /\ PerController * LargerOf(1, reconcilers + 1) \in Nat
         /\ PerController * LargerOf(1, reconcilers + 1) >= ceiling
<1> DEFINE m == LargerOf(1, reconcilers)
           n == LargerOf(1, reconcilers + 1)
<1>1. m \in Nat /\ n \in Nat /\ n >= m
  BY DEF LargerOf
<1>2. PerController \in Nat
  BY GovernorAssumption
<1> HIDE DEF m, n
<1>3. PerController * n \in Nat /\ PerController * n >= PerController * m
  <2>1. PICK d \in Nat : n = m + d
    <3>1. n - m \in Nat /\ n = m + (n - m)
      BY <1>1
    <3> QED BY <3>1
  <2>2. PerController * n = PerController * m + PerController * d
    BY <1>1, <1>2, <2>1
  <2>3. PerController * d \in Nat /\ PerController * m \in Nat /\ PerController * n \in Nat
    BY <1>1, <1>2, <2>1
  <2> QED BY <2>2, <2>3
<1> QED
  BY <1>3 DEF ceiling, m, n

\* The set of workers, and so every set of calls, is finite.
LEMMA WorkersFinite == IsFiniteSet(Workers)
<1>1. PerController * MaxReconcilers \in Nat
  BY GovernorAssumption
<1> QED
  BY <1>1, FS_Interval DEF Workers

\* A signal that is not SignalNone is one of the two kinds a report may have, and its
\* deadline is a time.
LEMMA ReportTyped ==
  ASSUME now \in Nat, NEW s \in Signals, NEW k \in Keys, Classify(s, now) # "none"
  PROVE  [key |-> k, kind |-> Classify(s, now), at |-> now, until |-> Deadline(s, now)] \in Reports
<1>1. s \in SignalFields
  BY GovernorAssumption
<1>2. Classify(s, now) \in {"throttled", "advisory"}
  BY DEF Classify
<1>3. Deadline(s, now) \in Nat
  BY <1>1 DEF Deadline, SignalFields
<1> QED
  BY <1>2, <1>3 DEF Reports

-----------------------------------------------------------------------------
\* Raising the keys that are read keeps their capacities and times typed.
LEMMA TouchTyped ==
  ASSUME TypeOK, NEW ks \in SUBSET Keys, TouchKeys(ks)
  PROVE  capacity' \in [Keys -> Nat] /\ lastRaise' \in [Keys -> Nat]
BY DEF TypeOK, TouchKeys, RaisedCapacity, RaisedAt

\* A release keeps the counts typed.
LEMMA ReleaseTyped ==
  ASSUME TypeOK, NEW w \in Workers, release(w)
  PROVE  inFlight' \in [Keys -> Nat] /\ localInFlight' \in Nat /\ done' \in [Workers -> BOOLEAN]
<1>1. CASE done[w]
  BY <1>1 DEF TypeOK, release
<1>2. CASE ~done[w]
  <2>1. /\ inFlight' = [k \in Keys |-> IF k \in held[w] /\ inFlight[k] > 0 THEN inFlight[k] - 1
                                       ELSE inFlight[k]]
        /\ localInFlight' = IF localInFlight > 0 THEN localInFlight - 1 ELSE localInFlight
        /\ done' = [done EXCEPT ![w] = TRUE]
    BY <1>2 DEF release
  <2>2. inFlight' \in [Keys -> Nat] /\ localInFlight' \in Nat
    BY <2>1 DEF TypeOK
  <2>3. done' \in [Workers -> BOOLEAN]
    BY <2>1 DEF TypeOK
  <2> QED BY <2>2, <2>3
<1> QED
  BY <1>1, <1>2

\* Types are preserved by every step.
LEMMA TypeStep ==
  ASSUME TypeOK, [Next]_vars
  PROVE  TypeOK'
<1> USE DEF keyVars, localVars, workerVars
<1>1. ASSUME NEW w \in Workers, NEW ks \in SUBSET Keys, Acquire(w, ks)
      PROVE  TypeOK'
  BY <1>1, TouchTyped DEF TypeOK, Acquire
<1>2. ASSUME NEW w \in Workers, NEW ks \in SUBSET Keys, Defer(w, ks)
      PROVE  TypeOK'
  BY <1>2, TouchTyped DEF TypeOK, Defer
<1>3. ASSUME NEW w \in Workers, Release(w)
      PROVE  TypeOK'
  BY <1>3, ReleaseTyped DEF TypeOK, Release
<1>4. ASSUME NEW w \in Workers, Backstop(w)
      PROVE  TypeOK'
  BY <1>4, ReleaseTyped DEF TypeOK, Backstop
<1>5. ASSUME NEW w \in Workers, ObserveLocked(w)
      PROVE  TypeOK'
  <2>1. PICK r \in report[w] :
          /\ capacity' = [capacity EXCEPT ![r.key] = IF r.kind = "throttled" THEN capacityFloor
                                                     ELSE LargerOf(capacityFloor, @ \div 2)]
          /\ holdUntil' = [holdUntil EXCEPT ![r.key] =
                             IF r.kind = "throttled" /\ r.until > @ THEN r.until ELSE @]
          /\ lastReduce' = [lastReduce EXCEPT ![r.key] = r.at]
          /\ cutAt' = [cutAt EXCEPT ![r.key] = now]
    BY <1>5 DEF ObserveLocked
  <2>2. r \in Reports
    BY DEF TypeOK
  <2>3. capacity' \in [Keys -> Nat]
    <3>1. capacity[r.key] \in Nat
      BY <2>2 DEF TypeOK, Reports
    <3>2. LargerOf(capacityFloor, capacity[r.key] \div 2) \in Nat
      BY <3>1 DEF LargerOf, capacityFloor
    <3> QED
      BY <2>1, <3>2 DEF TypeOK, capacityFloor
  <2>4. holdUntil' \in [Keys -> Nat] /\ lastReduce' \in [Keys -> Nat] /\ cutAt' \in [Keys -> Nat]
    BY <2>1, <2>2 DEF TypeOK, Reports
  <2> QED
    BY <1>5, <2>3, <2>4 DEF TypeOK, ObserveLocked
<1>6. ASSUME NEW w \in Workers, NEW k \in Keys, NEW s \in Signals, Observe(w, k, s)
      PROVE  TypeOK'
  <2>1. now \in Nat /\ Classify(s, now) # "none"
    BY <1>6 DEF TypeOK, Observe
  <2>2. {[key |-> k, kind |-> Classify(s, now), at |-> now, until |-> Deadline(s, now)]}
          \in SUBSET Reports
    BY <2>1, ReportTyped
  <2> QED
    BY <1>6, <2>2 DEF TypeOK, Observe
<1>7. ASSUME NEW f \in Samples, Sample(f)
      PROVE  TypeOK'
  <2>1. local'.capacity \in Nat
    BY <1>7 DEF TypeOK, Sample, LargerOf, capacityFloor
  <2>2. Saturated(read(f)) \in BOOLEAN
    BY DEF Saturated, CPUSaturated, MemoryOver
  <2>3. local' \in [capacity : Nat, cause : BOOLEAN, ramping : BOOLEAN]
    <3>1. local' = [capacity |-> local'.capacity, cause |-> Saturated(read(f)),
                    ramping |-> ~cut' /\ local'.capacity < ceiling]
      BY <1>7 DEF Sample
    <3>2. (~cut' /\ local'.capacity < ceiling) \in BOOLEAN
      OBVIOUS
    <3> QED
      BY <3>1, <3>2, <2>1, <2>2, LocalRecord
  <2>4. cut' \in BOOLEAN
    BY <1>7, <2>2 DEF TypeOK, Sample
  <2>5. lastStep' \in Nat
    BY <1>7 DEF TypeOK, Sample
  <2>6. localPast' \in [pressed : Nat, raised : Nat]
    BY <1>7 DEF TypeOK, Sample
  <2>7. UNCHANGED <<now, reconcilers, keyVars, localInFlight, samplerStarted, workerVars>>
    BY <1>7 DEF Sample
  <2> QED
    BY <2>3, <2>4, <2>5, <2>6, <2>7 DEF TypeOK, keyVars, workerVars
<1>8. CASE Start
  BY <1>8 DEF TypeOK, Start
<1>9. CASE RegisterReconciler
  BY <1>9, CeilingGrows DEF TypeOK, RegisterReconciler
<1>10. ASSUME NEW ks \in SUBSET Keys, Snapshot(ks)
       PROVE  TypeOK'
  BY <1>10, TouchTyped DEF TypeOK, Snapshot
<1>11. CASE Tick
  BY <1>11 DEF TypeOK, Tick
<1>12. CASE UNCHANGED vars
  BY <1>12 DEF TypeOK, vars
<1> QED
  BY <1>1, <1>2, <1>3, <1>4, <1>5, <1>6, <1>7, <1>8, <1>9, <1>10, <1>11, <1>12 DEF Next

\* What New builds is typed.
LEMMA TypeInit == Init => TypeOK
<1> SUFFICES ASSUME Init PROVE TypeOK
  OBVIOUS
<1>1. local \in [capacity : Nat, cause : BOOLEAN, ramping : BOOLEAN]
  <2>1. CASE Saturation
    BY <2>1 DEF Init, capacityFloor
  <2>2. CASE ~Saturation
    BY <2>2, GovernorAssumption DEF Init
  <2> QED BY <2>1, <2>2
<1>2. Recovery \in Nat /\ PerController \in Nat
  BY GovernorAssumption
<1> QED
  BY <1>1, <1>2 DEF Init, TypeOK

\* Every variable of the governor has its type in every reachable state.
THEOREM TypeCorrect == Spec => []TypeOK
<1>1. TypeOK /\ [Next]_vars => TypeOK'
  BY TypeStep
<1> QED
  BY TypeInit, <1>1, PTL DEF Spec

-----------------------------------------------------------------------------
\* Slots.  The conservation of slots is not inductive by itself: it needs that a release func
\* has run exactly when its call is over.
SlotInv == TypeOK /\ OnceTracksCalls /\ SlotsConserved

\* The sets of calls are finite.
LEMMA CallsFinite == IsFiniteSet(Callers) /\ \A k \in Keys : IsFiniteSet(Holders(k))
<1>1. Callers \subseteq Workers /\ \A k \in Keys : Holders(k) \subseteq Workers
  BY DEF Callers, Holders
<1> QED
  BY <1>1, WorkersFinite, FS_Subset

\* A step that touches neither counts nor workers keeps the slots conserved.
LEMMA SlotFrame ==
  ASSUME OnceTracksCalls, SlotsConserved, UNCHANGED <<phase, held, done, inFlight, localInFlight>>
  PROVE  OnceTracksCalls' /\ SlotsConserved'
<1>1. Callers' = Callers /\ \A k \in Keys : Holders(k)' = Holders(k)
  BY DEF Callers, Holders
<1>2. OnceTracksCalls'
  BY DEF OnceTracksCalls
<1>3. SlotsConserved'
  BY <1>1 DEF SlotsConserved
<1> QED
  BY <1>2, <1>3

\* A grant takes one slot of each of its keys and one local slot.
LEMMA GrantTakesSlots ==
  ASSUME SlotInv, NEW w \in Workers, NEW ks \in SUBSET Keys, Acquire(w, ks)
  PROVE  OnceTracksCalls' /\ SlotsConserved'
<1> USE DEF SlotInv
<1>1. /\ phase[w] # "calling"
      /\ phase' = [phase EXCEPT ![w] = "calling"]
      /\ held' = [held EXCEPT ![w] = ks]
      /\ done' = [done EXCEPT ![w] = FALSE]
      /\ inFlight' = [k \in Keys |-> IF k \in ks THEN inFlight[k] + 1 ELSE inFlight[k]]
      /\ localInFlight' = localInFlight + 1
  BY DEF Acquire
<1>2. OnceTracksCalls'
  BY <1>1 DEF OnceTracksCalls, TypeOK
<1>3. localInFlight' = Cardinality(Callers')
  <2>1. w \notin Callers /\ Callers' = Callers \cup {w}
    BY <1>1 DEF Callers, TypeOK
  <2>2. Cardinality(Callers \cup {w}) = Cardinality(Callers) + 1
    BY <2>1, CallsFinite, FS_AddElement
  <2> QED BY <1>1, <2>1, <2>2 DEF SlotsConserved
<1>4. ASSUME NEW k \in Keys
      PROVE  inFlight'[k] = Cardinality(Holders(k)')
  <2>1. CASE k \in ks
    <3>1. w \notin Holders(k) /\ Holders(k)' = Holders(k) \cup {w}
      BY <1>1, <2>1 DEF Holders, TypeOK
    <3>2. Cardinality(Holders(k) \cup {w}) = Cardinality(Holders(k)) + 1
      BY <3>1, CallsFinite, FS_AddElement
    <3> QED BY <1>1, <2>1, <3>1, <3>2 DEF SlotsConserved
  <2>2. CASE k \notin ks
    <3>1. Holders(k)' = Holders(k)
      BY <1>1, <2>2 DEF Holders, TypeOK
    <3> QED BY <1>1, <2>2, <3>1 DEF SlotsConserved
  <2> QED BY <2>1, <2>2
<1> QED
  BY <1>2, <1>3, <1>4 DEF SlotsConserved

\* The end of a running call gives back what the call took, and nothing else.
LEMMA EndGivesSlotsBack ==
  ASSUME SlotInv, NEW w \in Workers, NEW p \in {"idle", "returned"},
         phase[w] = "calling", release(w), phase' = [phase EXCEPT ![w] = p],
         \A x \in Workers \ {w} : held'[x] = held[x]
  PROVE  OnceTracksCalls' /\ SlotsConserved'
<1> USE DEF SlotInv
<1>1. /\ inFlight' = [k \in Keys |-> IF k \in held[w] /\ inFlight[k] > 0 THEN inFlight[k] - 1
                                     ELSE inFlight[k]]
      /\ localInFlight' = IF localInFlight > 0 THEN localInFlight - 1 ELSE localInFlight
      /\ done' = [done EXCEPT ![w] = TRUE]
  BY DEF OnceTracksCalls, release
<1>2. OnceTracksCalls'
  BY <1>1 DEF OnceTracksCalls, TypeOK
<1>3. localInFlight' = Cardinality(Callers')
  <2>1. w \in Callers /\ Callers' = Callers \ {w}
    BY DEF Callers, TypeOK
  <2>2. /\ Cardinality(Callers \ {w}) = Cardinality(Callers) - 1
        /\ Cardinality(Callers \ {w}) \in Nat
    BY <2>1, CallsFinite, FS_RemoveElement, FS_CardinalityType
  <2>3. localInFlight = Cardinality(Callers) /\ localInFlight \in Nat
    BY DEF SlotsConserved, TypeOK
  <2> QED BY <1>1, <2>1, <2>2, <2>3
<1>4. ASSUME NEW k \in Keys
      PROVE  inFlight'[k] = Cardinality(Holders(k)')
  <2>0. inFlight[k] = Cardinality(Holders(k)) /\ inFlight[k] \in Nat
    BY DEF SlotsConserved, TypeOK
  <2>1. CASE k \in held[w]
    <3>1. w \in Holders(k) /\ Holders(k)' = Holders(k) \ {w}
      BY <2>1 DEF Holders, TypeOK
    <3>2. /\ Cardinality(Holders(k) \ {w}) = Cardinality(Holders(k)) - 1
          /\ Cardinality(Holders(k) \ {w}) \in Nat
      BY <3>1, CallsFinite, FS_RemoveElement, FS_CardinalityType
    <3> QED BY <1>1, <2>0, <2>1, <3>1, <3>2
  <2>2. CASE k \notin held[w]
    <3>1. Holders(k)' = Holders(k)
      BY <2>2 DEF Holders, TypeOK
    <3> QED BY <1>1, <2>0, <2>2, <3>1
  <2> QED BY <2>1, <2>2
<1> QED
  BY <1>2, <1>3, <1>4 DEF SlotsConserved

\* A backstop release after the call has returned gives nothing back a second time.
LEMMA SecondReleaseIsNoop ==
  ASSUME SlotInv, NEW w \in Workers, Backstop(w), phase[w] # "calling"
  PROVE  OnceTracksCalls' /\ SlotsConserved'
<1> USE DEF SlotInv
<1>1. /\ UNCHANGED <<inFlight, localInFlight, done>>
      /\ phase' = [phase EXCEPT ![w] = "idle"]
      /\ held' = [held EXCEPT ![w] = {}]
  BY DEF OnceTracksCalls, release, Backstop
<1>2. Callers' = Callers /\ \A k \in Keys : Holders(k)' = Holders(k)
  BY <1>1 DEF Callers, Holders, TypeOK
<1>3. OnceTracksCalls'
  BY <1>1 DEF OnceTracksCalls, TypeOK
<1> QED
  BY <1>1, <1>2, <1>3 DEF SlotsConserved

\* No operation loses a slot or gives one back twice: SlotInv is inductive.
LEMMA SlotStep ==
  ASSUME SlotInv, [Next]_vars
  PROVE  SlotInv'
<1> USE DEF keyVars, localVars, workerVars
<1>0. TypeOK'
  BY TypeStep DEF SlotInv
<1>a. OnceTracksCalls /\ SlotsConserved
  BY DEF SlotInv
<1> SUFFICES OnceTracksCalls' /\ SlotsConserved'
  BY <1>0 DEF SlotInv
<1>1. ASSUME NEW w \in Workers, NEW ks \in SUBSET Keys, Acquire(w, ks)
      PROVE  OnceTracksCalls' /\ SlotsConserved'
  BY <1>1, GrantTakesSlots
<1>2. ASSUME NEW w \in Workers, NEW ks \in SUBSET Keys, Defer(w, ks)
      PROVE  OnceTracksCalls' /\ SlotsConserved'
  BY <1>2, <1>a, SlotFrame DEF Defer
<1>3. ASSUME NEW w \in Workers, Release(w)
      PROVE  OnceTracksCalls' /\ SlotsConserved'
  BY <1>3, EndGivesSlotsBack DEF Release
<1>4. ASSUME NEW w \in Workers, Backstop(w)
      PROVE  OnceTracksCalls' /\ SlotsConserved'
  <2>1. CASE phase[w] = "calling"
    <3>1. /\ release(w)
          /\ phase' = [phase EXCEPT ![w] = "idle"]
          /\ \A x \in Workers \ {w} : held'[x] = held[x]
      BY <1>4 DEF Backstop, SlotInv, TypeOK
    <3> QED BY <2>1, <3>1, EndGivesSlotsBack
  <2>2. CASE phase[w] # "calling"
    BY <1>4, <2>2, SecondReleaseIsNoop
  <2> QED BY <2>1, <2>2
<1>5. ASSUME NEW w \in Workers, ObserveLocked(w)
      PROVE  OnceTracksCalls' /\ SlotsConserved'
  BY <1>5, <1>a, SlotFrame DEF ObserveLocked
<1>6. ASSUME NEW w \in Workers, NEW k \in Keys, NEW s \in Signals, Observe(w, k, s)
      PROVE  OnceTracksCalls' /\ SlotsConserved'
  BY <1>6, <1>a, SlotFrame DEF Observe
<1>7. ASSUME NEW f \in Samples, Sample(f)
      PROVE  OnceTracksCalls' /\ SlotsConserved'
  BY <1>7, <1>a, SlotFrame DEF Sample
<1>8. CASE Start
  BY <1>8, <1>a, SlotFrame DEF Start
<1>9. CASE RegisterReconciler
  BY <1>9, <1>a, SlotFrame DEF RegisterReconciler
<1>10. ASSUME NEW ks \in SUBSET Keys, Snapshot(ks)
       PROVE  OnceTracksCalls' /\ SlotsConserved'
  BY <1>10, <1>a, SlotFrame DEF Snapshot
<1>11. CASE Tick
  BY <1>11, <1>a, SlotFrame DEF Tick
<1>12. CASE UNCHANGED vars
  BY <1>12, <1>a, SlotFrame DEF vars
<1> QED
  BY <1>1, <1>2, <1>3, <1>4, <1>5, <1>6, <1>7, <1>8, <1>9, <1>10, <1>11, <1>12 DEF Next

\* A governor that New has just built has granted no slot.
LEMMA SlotInit == Init => SlotInv
<1> SUFFICES ASSUME Init PROVE SlotInv
  OBVIOUS
<1>1. Callers = {} /\ \A k \in Keys : Holders(k) = {}
  BY DEF Init, Callers, Holders
<1>2. SlotsConserved
  BY <1>1, FS_EmptySet DEF SlotsConserved, Init
<1>3. OnceTracksCalls
  BY DEF OnceTracksCalls, Init
<1> QED
  BY <1>2, <1>3, TypeInit DEF SlotInv

\* AcquireAll and the release funcs conserve slots: in every reachable state a key's
\* in-flight count is the number of calls that hold the key, and the local count the number
\* of calls, however grants, releases and backstop releases interleave.
THEOREM SlotsAreConserved == Spec => []SlotsConserved
<1>1. SlotInv /\ [Next]_vars => SlotInv'
  BY SlotStep
<1>2. SlotInv => SlotsConserved
  BY DEF SlotInv
<1> QED
  BY SlotInit, <1>1, <1>2, PTL DEF Spec

-----------------------------------------------------------------------------
\* Capacities.
CapInv == TypeOK /\ CapacityBounded

\* Raising the keys that are read keeps them within the ceiling.
LEMMA TouchBounded ==
  ASSUME CapInv, NEW ks \in SUBSET Keys, TouchKeys(ks)
  PROVE  \A k \in Keys : capacity'[k] \in capacityFloor..ceiling
<1>1. ceiling \in Nat
  BY CeilingPositive DEF CapInv, TypeOK
<1> QED
  BY <1>1 DEF CapInv, TypeOK, CapacityBounded, TouchKeys, RaisedCapacity, maybeRaise, capacityFloor

\* Halving keeps a capacity within its bounds, and does not raise it.
LEMMA HalvingBounded ==
  ASSUME NEW c \in Nat, NEW top \in Nat, c \in capacityFloor..top
  PROVE  LargerOf(capacityFloor, c \div 2) \in capacityFloor..c
BY DEF LargerOf, capacityFloor

\* A signal lowers the capacity of its key, or leaves it at the floor.
LEMMA SignalLowers ==
  ASSUME CapInv, NEW w \in Workers, ObserveLocked(w)
  PROVE  \A k \in Keys : capacity'[k] \in capacityFloor..capacity[k]
<1>1. PICK r \in report[w] :
        capacity' = [capacity EXCEPT ![r.key] = IF r.kind = "throttled" THEN capacityFloor
                                                ELSE LargerOf(capacityFloor, @ \div 2)]
  BY DEF ObserveLocked
<1>2. r.key \in Keys
  BY DEF CapInv, TypeOK, Reports
<1>3. ceiling \in Nat /\ capacity[r.key] \in Nat /\ capacity[r.key] \in capacityFloor..ceiling
  BY <1>2, CeilingPositive DEF CapInv, TypeOK, CapacityBounded
<1>4. LargerOf(capacityFloor, capacity[r.key] \div 2) \in capacityFloor..capacity[r.key]
  BY <1>3, HalvingBounded
<1> TAKE k \in Keys
<1>5. capacity[k] \in Nat /\ capacity[k] >= capacityFloor
  BY <1>3 DEF CapInv, TypeOK, CapacityBounded, capacityFloor
<1>6. CASE k = r.key
  BY <1>1, <1>2, <1>4, <1>5, <1>6 DEF CapInv, TypeOK, capacityFloor
<1>7. CASE k # r.key
  BY <1>1, <1>5, <1>7 DEF CapInv, TypeOK, capacityFloor
<1> QED
  BY <1>6, <1>7

\* A sample moves the local capacity within its bounds.
LEMMA SampleBounded ==
  ASSUME CapInv, NEW f \in Samples, Sample(f)
  PROVE  local'.capacity \in capacityFloor..ceiling
<1>1. ceiling \in Nat /\ local.capacity \in Nat /\ local.capacity \in capacityFloor..ceiling
  BY CeilingPositive DEF CapInv, TypeOK, CapacityBounded
<1>2. CASE Hard(read(f))
  <2>1. Saturated(read(f))
    BY <1>2 DEF Hard, Saturated
  <2>2. local'.capacity = capacityFloor
    BY <1>2, <2>1 DEF Sample
  <2> QED BY <1>1, <2>2 DEF capacityFloor
<1>3. CASE Saturated(read(f)) /\ ~Hard(read(f))
  <2>1. local'.capacity = LargerOf(capacityFloor, local.capacity \div 2)
    BY <1>3 DEF Sample
  <2> QED BY <1>1, <2>1, HalvingBounded DEF capacityFloor
<1>4. CASE ~Saturated(read(f)) /\ ~Hard(read(f))
  <2>1. \/ local'.capacity = local.capacity
        \/ local'.capacity = local.capacity + 1 /\ local.capacity < ceiling
    BY <1>4 DEF Sample
  <2> QED BY <1>1, <2>1 DEF capacityFloor
<1> QED
  BY <1>2, <1>3, <1>4

\* Registration moves capacities to the new ceiling or leaves them below it.
LEMMA RegisterBounded ==
  ASSUME CapInv, RegisterReconciler
  PROVE  CapacityBounded'
<1> DEFINE next == PerController * LargerOf(1, reconcilers + 1)
<1>1. reconcilers \in Nat /\ ceiling \in Nat /\ ceiling >= 1
  BY CeilingPositive DEF CapInv, TypeOK
<1>2. next \in Nat /\ next >= ceiling
  BY <1>1, CeilingGrows
<1>3. ceiling' = next
  BY DEF RegisterReconciler, ceiling
<1>4. /\ capacity' = [k \in Keys |-> IF capacity[k] = ceiling THEN next ELSE capacity[k]]
      /\ \/ local' = [local EXCEPT !.capacity = next]
         \/ local' = local
  BY DEF RegisterReconciler
<1> HIDE DEF next
<1>5. \A k \in Keys : capacity'[k] \in capacityFloor..next
  BY <1>1, <1>2, <1>4 DEF CapInv, TypeOK, CapacityBounded, capacityFloor
<1>6. local'.capacity \in capacityFloor..next
  BY <1>1, <1>2, <1>4 DEF CapInv, TypeOK, CapacityBounded, capacityFloor
<1> QED
  BY <1>3, <1>5, <1>6 DEF CapacityBounded, capacityFloor

\* A step that registers nobody keeps the ceiling.
LEMMA CeilingFrame == reconcilers' = reconcilers => ceiling' = ceiling
BY DEF ceiling

\* No signal, sample, read or registration moves a capacity out of its bounds.
LEMMA CapStep ==
  ASSUME CapInv, [Next]_vars
  PROVE  CapInv'
<1> USE DEF keyVars, localVars, workerVars
<1>0. TypeOK'
  BY TypeStep DEF CapInv
<1>a. CapacityBounded /\ ceiling \in Nat
  BY CeilingPositive DEF CapInv, TypeOK
<1> SUFFICES CapacityBounded'
  BY <1>0 DEF CapInv
<1>1. ASSUME NEW w \in Workers, NEW ks \in SUBSET Keys, Acquire(w, ks)
      PROVE  CapacityBounded'
  <2>1. TouchKeys(ks) /\ UNCHANGED <<reconcilers, local>>
    BY <1>1 DEF Acquire
  <2> QED BY <1>a, <2>1, TouchBounded, CeilingFrame DEF CapacityBounded, capacityFloor
<1>2. ASSUME NEW w \in Workers, NEW ks \in SUBSET Keys, Defer(w, ks)
      PROVE  CapacityBounded'
  <2>1. TouchKeys(ks) /\ UNCHANGED <<reconcilers, local>>
    BY <1>2 DEF Defer
  <2> QED BY <1>a, <2>1, TouchBounded, CeilingFrame DEF CapacityBounded, capacityFloor
<1>3. ASSUME NEW w \in Workers, Release(w)
      PROVE  CapacityBounded'
  BY <1>3, <1>a, CeilingFrame DEF CapacityBounded, Release, capacityFloor
<1>4. ASSUME NEW w \in Workers, Backstop(w)
      PROVE  CapacityBounded'
  BY <1>4, <1>a, CeilingFrame DEF CapacityBounded, Backstop, capacityFloor
<1>5. ASSUME NEW w \in Workers, ObserveLocked(w)
      PROVE  CapacityBounded'
  <2>1. UNCHANGED <<reconcilers, local>> /\ ceiling' = ceiling
    BY <1>5, CeilingFrame DEF ObserveLocked
  <2>2. \A k \in Keys : capacity'[k] \in capacityFloor..capacity[k] /\ capacity[k] \in capacityFloor..ceiling
    BY <1>5, <1>a, SignalLowers DEF CapacityBounded
  <2> QED BY <1>a, <2>1, <2>2 DEF CapacityBounded, capacityFloor
<1>6. ASSUME NEW w \in Workers, NEW k \in Keys, NEW s \in Signals, Observe(w, k, s)
      PROVE  CapacityBounded'
  BY <1>6, <1>a, CeilingFrame DEF CapacityBounded, Observe, capacityFloor
<1>7. ASSUME NEW f \in Samples, Sample(f)
      PROVE  CapacityBounded'
  <2>1. UNCHANGED <<reconcilers, capacity>> /\ ceiling' = ceiling
    BY <1>7, CeilingFrame DEF Sample
  <2> QED BY <1>7, <1>a, <2>1, SampleBounded DEF CapacityBounded, capacityFloor
<1>8. CASE Start
  BY <1>8, <1>a, CeilingFrame DEF CapacityBounded, Start, capacityFloor
<1>9. CASE RegisterReconciler
  BY <1>9, RegisterBounded
<1>10. ASSUME NEW ks \in SUBSET Keys, Snapshot(ks)
       PROVE  CapacityBounded'
  <2>1. TouchKeys(ks) /\ UNCHANGED <<reconcilers, local>>
    BY <1>10 DEF Snapshot
  <2> QED BY <1>a, <2>1, TouchBounded, CeilingFrame DEF CapacityBounded, capacityFloor
<1>11. CASE Tick
  BY <1>11, <1>a, CeilingFrame DEF CapacityBounded, Tick, capacityFloor
<1>12. CASE UNCHANGED vars
  BY <1>12, <1>a, CeilingFrame DEF CapacityBounded, vars, capacityFloor
<1> QED
  BY <1>1, <1>2, <1>3, <1>4, <1>5, <1>6, <1>7, <1>8, <1>9, <1>10, <1>11, <1>12 DEF Next

\* New puts every capacity within its bounds.
LEMMA CapInit == Init => CapInv
<1> SUFFICES ASSUME Init PROVE CapInv
  OBVIOUS
<1>1. PerController \in Nat /\ PerController >= 1
  BY GovernorAssumption
<1>2. ceiling = PerController
  BY <1>1 DEF Init, ceiling, LargerOf
<1>3. local.capacity \in capacityFloor..ceiling
  <2>1. CASE Saturation
    BY <1>1, <1>2, <2>1 DEF Init, capacityFloor
  <2>2. CASE ~Saturation
    BY <1>1, <1>2, <2>2 DEF Init, capacityFloor
  <2> QED BY <2>1, <2>2
<1> QED
  BY <1>1, <1>2, <1>3, TypeInit DEF CapInv, CapacityBounded, Init, capacityFloor

\* No sequence of cuts, recoveries, samples and registrations takes a capacity below the
\* floor of 1 or above the ceiling of the reconcilers registered so far.
THEOREM CapacitiesBounded == Spec => []CapacityBounded
<1>1. CapInv /\ [Next]_vars => CapInv'
  BY CapStep
<1>2. CapInv => CapacityBounded
  BY DEF CapInv
<1> QED
  BY CapInit, <1>1, <1>2, PTL DEF Spec

-----------------------------------------------------------------------------
\* Holds and recovery.

\* A signal keeps the hold of its key or extends it, whichever order signals arrive in.
LEMMA HoldStep ==
  ASSUME TypeOK, [Next]_vars
  PROVE  \A k \in Keys : holdUntil'[k] >= holdUntil[k]
<1> USE DEF keyVars, localVars, workerVars
<1>1. CASE holdUntil' = holdUntil
  BY <1>1 DEF TypeOK
<1>2. ASSUME NEW w \in Workers, ObserveLocked(w)
      PROVE  \A k \in Keys : holdUntil'[k] >= holdUntil[k]
  <2>1. PICK r \in report[w] :
          holdUntil' = [holdUntil EXCEPT ![r.key] =
                          IF r.kind = "throttled" /\ r.until > @ THEN r.until ELSE @]
    BY <1>2 DEF ObserveLocked
  <2>2. r \in Reports
    BY DEF TypeOK
  <2> QED BY <2>1, <2>2 DEF TypeOK, Reports
<1>3. \/ holdUntil' = holdUntil
      \/ \E w \in Workers : ObserveLocked(w)
  BY DEF Next, vars, Acquire, Defer, Release, Backstop, Observe, Sample, Start,
         RegisterReconciler, Snapshot, Tick
<1> QED
  BY <1>1, <1>2, <1>3

\* A hold that some signal set is never shortened by a later or a late one.
THEOREM HoldsNeverShorten == Spec => HoldNeverShortens
<1>1. TypeOK /\ [Next]_vars => [\A k \in Keys : holdUntil'[k] >= holdUntil[k]]_vars
  BY HoldStep
<1> QED
  BY <1>1, TypeCorrect, PTL DEF Spec, HoldNeverShortens

\* Observe reads the clock before it takes the mutex, so the time it records as the cut is
\* older than the cut itself, by at most the stall.
StallInv ==
  /\ CapInv
  /\ \A w \in Workers : \A r \in report[w] : now <= r.at + MaxStall
  /\ \A k \in Keys : cutAt[k] <= lastReduce[k] + MaxStall

\* A signal is folded in at most MaxStall after Observe read the clock for it.
LEMMA StallStep ==
  ASSUME StallInv, [Next]_vars
  PROVE  StallInv'
<1> USE DEF keyVars, localVars, workerVars
<1>0. CapInv'
  BY CapStep DEF StallInv
<1>t. TypeOK /\ MaxStall \in Nat
  BY GovernorAssumption DEF StallInv, CapInv
<1>1. CASE UNCHANGED <<now, report, cutAt, lastReduce>>
  BY <1>0, <1>1 DEF StallInv
<1>2. ASSUME NEW w \in Workers, NEW k \in Keys, NEW s \in Signals, Observe(w, k, s)
      PROVE  StallInv'
  <2>1. /\ UNCHANGED <<now, cutAt, lastReduce>>
        /\ report' = [report EXCEPT ![w] = {[key |-> k, kind |-> Classify(s, now),
                                             at |-> now, until |-> Deadline(s, now)]}]
    BY <1>2 DEF Observe
  <2>2. ASSUME NEW x \in Workers, NEW r \in report'[x]
        PROVE  now <= r.at + MaxStall
    <3>1. CASE x = w
      <4>1. r.at = now
        BY <1>t, <2>1, <2>2, <3>1 DEF TypeOK
      <4> QED BY <1>t, <4>1 DEF TypeOK
    <3>2. CASE x # w
      BY <1>t, <2>1, <2>2, <3>2 DEF TypeOK, StallInv
    <3> QED BY <3>1, <3>2
  <2> QED BY <1>0, <2>1, <2>2 DEF StallInv
<1>3. ASSUME NEW w \in Workers, ObserveLocked(w)
      PROVE  StallInv'
  <2>1. PICK r \in report[w] : /\ lastReduce' = [lastReduce EXCEPT ![r.key] = r.at]
                               /\ cutAt' = [cutAt EXCEPT ![r.key] = now]
    BY <1>3 DEF ObserveLocked
  <2>2. r \in Reports /\ now <= r.at + MaxStall
    BY <1>t DEF TypeOK, StallInv
  <2>3. \A k \in Keys : cutAt'[k] <= lastReduce'[k] + MaxStall
    BY <1>t, <2>1, <2>2 DEF StallInv, TypeOK, Reports
  <2>4. now' = now /\ report' = [report EXCEPT ![w] = {}]
    BY <1>3 DEF ObserveLocked
  <2>5. \A x \in Workers : \A y \in report'[x] : now' <= y.at + MaxStall
    BY <1>t, <2>4 DEF StallInv, TypeOK
  <2> QED BY <1>0, <2>3, <2>5 DEF StallInv
<1>4. CASE Tick
  <2>1. /\ now' = now + 1
        /\ UNCHANGED <<report, cutAt, lastReduce>>
        /\ \A w \in Workers : \A r \in report[w] : now < r.at + MaxStall
    BY <1>4 DEF Tick
  <2>2. \A w \in Workers : \A r \in report[w] : r.at \in Nat
    BY <1>t DEF TypeOK, Reports
  <2> QED BY <1>0, <1>t, <2>1, <2>2 DEF StallInv, TypeOK
<1>5. \/ UNCHANGED <<now, report, cutAt, lastReduce>>
      \/ \E w \in Workers, k \in Keys, s \in Signals : Observe(w, k, s)
      \/ \E w \in Workers : ObserveLocked(w)
      \/ Tick
  BY DEF Next, vars, Acquire, Defer, Release, Backstop, Sample, Start, RegisterReconciler, Snapshot
<1> QED
  BY <1>1, <1>2, <1>3, <1>4, <1>5

\* At first no signal is on its way.
LEMMA StallInit == Init => StallInv
BY CapInit, GovernorAssumption DEF Init, StallInv

\* A read of the keys ks raises a capacity by one, and only a clean one.
LEMMA RaisePaced ==
  ASSUME StallInv, NEW ks \in SUBSET Keys, TouchKeys(ks),
         NEW k \in Keys, capacity'[k] > capacity[k]
  PROVE  /\ capacity'[k] = capacity[k] + 1
         /\ now + MaxStall >= cutAt[k] + Recovery
         /\ now >= holdUntil[k] + Recovery
         /\ now >= lastRaise[k] + Recovery
<1>t. /\ now \in Nat /\ capacity[k] \in Nat /\ lastReduce[k] \in Nat /\ holdUntil[k] \in Nat
      /\ lastRaise[k] \in Nat /\ cutAt[k] \in Nat /\ MaxStall \in Nat /\ Recovery \in Nat
      /\ cutAt[k] <= lastReduce[k] + MaxStall
  BY GovernorAssumption DEF StallInv, CapInv, TypeOK
<1>1. capacity'[k] = capacity[k] + 1 /\ maybeRaise(k)
  BY <1>t DEF TouchKeys, RaisedCapacity
<1>2. /\ now >= LargerOf(lastReduce[k], holdUntil[k]) + Recovery
      /\ now >= lastRaise[k] + Recovery
  BY <1>1 DEF maybeRaise
<1>3. now >= lastReduce[k] + Recovery /\ now >= holdUntil[k] + Recovery
  BY <1>t, <1>2 DEF LargerOf
<1> QED
  BY <1>t, <1>1, <1>2, <1>3

\* Only a read raises a capacity, and only a paced one.
LEMMA PacedNext ==
  ASSUME StallInv, [Next]_vars
  PROVE  PacedStep
<1> USE DEF keyVars, localVars, workerVars
<1>1. ASSUME NEW ks \in SUBSET Keys, TouchKeys(ks)
      PROVE  PacedStep
  BY <1>1, RaisePaced DEF PacedStep
<1>2. ASSUME NEW w \in Workers, ObserveLocked(w)
      PROVE  PacedStep
  <2>1. \A k \in Keys : capacity[k] \in Nat /\ capacity'[k] \in capacityFloor..capacity[k]
    BY <1>2, SignalLowers DEF StallInv, CapInv, TypeOK
  <2> QED BY <2>1 DEF PacedStep, capacityFloor
<1>3. CASE RegisterReconciler
  <2>1. reconcilers' # reconcilers
    BY <1>3 DEF RegisterReconciler, StallInv, CapInv, TypeOK
  <2> QED BY <2>1 DEF PacedStep
<1>4. CASE capacity' = capacity
  BY <1>4 DEF PacedStep, StallInv, CapInv, TypeOK
<1>5. \/ capacity' = capacity
      \/ RegisterReconciler
      \/ \E w \in Workers : ObserveLocked(w)
      \/ \E ks \in SUBSET Keys : TouchKeys(ks)
  BY DEF Next, vars, Acquire, Defer, Release, Backstop, Observe, Sample, Start, Snapshot, Tick
<1> QED
  BY <1>1, <1>2, <1>3, <1>4, <1>5

\* A key's capacity rises one at a time, and only once it has been clean for a recovery
\* interval after its last cut (less the stall of Observe), its hold and its last raise.
THEOREM RecoveryIsPaced == Spec => RecoveryPaced
<1>1. StallInv /\ [Next]_vars => StallInv'
  BY StallStep
<1>2. StallInv /\ [Next]_vars => [PacedStep]_vars
  BY PacedNext
<1> QED
  BY StallInit, <1>1, <1>2, PTL DEF Spec, RecoveryPaced

-----------------------------------------------------------------------------
\* The pace of the local capacity.  The sampler's clock is at least as late as the last
\* saturated sample and the last rise, and cut remembers that there was pressure.
PastInv ==
  /\ CapInv
  /\ now > 0
  /\ cut <=> localPast.pressed # 0
  /\ localPast.pressed <= lastStep
  /\ localPast.raised <= lastStep
  /\ lastStep <= now
  /\ samplerStarted => Saturation

\* What a sample does to the clock, and when it may raise the capacity.
LEMMA SamplePast ==
  ASSUME PastInv, NEW f \in Samples, Sample(f)
  PROVE  /\ UNCHANGED <<now, samplerStarted>>
         /\ cut' <=> cut \/ Saturated(read(f))
         /\ lastStep' \in {lastStep, now}
         /\ localPast'.pressed = IF Saturated(read(f)) THEN now ELSE localPast.pressed
         /\ localPast'.raised \in {localPast.raised, now}
         /\ Saturated(read(f)) \/ localPast'.raised # localPast.raised => lastStep' = now
BY DEF Sample, PastInv, CapInv, TypeOK

LEMMA PastStep ==
  ASSUME PastInv, [Next]_vars
  PROVE  PastInv'
<1> USE DEF keyVars, localVars, workerVars
<1>0. CapInv' /\ TypeOK'
  BY CapStep DEF PastInv, CapInv
<1>t. /\ now \in Nat /\ lastStep \in Nat /\ cut \in BOOLEAN /\ cut' \in BOOLEAN
      /\ localPast.pressed \in Nat /\ localPast.raised \in Nat
  BY <1>0 DEF PastInv, CapInv, TypeOK
<1>1. ASSUME NEW f \in Samples, Sample(f)
      PROVE  PastInv'
  BY <1>0, <1>1, <1>t, SamplePast DEF PastInv
<1>2. CASE Start
  BY <1>0, <1>2 DEF Start, PastInv
<1>3. CASE Tick
  BY <1>0, <1>3, <1>t DEF Tick, PastInv
<1>4. CASE UNCHANGED <<now, cut, lastStep, samplerStarted, localPast>>
  BY <1>0, <1>4 DEF PastInv
<1>5. \/ \E f \in Samples : Sample(f)
      \/ Start
      \/ Tick
      \/ UNCHANGED <<now, cut, lastStep, samplerStarted, localPast>>
  BY DEF Next, vars, Acquire, Defer, Release, Backstop, Observe, ObserveLocked,
         RegisterReconciler, Snapshot
<1> QED
  BY <1>1, <1>2, <1>3, <1>4, <1>5

LEMMA PastInit == Init => PastInv
BY CapInit, GovernorAssumption DEF Init, PastInv

\* Only a sample raises the local capacity, and only a paced one.
LEMMA LocalPacedNext ==
  ASSUME PastInv, [Next]_vars
  PROVE  LocalPacedStep
<1> USE DEF keyVars, localVars, workerVars
<1>t. /\ now \in Nat /\ lastStep \in Nat /\ cut \in BOOLEAN /\ local.capacity \in Nat
      /\ localPast.pressed \in Nat /\ localPast.raised \in Nat
      /\ Recovery \in Nat /\ StartupRamp \in Nat /\ local'.capacity \in Nat
  BY TypeStep, GovernorAssumption DEF PastInv, CapInv, TypeOK
<1>1. ASSUME NEW f \in Samples, Sample(f), local'.capacity > local.capacity
      PROVE  LocalPacedStep
  <2>1. ~Hard(read(f)) /\ ~Saturated(read(f))
    <3>1. Hard(read(f)) => Saturated(read(f))
      BY DEF Hard, Saturated
    <3>2. Hard(read(f)) => local'.capacity = capacityFloor
      BY <1>1, <3>1 DEF Sample
    <3>3. Saturated(read(f)) /\ ~Hard(read(f))
            => local'.capacity = LargerOf(capacityFloor, local.capacity \div 2)
      BY <1>1 DEF Sample
    <3>4. local.capacity >= capacityFloor /\ capacityFloor = 1
      BY CeilingPositive DEF PastInv, CapInv, CapacityBounded, TypeOK, capacityFloor
    <3>5. LargerOf(capacityFloor, local.capacity \div 2) <= local.capacity
      BY <1>t, <3>4, HalvingBounded
    <3>6. ASSUME Hard(read(f)) PROVE FALSE
      BY <1>t, <1>1, <3>2, <3>4, <3>6
    <3>7. ASSUME Saturated(read(f)), ~Hard(read(f)) PROVE FALSE
      <4>1. local'.capacity <= local.capacity
        BY <3>3, <3>5, <3>7
      <4> QED BY <1>t, <1>1, <4>1
    <3> QED
      BY <3>1, <3>6, <3>7
  <2>2. /\ local'.capacity = local.capacity + 1
        /\ now >= (IF lastStep = 0 THEN now ELSE lastStep) + (IF cut THEN Recovery ELSE StartupRamp)
    BY <1>1, <1>t, <2>1 DEF Sample
  <2>3. /\ cut <=> localPast.pressed # 0
        /\ localPast.pressed <= lastStep
        /\ localPast.raised <= lastStep
    BY DEF PastInv
  <2>4. CASE cut
    BY <1>t, <2>2, <2>3, <2>4 DEF LocalPacedStep
  <2>5. CASE ~cut
    BY <1>t, <2>2, <2>3, <2>5 DEF LocalPacedStep
  <2> QED
    BY <2>4, <2>5
<1>2. CASE RegisterReconciler
  <2>1. Saturation => local' = local
    BY <1>2 DEF RegisterReconciler
  <2>2. Saturation => ~(local'.capacity > local.capacity)
    BY <2>1, <1>t
  <2> QED BY <2>2 DEF LocalPacedStep
<1>3. CASE local' = local
  <2>1. ~(local'.capacity > local.capacity)
    BY <1>3, <1>t
  <2> QED BY <2>1 DEF LocalPacedStep
<1>4. \/ \E f \in Samples : Sample(f)
      \/ RegisterReconciler
      \/ local' = local
  BY DEF Next, vars, Acquire, Defer, Release, Backstop, Observe, ObserveLocked, Start, Snapshot, Tick
<1>5. local'.capacity > local.capacity \/ LocalPacedStep
  BY DEF LocalPacedStep
<1> QED
  BY <1>1, <1>2, <1>3, <1>4, <1>5

\* Under saturation the local capacity rises one call at a time, and after pressure only a
\* recovery interval after the last saturated sample and the last rise.
THEOREM LocalIsPaced == Spec => LocalPaced
<1>1. PastInv /\ [Next]_vars => PastInv'
  BY PastStep
<1>2. PastInv /\ [Next]_vars => [LocalPacedStep]_vars
  BY LocalPacedNext
<1> QED
  BY PastInit, <1>1, <1>2, PTL DEF Spec, LocalPaced

-----------------------------------------------------------------------------
\* Deferrals.  Only workers of registered reconcilers make calls, so a worker that asks for a
\* slot finds fewer calls running than the ceiling.
CallInv == SlotInv /\ Callers \subseteq Running

\* Acquire is only called by the workers of registered reconcilers.
LEMMA CallStep ==
  ASSUME CallInv, [Next]_vars
  PROVE  CallInv'
<1> USE DEF keyVars, localVars, workerVars
<1>0. SlotInv'
  BY SlotStep DEF CallInv
<1>t. TypeOK
  BY DEF CallInv, SlotInv
<1> SUFFICES Callers' \subseteq Running'
  BY <1>0 DEF CallInv
<1>1. ASSUME NEW w \in Workers, NEW ks \in SUBSET Keys, Acquire(w, ks)
      PROVE  Callers' \subseteq Running'
  <2>1. w \in Running /\ Running' = Running /\ phase' = [phase EXCEPT ![w] = "calling"]
    BY <1>1 DEF Acquire, Running
  <2>2. Callers' \subseteq Callers \cup {w}
    BY <1>t, <2>1 DEF Callers, TypeOK
  <2> QED BY <2>1, <2>2 DEF CallInv
<1>2. ASSUME NEW w \in Workers, Release(w) \/ Backstop(w)
      PROVE  Callers' \subseteq Running'
  <2>1. Running' = Running
    BY <1>2 DEF Release, Backstop, Running
  <2>2. Callers' \subseteq Callers
    BY <1>t, <1>2 DEF Release, Backstop, Callers, TypeOK
  <2> QED BY <2>1, <2>2 DEF CallInv
<1>3. CASE RegisterReconciler
  <2>1. Callers' = Callers /\ reconcilers' = reconcilers + 1
    BY <1>3 DEF RegisterReconciler, Callers
  <2>2. reconcilers \in Nat /\ PerController \in Nat
    BY <1>t, GovernorAssumption DEF TypeOK
  <2>3. /\ PerController * reconcilers \in Nat
        /\ PerController * (reconcilers + 1) = PerController * reconcilers + PerController
    BY <2>2
  <2>4. Running \subseteq Running'
    BY <2>1, <2>2, <2>3 DEF Running
  <2> QED BY <2>1, <2>4 DEF CallInv
<1>4. CASE UNCHANGED <<phase, reconcilers>>
  <2>1. Callers' = Callers /\ Running' = Running
    BY <1>4 DEF Callers, Running
  <2> QED BY <2>1 DEF CallInv
<1>5. \/ \E w \in Workers, ks \in SUBSET Keys : Acquire(w, ks)
      \/ \E w \in Workers : Release(w) \/ Backstop(w)
      \/ RegisterReconciler
      \/ UNCHANGED <<phase, reconcilers>>
  BY DEF Next, vars, Defer, Observe, ObserveLocked, Sample, Start, Snapshot, Tick
<1> QED
  BY <1>1, <1>2, <1>3, <1>4, <1>5

\* At first no worker is in a call.
LEMMA CallInit == Init => CallInv
<1> SUFFICES ASSUME Init PROVE Callers \subseteq Running
  BY SlotInit DEF CallInv
<1> QED
  BY DEF Init, Callers

\* A worker that asks is not among the calls, so there are fewer of them than the ceiling.
LEMMA SpareSlot ==
  ASSUME CallInv, NEW w \in Running, phase[w] # "calling"
  PROVE  localInFlight < ceiling /\ \A k \in Keys : inFlight[k] < ceiling
<1> DEFINE n == PerController * reconcilers
<1>1. reconcilers \in Nat /\ PerController \in Nat
  BY GovernorAssumption DEF CallInv, SlotInv, TypeOK
<1>2. n \in Nat
  BY <1>1
<1>3. w \in 1..n /\ Callers \subseteq (1..n) \ {w}
  BY DEF CallInv, Running, Callers
<1>4. n >= 1 /\ reconcilers # 0
  BY <1>1, <1>2, <1>3
<1>5. ceiling = n
  BY <1>1, <1>4 DEF ceiling, LargerOf
<1> HIDE DEF n
<1>6. IsFiniteSet(1..n) /\ Cardinality(1..n) = n
  BY <1>2, <1>4, FS_Interval
<1>7. IsFiniteSet((1..n) \ {w}) /\ Cardinality((1..n) \ {w}) = n - 1
  BY <1>3, <1>6, FS_RemoveElement
<1>8. Cardinality(Callers) <= n - 1 /\ Cardinality(Callers) \in Nat
  <2> DEFINE others == (1..n) \ {w}
  <2>1. Callers \subseteq others /\ IsFiniteSet(others) /\ Cardinality(others) = n - 1
    BY <1>3, <1>7
  <2> HIDE DEF others
  <2>2. Cardinality(Callers) <= Cardinality(others)
    BY <2>1, FS_Subset
  <2>3. Cardinality(Callers) \in Nat
    BY CallsFinite, FS_CardinalityType
  <2> QED BY <2>1, <2>2, <2>3
<1>9. localInFlight < ceiling
  BY <1>2, <1>5, <1>8 DEF CallInv, SlotInv, SlotsConserved
<1>10. ASSUME NEW k \in Keys
       PROVE  inFlight[k] < ceiling
  <2>1. Holders(k) \subseteq Callers
    BY DEF Holders, Callers
  <2>2. Cardinality(Holders(k)) <= Cardinality(Callers) /\ Cardinality(Holders(k)) \in Nat
    BY <2>1, CallsFinite, FS_Subset, FS_CardinalityType
  <2> QED BY <1>2, <1>5, <1>8, <2>2 DEF CallInv, SlotInv, SlotsConserved
<1> QED
  BY <1>9, <1>10

\* A jittered delay is positive when its upper bound is.
LEMMA JitterPositive ==
  ASSUME NEW hi \in Nat, hi > 0
  PROVE  \A d \in Jitter(hi) : d \in Nat /\ d > 0
BY GovernorAssumption DEF Jitter

\* While the local capacity is full it is below the ceiling, so the ramp still has time left.
LEMMA RampLeftPositive ==
  ASSUME CallInv, NEW w \in Running, phase[w] # "calling", LocalFull
  PROVE  rampLeft \in Nat /\ rampLeft > 0
<1>1. /\ local.capacity \in Nat /\ localInFlight \in Nat
      /\ ceiling \in Nat
  BY CeilingPositive DEF CallInv, SlotInv, TypeOK
<1>2. ceiling - local.capacity \in Nat /\ ceiling - local.capacity >= 1
  BY <1>1, SpareSlot DEF LocalFull
<1>3. LargerOf(StartupRamp, SamplePeriod) \in Nat /\ LargerOf(StartupRamp, SamplePeriod) >= 1
  BY GovernorAssumption DEF LargerOf
<1>4. ASSUME NEW a \in Nat, NEW b \in Nat, a >= 1, b >= 1
      PROVE  a * b \in Nat /\ a * b > 0
  <2>1. a - 1 \in Nat /\ (a - 1) * b \in Nat
    BY <1>4
  <2>2. a * b = (a - 1) * b + b
    BY <1>4
  <2> QED BY <1>4, <2>1, <2>2
<1> QED
  BY <1>2, <1>3, <1>4 DEF rampLeft

\* Whatever slots are taken, a deferral's RequeueAfter is positive and reaches every hold.
LEMMA DeferralDelay ==
  ASSUME CallInv, NEW w \in Running, NEW ks \in SUBSET Keys,
         phase[w] # "calling", ~Grants(ks), NEW d \in RequeueAfter(ks)
  PROVE  d \in Nat /\ d > 0 /\ \A k \in ks : now + d >= holdUntil[k]
<1>t. now \in Nat /\ holdUntil \in [Keys -> Nat] /\ Recovery \in Nat /\ Recovery > 0
  BY GovernorAssumption DEF CallInv, SlotInv, TypeOK
<1>1. CASE HeldKeys(ks) # {}
  <2>1. RequeueAfter(ks) = {holdUntil[k] - now : k \in {x \in HeldKeys(ks) :
                              \A y \in HeldKeys(ks) : holdUntil[y] <= holdUntil[x]}}
    BY <1>1 DEF RequeueAfter, DeferReason
  <2>2. PICK x \in HeldKeys(ks) : /\ \A y \in HeldKeys(ks) : holdUntil[y] <= holdUntil[x]
                                  /\ d = holdUntil[x] - now
    BY <2>1
  <2> QED BY <1>t, <2>2 DEF HeldKeys
<1>2. CASE HeldKeys(ks) = {}
  <2>1. \A k \in ks : now >= holdUntil[k]
    BY <1>t, <1>2 DEF HeldKeys
  <2>2. d \in Nat /\ d > 0
    <3>1. CASE DeferReason(ks) = "ramping"
      <4>1. LocalFull
        BY <1>2, <3>1 DEF DeferReason, Grants
      <4>2. rampLeft \in Nat /\ rampLeft > 0
        BY <4>1, RampLeftPositive
      <4>3. SmallerOf(Recovery, rampLeft) \in Nat /\ SmallerOf(Recovery, rampLeft) > 0
        BY <1>t, <4>2 DEF SmallerOf
      <4>4. d \in Jitter(SmallerOf(Recovery, rampLeft))
        BY <3>1 DEF RequeueAfter
      <4> QED BY <4>3, <4>4, JitterPositive
    <3>2. CASE DeferReason(ks) # "ramping"
      <4>1. DeferReason(ks) # "throttled"
        BY <1>2 DEF DeferReason
      <4>2. d \in Jitter(Recovery)
        BY <3>2, <4>1 DEF RequeueAfter
      <4> QED BY <1>t, <4>2, JitterPositive
    <3> QED BY <3>1, <3>2
  <2> QED BY <1>t, <2>1, <2>2
<1> QED
  BY <1>1, <1>2

LEMMA CallInvWakes == CallInv => DeferralWakes
BY DeferralDelay DEF DeferralWakes

\* Every deferral an AcquireAll of a registered worker may get has a positive RequeueAfter
\* that reaches the hold of every key of the call, so the object is not dropped and does not
\* wake to be deferred again by the same hold.
THEOREM DeferralsWake == Spec => []DeferralWakes
<1>1. CallInv /\ [Next]_vars => CallInv'
  BY CallStep
<1> QED
  BY CallInit, <1>1, CallInvWakes, PTL DEF Spec

-----------------------------------------------------------------------------
\* Keys nobody has reported.  Such a key is where it started: at the ceiling and not held;
\* without saturation the local capacity is at the ceiling too.
UnheardInv ==
  /\ CallInv
  /\ now > 0
  /\ \A k \in Keys : cutAt[k] = 0 => capacity[k] = ceiling /\ holdUntil[k] = 0
  /\ ~Saturation => local.capacity = ceiling /\ ~samplerStarted

\* A read leaves such a key at the ceiling.
LEMMA TouchUnheard ==
  ASSUME UnheardInv, NEW ks \in SUBSET Keys, TouchKeys(ks), NEW k \in Keys, cutAt[k] = 0
  PROVE  capacity'[k] = ceiling
<1>1. capacity[k] = ceiling /\ capacity[k] \in Nat
  BY DEF UnheardInv, CallInv, SlotInv, TypeOK
<1>2. ~maybeRaise(k)
  BY <1>1 DEF maybeRaise
<1> QED
  BY <1>1, <1>2 DEF TouchKeys, RaisedCapacity

\* With saturation off, a key nobody reported about keeps its capacity at the ceiling.
LEMMA UnheardStep ==
  ASSUME UnheardInv, [Next]_vars
  PROVE  UnheardInv'
<1> USE DEF keyVars, localVars, workerVars
<1>0. CallInv'
  BY CallStep DEF UnheardInv
<1>t. TypeOK
  BY DEF UnheardInv, CallInv, SlotInv
<1>1. ASSUME NEW ks \in SUBSET Keys, TouchKeys(ks),
             UNCHANGED <<now, reconcilers, holdUntil, cutAt, local, samplerStarted>>
      PROVE  UnheardInv'
  BY <1>0, <1>1, TouchUnheard, CeilingFrame DEF UnheardInv
<1>2. CASE UNCHANGED <<now, reconcilers, capacity, holdUntil, cutAt, local, samplerStarted>>
  BY <1>0, <1>2, CeilingFrame DEF UnheardInv
<1>3. ASSUME NEW w \in Workers, ObserveLocked(w)
      PROVE  UnheardInv'
  <2>1. PICK r \in report[w] :
          /\ capacity' = [capacity EXCEPT ![r.key] = IF r.kind = "throttled" THEN capacityFloor
                                                     ELSE LargerOf(capacityFloor, @ \div 2)]
          /\ holdUntil' = [holdUntil EXCEPT ![r.key] =
                             IF r.kind = "throttled" /\ r.until > @ THEN r.until ELSE @]
          /\ cutAt' = [cutAt EXCEPT ![r.key] = now]
    BY <1>3 DEF ObserveLocked
  <2>2. UNCHANGED <<now, reconcilers, local, samplerStarted>> /\ ceiling' = ceiling
    BY <1>3, CeilingFrame DEF ObserveLocked
  <2>3. ASSUME NEW k \in Keys, cutAt'[k] = 0
        PROVE  capacity'[k] = ceiling /\ holdUntil'[k] = 0
    <3>1. k # r.key
      BY <1>t, <2>1, <2>3 DEF UnheardInv, TypeOK
    <3>2. cutAt'[k] = cutAt[k] /\ capacity'[k] = capacity[k] /\ holdUntil'[k] = holdUntil[k]
      BY <1>t, <2>1, <3>1 DEF TypeOK
    <3> QED BY <2>3, <3>2 DEF UnheardInv
  <2> QED BY <1>0, <2>2, <2>3 DEF UnheardInv
<1>4. ASSUME NEW f \in Samples, Sample(f)
      PROVE  UnheardInv'
  <2>1. /\ samplerStarted
        /\ UNCHANGED <<now, reconcilers, capacity, holdUntil, cutAt, samplerStarted>>
    BY <1>4 DEF Sample
  <2>2. Saturation
    BY <2>1 DEF UnheardInv
  <2> QED BY <1>0, <2>1, <2>2, CeilingFrame DEF UnheardInv
<1>5. CASE Start
  BY <1>0, <1>5, CeilingFrame DEF UnheardInv, Start
<1>6. CASE RegisterReconciler
  <2>1. ceiling' = PerController * LargerOf(1, reconcilers + 1)
    BY <1>6 DEF RegisterReconciler, ceiling
  <2>2. \A k \in Keys : cutAt'[k] = 0 => capacity'[k] = ceiling' /\ holdUntil'[k] = 0
    BY <1>6, <2>1 DEF RegisterReconciler, UnheardInv
  <2>3. ~Saturation => local'.capacity = ceiling' /\ ~samplerStarted'
    <3>1. SUFFICES ASSUME ~Saturation PROVE local'.capacity = ceiling' /\ ~samplerStarted'
      OBVIOUS
    <3>2. local.capacity = ceiling /\ ~samplerStarted
      BY <3>1 DEF UnheardInv
    <3>3. local' = [local EXCEPT !.capacity = ceiling']
      BY <1>6, <2>1, <3>1, <3>2 DEF RegisterReconciler
    <3>4. local'.capacity = ceiling'
      BY <1>t, <3>3 DEF TypeOK
    <3> QED BY <1>6, <3>2, <3>4 DEF RegisterReconciler
  <2>4. now' = now
    BY <1>6 DEF RegisterReconciler
  <2> QED BY <1>0, <2>2, <2>3, <2>4 DEF UnheardInv
<1>7. CASE Tick
  <2>1. now' = now + 1 /\ UNCHANGED <<reconcilers, capacity, holdUntil, cutAt, local, samplerStarted>>
    BY <1>7 DEF Tick
  <2> QED BY <1>0, <1>t, <2>1, CeilingFrame DEF UnheardInv, TypeOK
<1>8. \/ \E ks \in SUBSET Keys :
           TouchKeys(ks) /\ UNCHANGED <<now, reconcilers, holdUntil, cutAt, local, samplerStarted>>
      \/ UNCHANGED <<now, reconcilers, capacity, holdUntil, cutAt, local, samplerStarted>>
      \/ \E w \in Workers : ObserveLocked(w)
      \/ \E f \in Samples : Sample(f)
      \/ Start \/ RegisterReconciler \/ Tick
  BY DEF Next, vars, Acquire, Defer, Release, Backstop, Observe, Snapshot
<1> QED
  BY <1>1, <1>2, <1>3, <1>4, <1>5, <1>6, <1>7, <1>8

\* New starts every key at the ceiling, and without a hold.
LEMMA UnheardInit == Init => UnheardInv
<1> SUFFICES ASSUME Init PROVE UnheardInv
  OBVIOUS
<1>1. PerController \in Nat /\ PerController >= 1 /\ Recovery \in Nat /\ Recovery > 0
  BY GovernorAssumption
<1>2. ceiling = PerController
  BY <1>1 DEF Init, ceiling, LargerOf
<1>3. ~Saturation => local.capacity = PerController /\ ~samplerStarted
  BY DEF Init
<1> QED
  BY <1>1, <1>2, <1>3, CallInit DEF UnheardInv, Init

\* An asking worker finds a free slot of every key nobody reported about.
LEMMA UnheardGranted == UnheardInv => UnheardNeverDeferred
<1> SUFFICES ASSUME UnheardInv, NEW w \in Running, NEW ks \in SUBSET {k \in Keys : cutAt[k] = 0},
                    phase[w] # "calling"
             PROVE  Grants(ks) \/ (Saturation /\ HeldKeys(ks) = {} /\ FullKeys(ks) = {})
  BY DEF UnheardNeverDeferred
<1>t. /\ now \in Nat /\ capacity \in [Keys -> Nat] /\ inFlight \in [Keys -> Nat]
      /\ localInFlight \in Nat /\ ceiling \in Nat
  BY CeilingPositive DEF UnheardInv, CallInv, SlotInv, TypeOK
<1>1. localInFlight < ceiling /\ \A k \in Keys : inFlight[k] < ceiling
  BY SpareSlot DEF UnheardInv
<1>2. HeldKeys(ks) = {}
  BY <1>t DEF HeldKeys, UnheardInv
<1>3. ASSUME NEW k \in ks
      PROVE  RaisedCapacity(ks)[k] = ceiling
  <2>1. k \in Keys /\ capacity[k] = ceiling
    BY DEF UnheardInv
  <2>2. ~maybeRaise(k)
    BY <1>t, <2>1 DEF maybeRaise
  <2> QED BY <2>1, <2>2 DEF RaisedCapacity
<1>4. FullKeys(ks) = {}
  <2>1. \A k \in ks : ~(inFlight[k] >= RaisedCapacity(ks)[k])
    BY <1>t, <1>1, <1>3
  <2> QED BY <2>1 DEF FullKeys
<1>5. ~Saturation => ~LocalFull
  BY <1>t, <1>1 DEF LocalFull, UnheardInv
<1> QED
  BY <1>2, <1>4, <1>5 DEF Grants

\* A registered worker is never deferred because of keys nobody has reported, whatever the
\* other keys' signals and however many reconcilers register meanwhile.
THEOREM UnheardAreGranted == Spec => []UnheardNeverDeferred
<1>1. UnheardInv /\ [Next]_vars => UnheardInv'
  BY UnheardStep
<1> QED
  BY UnheardInit, <1>1, UnheardGranted, PTL DEF Spec

-----------------------------------------------------------------------------
\* The governor implements CallGate: its count of a key is the number of calls that hold it.
GateInv == SlotInv /\ CapInv

\* The calls as CallGate sees them.
GateCalls == [w \in Workers |-> IF phase[w] = "calling" THEN {held[w]} ELSE {}]

LEMMA GateCounts ==
  ASSUME GateInv
  PROVE  /\ \A k \in Keys : Gate!InUse(k) = inFlight[k]
         /\ Gate!Running = localInFlight
<1>1. ASSUME NEW k \in Keys
      PROVE  {c \in Workers : \E ks \in GateCalls[c] : k \in ks} = Holders(k)
  BY DEF GateCalls, Holders
<1>2. {c \in Workers : GateCalls[c] # {}} = Callers
  BY DEF GateCalls, Callers
<1>0. ASSUME NEW S PROVE Gate!Cardinality(S) = Cardinality(S)
  BY DEF Gate!Cardinality, Cardinality
<1>3. ASSUME NEW k \in Keys
      PROVE  Gate!InUse(k) = inFlight[k]
  <2>1. Gate!InUse(k) = Cardinality(Holders(k))
    BY <1>0, <1>1 DEF Gate!InUse, GateCalls
  <2> QED BY <2>1 DEF GateInv, SlotInv, SlotsConserved
<1>4. Gate!Running = localInFlight
  <2>1. Gate!Running = Cardinality(Callers)
    BY <1>0, <1>2 DEF Gate!Running, GateCalls
  <2> QED BY <2>1 DEF GateInv, SlotInv, SlotsConserved
<1> QED
  BY <1>3, <1>4

LEMMA GateInit == Init => Gate!Init
<1> SUFFICES ASSUME Init PROVE Gate!Init
  OBVIOUS
<1>1. CapInv
  BY CapInit
<1>2. ceiling \in Nat \ {0}
  BY <1>1, CeilingPositive DEF CapInv, TypeOK
<1>3. GateCalls = [c \in Workers |-> {}]
  BY DEF Init, GateCalls
<1>4. capacity \in [Keys -> 1..ceiling] /\ local.capacity \in 1..ceiling
  BY <1>1 DEF CapInv, CapacityBounded, TypeOK, capacityFloor
<1>5. HeldKeys(Keys) \subseteq Keys
  BY DEF HeldKeys
<1> QED
  BY <1>2, <1>3, <1>4, <1>5 DEF Gate!Init, GateCalls

\* A grant enters.
LEMMA GateEnters ==
  ASSUME GateInv, GateInv', NEW w \in Workers, NEW ks \in SUBSET Keys, Acquire(w, ks)
  PROVE  Gate!Enter(w, ks)
<1>1. GateCalls[w] = {}
  BY DEF Acquire, GateCalls
<1>2. GateCalls' = [GateCalls EXCEPT ![w] = {ks}]
  BY DEF Acquire, GateCalls, GateInv, CapInv, TypeOK
<1>3. UNCHANGED <<ceiling, local, HeldKeys(Keys)>>
  BY DEF Acquire, ceiling, HeldKeys
<1>4. ks \cap HeldKeys(Keys) = {}
  BY DEF Acquire, Grants, HeldKeys
<1>5. capacity' \in [Keys -> 1..ceiling]
  BY <1>3 DEF GateInv, CapInv, CapacityBounded, TypeOK, capacityFloor
<1>6. capacity' = RaisedCapacity(ks)
  BY DEF Acquire, TouchKeys
<1>7. \A k \in Keys : capacity'[k] = capacity[k] \/ (k \in ks /\ capacity'[k] = capacity[k] + 1)
  BY <1>6 DEF RaisedCapacity
<1>8. \A k \in ks : Gate!InUse(k) < capacity'[k]
  <2>1. SUFFICES ASSUME NEW k \in ks PROVE Gate!InUse(k) < capacity'[k]
    OBVIOUS
  <2>2. ~(inFlight[k] >= RaisedCapacity(ks)[k])
    BY DEF Acquire, Grants, FullKeys
  <2>3. inFlight[k] \in Nat /\ capacity'[k] \in Nat
    BY <1>5 DEF GateInv, CapInv, TypeOK
  <2> QED BY <1>6, <2>2, <2>3, GateCounts
<1>9. Gate!Running < local.capacity
  <2>1. localInFlight < local.capacity
    BY DEF Acquire, Grants, LocalFull, GateInv, CapInv, TypeOK
  <2> QED BY <2>1, GateCounts
<1> QED
  BY <1>1, <1>2, <1>3, <1>4, <1>5, <1>7, <1>8, <1>9 DEF Gate!Enter, GateCalls

\* The end of a call leaves.
LEMMA GateLeaves ==
  ASSUME GateInv, NEW w \in Workers, Release(w) \/ Backstop(w), phase[w] = "calling"
  PROVE  Gate!Leave(w)
<1>1. GateCalls[w] # {}
  BY DEF GateCalls
<1>2. GateCalls' = [GateCalls EXCEPT ![w] = {}]
  <2>1. CASE Release(w)
    BY <2>1 DEF Release, GateCalls, GateInv, CapInv, TypeOK
  <2>2. CASE Backstop(w)
    BY <2>2 DEF Backstop, GateCalls, GateInv, CapInv, TypeOK
  <2> QED BY <2>1, <2>2
<1>3. UNCHANGED <<capacity, local, ceiling, HeldKeys(Keys)>>
  BY DEF Release, Backstop, ceiling, HeldKeys
<1> QED
  BY <1>1, <1>2, <1>3 DEF Gate!Leave, GateCalls

\* Whatever else happens moves limits within their bounds.
LEMMA GateAdjusts ==
  ASSUME GateInv, GateInv', UNCHANGED GateCalls,
         reconcilers' = reconcilers \/ reconcilers' = reconcilers + 1
  PROVE  Gate!Adjust
<1>1. ceiling' \in Nat /\ ceiling' >= ceiling
  <2>1. reconcilers \in Nat /\ reconcilers' \in Nat /\ ceiling \in Nat
    BY CeilingPositive DEF GateInv, CapInv, TypeOK
  <2>2. CASE reconcilers' = reconcilers
    BY <2>1, <2>2, CeilingFrame
  <2>3. CASE reconcilers' = reconcilers + 1
    BY <2>1, <2>3, CeilingGrows DEF ceiling
  <2> QED BY <2>2, <2>3
<1>2. capacity' \in [Keys -> 1..ceiling'] /\ local'.capacity \in 1..ceiling'
  BY DEF GateInv, CapInv, CapacityBounded, TypeOK, capacityFloor
<1>3. HeldKeys(Keys)' \subseteq Keys
  BY DEF HeldKeys
<1> QED
  BY <1>1, <1>2, <1>3 DEF Gate!Adjust, GateCalls

LEMMA GateStep ==
  ASSUME GateInv, GateInv', [Next]_vars
  PROVE  [Gate!Next]_(Gate!vars)
<1> USE DEF keyVars, localVars, workerVars
<1>1. ASSUME NEW w \in Workers, NEW ks \in SUBSET Keys, Acquire(w, ks)
      PROVE  Gate!Next
  BY <1>1, GateEnters DEF Gate!Next
<1>2. ASSUME NEW w \in Workers, Release(w) \/ Backstop(w), phase[w] = "calling"
      PROVE  Gate!Next
  BY <1>2, GateLeaves DEF Gate!Next
<1>3. ASSUME NEW w \in Workers, Backstop(w), phase[w] # "calling"
      PROVE  Gate!Next
  <2>1. UNCHANGED GateCalls
    BY <1>3 DEF Backstop, GateCalls, GateInv, CapInv, TypeOK
  <2>2. reconcilers' = reconcilers
    BY <1>3 DEF Backstop
  <2> QED BY <2>1, <2>2, GateAdjusts DEF Gate!Next
<1>4. ASSUME UNCHANGED <<phase, held>>, reconcilers' = reconcilers \/ reconcilers' = reconcilers + 1
      PROVE  Gate!Next
  BY <1>4, GateAdjusts DEF Gate!Next, GateCalls
<1>5. \/ \E w \in Workers, ks \in SUBSET Keys : Acquire(w, ks)
      \/ \E w \in Workers : Release(w) \/ Backstop(w)
      \/ UNCHANGED <<phase, held>> /\ (reconcilers' = reconcilers \/ reconcilers' = reconcilers + 1)
  BY DEF Next, vars, Defer, Observe, ObserveLocked, Sample, Start, RegisterReconciler, Snapshot, Tick
<1>6. \A w \in Workers : Release(w) => phase[w] = "calling"
  BY DEF Release
<1> QED
  BY <1>1, <1>2, <1>3, <1>4, <1>5, <1>6

\* Seen from the workers the governor is a set of counting semaphores with moving limits:
\* every call has a slot in each of its keys and in the process, all or nothing.
THEOREM ImplementsCallGate == Spec => GateSpec
<1>1. Init => GateInv
  BY SlotInit, CapInit DEF GateInv
<1>2. GateInv /\ [Next]_vars => GateInv'
  BY SlotStep, CapStep DEF GateInv
<1>3. GateInv /\ GateInv' /\ [Next]_vars => [Gate!Next]_(Gate!vars)
  BY GateStep
<1> QED
  BY GateInit, <1>1, <1>2, <1>3, PTL DEF Spec, GateSpec, Gate!Spec
===============================================================================
