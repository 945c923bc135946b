---------------------------- MODULE GatedProofs ----------------------------
(***************************************************************************)
(* Proofs about GatedReconciler: what the pass does to the governor are    *)
(* steps of Governor, and what the governor's answers do to the pass are   *)
(* steps of Reconciler, so the theorems of both carry over; slots follow   *)
(* calls, and the startup ramp is quiet.                                   *)
(***************************************************************************)
EXTENDS GatedReconciler, ReconcilerProofs

\* What is proved of Governor, for the governor of GatedReconciler.
GP == INSTANCE GovernorProofs

-----------------------------------------------------------------------------
\* The constants and the steps of the governor.

LEMMA GovernorAssumed == GP!GovernorAssumption /\ GP!SaturationAssumption
BY GatedAssumption, Zenon DEF G!GovernorAssumption, GP!GovernorAssumption, G!SignalFields, GP!SignalFields,
   G!CgroupFiles, GP!CgroupFiles, G!SaturationAssumption, GP!SaturationAssumption

LEMMA SameCalls ==
  /\ \A w, ks : G!Acquire(w, ks) <=> GP!Acquire(w, ks)
  /\ \A w, ks : G!Defer(w, ks) <=> GP!Defer(w, ks)
  /\ \A ks : G!RequeueAfter(ks) = GP!RequeueAfter(ks) /\ G!DeferReason(ks) = GP!DeferReason(ks)
<1>1. \A w, ks : G!Acquire(w, ks) <=> GP!Acquire(w, ks)
  BY Zenon DEF G!Acquire, GP!Acquire, G!capacityFloor, GP!capacityFloor, G!SmallerOf,
     GP!SmallerOf, G!LargerOf, GP!LargerOf, G!ceiling, GP!ceiling, G!maybeRaise,
     GP!maybeRaise, G!RaisedCapacity, GP!RaisedCapacity, G!RaisedAt, GP!RaisedAt,
     G!HeldKeys, GP!HeldKeys, G!FullKeys, GP!FullKeys, G!LocalFull, GP!LocalFull,
     G!Grants, GP!Grants, G!TouchKeys, GP!TouchKeys, G!Running, GP!Running,
     G!keyVars, GP!keyVars, G!localVars, GP!localVars, G!workerVars, GP!workerVars,
     G!vars, GP!vars
<1>2. \A w, ks : G!Defer(w, ks) <=> GP!Defer(w, ks)
  BY Zenon DEF G!Defer, GP!Defer, G!capacityFloor, GP!capacityFloor, G!SmallerOf, GP!SmallerOf,
     G!LargerOf, GP!LargerOf, G!ceiling, GP!ceiling, G!maybeRaise, GP!maybeRaise,
     G!RaisedCapacity, GP!RaisedCapacity, G!RaisedAt, GP!RaisedAt, G!HeldKeys,
     GP!HeldKeys, G!FullKeys, GP!FullKeys, G!LocalFull, GP!LocalFull, G!Grants,
     GP!Grants, G!TouchKeys, GP!TouchKeys, G!Running, GP!Running, G!keyVars,
     GP!keyVars, G!localVars, GP!localVars, G!workerVars, GP!workerVars, G!vars,
     GP!vars
<1>3. \A ks : G!DeferReason(ks) = GP!DeferReason(ks)
  BY Zenon DEF G!DeferReason, GP!DeferReason, G!capacityFloor, GP!capacityFloor, G!SmallerOf,
     GP!SmallerOf, G!LargerOf, GP!LargerOf, G!ceiling, GP!ceiling, G!maybeRaise,
     GP!maybeRaise, G!RaisedCapacity, GP!RaisedCapacity, G!RaisedAt, GP!RaisedAt,
     G!HeldKeys, GP!HeldKeys, G!FullKeys, GP!FullKeys, G!LocalFull, GP!LocalFull,
     G!Grants, GP!Grants, G!TouchKeys, GP!TouchKeys, G!Running, GP!Running
<1>4. \A ks : G!RequeueAfter(ks) = GP!RequeueAfter(ks)
  BY Zenon DEF G!RequeueAfter, GP!RequeueAfter, G!DeferReason, GP!DeferReason, G!Jitter,
     GP!Jitter, G!rampLeft, GP!rampLeft, G!capacityFloor, GP!capacityFloor,
     G!SmallerOf, GP!SmallerOf, G!LargerOf, GP!LargerOf, G!ceiling, GP!ceiling,
     G!maybeRaise, GP!maybeRaise, G!RaisedCapacity, GP!RaisedCapacity, G!RaisedAt,
     GP!RaisedAt, G!HeldKeys, GP!HeldKeys, G!FullKeys, GP!FullKeys, G!LocalFull,
     GP!LocalFull, G!Grants, GP!Grants, G!TouchKeys, GP!TouchKeys, G!Running,
     GP!Running
<1> QED
  BY <1>1, <1>2, <1>3, <1>4

LEMMA SameEnds ==
  /\ \A w : G!Release(w) <=> GP!Release(w)
  /\ \A w : G!Backstop(w) <=> GP!Backstop(w)
<1>1. \A w : G!Release(w) <=> GP!Release(w)
  BY Zenon DEF G!Release, GP!Release, G!release, GP!release, G!keyVars, GP!keyVars,
     G!localVars, GP!localVars, G!workerVars, GP!workerVars, G!vars, GP!vars
<1>2. \A w : G!Backstop(w) <=> GP!Backstop(w)
  BY Zenon DEF G!Backstop, GP!Backstop, G!release, GP!release, G!keyVars, GP!keyVars,
     G!localVars, GP!localVars, G!workerVars, GP!workerVars, G!vars, GP!vars
<1> QED
  BY <1>1, <1>2

LEMMA SameReports ==
  /\ \A w, k, s : G!Observe(w, k, s) <=> GP!Observe(w, k, s)
  /\ \A w : G!ObserveLocked(w) <=> GP!ObserveLocked(w)
  /\ \A f : G!Sample(f) <=> GP!Sample(f)
<1>1. \A w, k, s : G!Observe(w, k, s) <=> GP!Observe(w, k, s)
  BY Zenon DEF G!Observe, GP!Observe, G!Classify, GP!Classify, G!Deadline, GP!Deadline,
     G!advisoryQuotaDivisor, GP!advisoryQuotaDivisor, G!keyVars, GP!keyVars,
     G!localVars, GP!localVars, G!workerVars, GP!workerVars, G!vars, GP!vars
<1>2. \A w : G!ObserveLocked(w) <=> GP!ObserveLocked(w)
  BY Zenon DEF G!ObserveLocked, GP!ObserveLocked, G!LargerOf, GP!LargerOf, G!capacityFloor,
     GP!capacityFloor, G!keyVars, GP!keyVars, G!localVars, GP!localVars,
     G!workerVars, GP!workerVars, G!vars, GP!vars
<1>a. \A f : G!read(f) = GP!read(f)
  BY SMT DEF G!read, GP!read, G!readWorkingSet, GP!readWorkingSet
<1>b. \A x : G!Saturated(x) = GP!Saturated(x)
  BY Zenon DEF G!Saturated, GP!Saturated, G!CPUSaturated, GP!CPUSaturated, G!MemoryOver,
     GP!MemoryOver
<1>c. \A x : G!Hard(x) = GP!Hard(x)
  BY Zenon DEF G!Hard, GP!Hard, G!MemoryOver, GP!MemoryOver
<1>d. /\ G!capacityFloor = GP!capacityFloor /\ G!ceiling = GP!ceiling
      /\ G!keyVars = GP!keyVars /\ G!workerVars = GP!workerVars
  BY Zenon DEF G!capacityFloor, GP!capacityFloor, G!ceiling, GP!ceiling, G!LargerOf, GP!LargerOf,
     G!keyVars, GP!keyVars, G!workerVars, GP!workerVars
<1>e. \A x, y : G!LargerOf(x, y) = GP!LargerOf(x, y)
  BY Zenon DEF G!LargerOf, GP!LargerOf
<1>3. ASSUME NEW f PROVE G!Sample(f) <=> GP!Sample(f)
  <2>1. /\ G!read(f) = GP!read(f)
        /\ G!Saturated(G!read(f)) = GP!Saturated(GP!read(f))
        /\ G!Hard(G!read(f)) = GP!Hard(GP!read(f))
    BY <1>a, <1>b, <1>c
  <2> QED
    BY <2>1, <1>d, <1>e, SMTT(60) DEF G!Sample, GP!Sample, G!keyVars, GP!keyVars,
       G!workerVars, GP!workerVars
<1> QED
  BY <1>1, <1>2, <1>3

LEMMA SameRest ==
  /\ G!Start <=> GP!Start
  /\ G!RegisterReconciler <=> GP!RegisterReconciler
  /\ G!Tick <=> GP!Tick
  /\ G!Init <=> GP!Init
  /\ \A ks : G!Snapshot(ks) <=> GP!Snapshot(ks)
  /\ G!vars = GP!vars /\ G!Workers = GP!Workers
<1>1. G!Start <=> GP!Start
  BY Zenon DEF G!Start, GP!Start, G!keyVars, GP!keyVars, G!localVars, GP!localVars,
     G!workerVars, GP!workerVars, G!vars, GP!vars
<1>2. G!RegisterReconciler <=> GP!RegisterReconciler
  BY Zenon DEF G!RegisterReconciler, GP!RegisterReconciler, G!LargerOf, GP!LargerOf, G!ceiling,
     GP!ceiling, G!keyVars, GP!keyVars, G!localVars, GP!localVars, G!workerVars,
     GP!workerVars, G!vars, GP!vars
<1>3. G!Tick <=> GP!Tick
  BY Zenon DEF G!Tick, GP!Tick, G!Workers, GP!Workers, G!keyVars, GP!keyVars, G!localVars,
     GP!localVars, G!workerVars, GP!workerVars, G!vars, GP!vars
<1>4. G!Init <=> GP!Init
  BY Zenon DEF G!Init, GP!Init, G!Workers, GP!Workers, G!capacityFloor, GP!capacityFloor
<1>5. \A ks : G!Snapshot(ks) <=> GP!Snapshot(ks)
  BY Zenon DEF G!Snapshot, GP!Snapshot, G!capacityFloor, GP!capacityFloor, G!SmallerOf,
     GP!SmallerOf, G!LargerOf, GP!LargerOf, G!ceiling, GP!ceiling, G!maybeRaise,
     GP!maybeRaise, G!RaisedCapacity, GP!RaisedCapacity, G!RaisedAt, GP!RaisedAt,
     G!HeldKeys, GP!HeldKeys, G!FullKeys, GP!FullKeys, G!LocalFull, GP!LocalFull,
     G!Grants, GP!Grants, G!TouchKeys, GP!TouchKeys, G!Running, GP!Running,
     G!keyVars, GP!keyVars, G!localVars, GP!localVars, G!workerVars, GP!workerVars,
     G!vars, GP!vars
<1>6. G!vars = GP!vars /\ G!Workers = GP!Workers
  BY Zenon DEF G!Workers, GP!Workers, G!keyVars, GP!keyVars, G!localVars, GP!localVars,
     G!workerVars, GP!workerVars, G!vars, GP!vars
<1> QED
  BY <1>1, <1>2, <1>3, <1>4, <1>5, <1>6

LEMMA SameNext == G!Next <=> GP!Next
BY SameCalls, SameEnds, SameReports, SameRest, Zenon DEF G!Next, GP!Next

-----------------------------------------------------------------------------
\* What the pass does to the governor.

\* Both workers are workers of the governor, and the keys of a call are keys of it.
LEMMA TwoWorkers ==
  /\ worker \in GP!Workers /\ rival \in GP!Workers /\ worker # rival
  /\ GateKeys \in SUBSET Keys /\ ClientKeys \in SUBSET Keys
<1>1. PerController \in Nat \ {0} /\ MaxReconcilers = 2
  BY GatedAssumption DEF G!GovernorAssumption
<1>2. 2 <= PerController * MaxReconcilers /\ PerController * MaxReconcilers \in Nat
  BY <1>1
<1> QED
  BY <1>2, GatedAssumption DEF worker, rival, GP!Workers, GateKeys

\* The end of a pass leaves the governor alone or runs the release of its last call.
LEMMA EndMoves ==
  /\ EndPass => UNCHANGED govVars \/ GP!Backstop(worker)
  /\ EndCall => UNCHANGED govVars \/ GP!Backstop(worker) \/ GP!Release(worker)
BY SameEnds DEF EndPass, EndCall

\* No step of the pass takes time.
LEMMA PassTakesNoTime == StartPass \/ ExternalCall \/ MarkCreate \/ OtherStep => now' = now
BY DEF StartPass, ExternalCall, MarkCreate, OtherStep, GetNotFound, GetFails, GetPaused, GetOrphaned,
   Get, BeginPass, Connect, ObserveMissing, ObserveFound, ObserveFails, AdoptCreate, AwaitRecovery,
   ClearPending, ReportMissing, AwaitVisibility, Delete, RemoveFinalizer, AddFinalizer, BeginCreate,
   CreateSucceeds, CreateFails, UpdateCriticalAnnotations, LateInitialize, NothingToDo, Update,
   StatusUpdate

\* The governor's clock is the only variable of its own that govVars leaves out.
LEMMA GovernorFrame == UNCHANGED <<now, govVars>> => UNCHANGED GP!vars
BY DEF govVars, GP!vars, GP!keyVars, GP!localVars, GP!workerVars

\* Every step of the pass and of what is around it is a step of the governor, or none.
LEMMA GovernorStep == [GatedNext]_gatedVars => [GP!Next]_(GP!vars)
<1> SUFFICES ASSUME [GatedNext]_gatedVars PROVE [GP!Next]_(GP!vars)
  OBVIOUS
<1>1. CASE StartPass \/ ExternalCall \/ MarkCreate \/ OtherStep
  <2>1. UNCHANGED govVars \/ GP!Backstop(worker) \/ GP!Release(worker)
    BY <1>1, EndMoves DEF StartPass, ExternalCall, MarkCreate, OtherStep
  <2> QED
    BY <1>1, <2>1, PassTakesNoTime, GovernorFrame, TwoWorkers DEF GP!Next
<1>2. CASE Granted \/ Deferred
  BY <1>2, SameCalls, TwoWorkers DEF Granted, Deferred, GP!Next
<1>3. CASE Observe \/ Fold
  BY <1>3, SameReports, TwoWorkers DEF Observe, Fold, GP!Next
<1>4. CASE RivalCalls \/ RivalEnds
  BY <1>4, SameCalls, SameEnds, TwoWorkers DEF RivalCalls, RivalEnds, GP!Next
<1>5. CASE Sample \/ SetUp
  BY <1>5, SameReports, SameRest DEF Sample, SetUp, GP!Next
<1>6. CASE Edited \/ Synced \/ Ended
  BY <1>6, GovernorFrame DEF Edited, Synced, Ended, EditSpec, EditPause, EditPolicy, DeleteObject,
     ExternalVanishes, EditObject, Edit, CacheSync, Horizon, vars
<1>7. CASE Passes
  BY <1>7, SameRest DEF Passes, GP!Next
<1>8. CASE UNCHANGED gatedVars
  BY <1>8, GovernorFrame DEF gatedVars, vars
<1> QED
  BY <1>1, <1>2, <1>3, <1>4, <1>5, <1>6, <1>7, <1>8 DEF GatedNext, PassStep

\* Its start is a start of the governor.
LEMMA GovernorStart == GatedInit => GP!Init
BY SameRest DEF GatedInit

\* The governor of the reconciler is a Governor: what a pass, its early returns and its
\* backstop do to it is what Governor lets workers do, so all that is proved of Governor holds
\* of it.
THEOREM GovernorCarries == GatedSpec => G!Spec
<1>1. GatedInit => G!Init
  BY DEF GatedInit
<1>2. [GatedNext]_gatedVars => [G!Next]_(G!vars)
  <2>1. UNCHANGED GP!vars => UNCHANGED G!vars
    BY DEF G!vars, G!keyVars, G!localVars, G!workerVars, GP!vars, GP!keyVars, GP!localVars,
       GP!workerVars
  <2> QED
    BY <2>1, GovernorStep, SameNext
<1> QED
  BY <1>1, <1>2, PTL DEF GatedSpec, G!Spec

-----------------------------------------------------------------------------
\* What the governor does to the pass.

\* The deferrals that Reconciler allows are those a governor may answer with: either kind, and
\* any positive delay.
AnyDeferral == Deferrals = {"ramping", "deferred"} /\ Nat \ {0} \subseteq DeferDelays

\* Only what a gate calls, and the slots behind it, are needed: CallInv of Governor.
LEMMA CallInvHolds == /\ GatedInit => GP!CallInv
                      /\ GP!CallInv /\ [GatedNext]_gatedVars => GP!CallInv'
<1>1. GatedInit => GP!CallInv
  BY GovernorStart, GP!CallInit, GovernorAssumed
<1>2. ASSUME GP!CallInv, [GatedNext]_gatedVars PROVE GP!CallInv'
  <2>1. [GP!Next]_(GP!vars)
    BY <1>2, GovernorStep
  <2> QED
    BY <1>2, <2>1, GP!CallStep, GovernorAssumed
<1> QED
  BY <1>1, <1>2

\* A deferral of the governor is one of Reconciler's.
LEMMA DeferralAllowed ==
  ASSUME AnyDeferral, GP!CallInv, Deferred
  PROVE  DeferReconcile
<1>1. worker \in GP!Running /\ phase[worker] # "calling" /\ ~GP!Grants(GateKeys)
  BY SameCalls DEF Deferred, GP!Defer
<1>a. PICK d \in G!RequeueAfter(GateKeys) :
        DeferFor(IF G!DeferReason(GateKeys) = "ramping" THEN "ramping" ELSE "deferred", d)
  BY Zenon DEF Deferred
<1>2. d \in GP!RequeueAfter(GateKeys)
  BY SameCalls
<1>3. d \in Nat /\ d > 0
  BY <1>1, <1>2, TwoWorkers, GP!DeferralDelay, GovernorAssumed
<1>4. d \in DeferDelays
  BY <1>3 DEF AnyDeferral
<1> QED
  BY <1>a, <1>4 DEF DeferReconcile, AnyDeferral

\* A step that leaves the pass and the clock alone leaves Reconciler alone.
LEMMA PassFrame == UNCHANGED <<now, passOnly>> => UNCHANGED vars
BY DEF passOnly, vars

\* The governor's own steps do not take time, but for its tick.
LEMMA GovernorTakesNoTime ==
  Granted \/ Observe \/ Fold \/ RivalCalls \/ RivalEnds \/ Sample \/ SetUp => UNCHANGED <<now, passOnly>>
BY SameCalls, SameEnds, SameReports, SameRest
   DEF Granted, Observe, Fold, RivalCalls, RivalEnds, Sample, SetUp, GP!Acquire, GP!Observe,
       GP!ObserveLocked, GP!Backstop, GP!Sample, GP!Start, GP!RegisterReconciler

\* Every step is a step of Reconciler, or none.
LEMMA ReconcilerStep ==
  ASSUME AnyDeferral, GP!CallInv, [GatedNext]_gatedVars
  PROVE  [Next]_vars
<1>1. CASE StartPass \/ ExternalCall \/ MarkCreate \/ OtherStep
  BY <1>1 DEF StartPass, ExternalCall, MarkCreate, OtherStep, Next, Reconcile
<1>2. CASE Deferred
  BY <1>2, DeferralAllowed DEF Next, Reconcile
<1>3. CASE Granted \/ Observe \/ Fold \/ RivalCalls \/ RivalEnds \/ Sample \/ SetUp
  BY <1>3, GovernorTakesNoTime, PassFrame
<1>4. CASE Edited \/ Synced \/ Passes \/ Ended
  BY <1>4 DEF Edited, Synced, Passes, Ended, Next, Environment
<1>5. CASE UNCHANGED gatedVars
  BY <1>5 DEF gatedVars
<1> QED
  BY <1>1, <1>2, <1>3, <1>4, <1>5 DEF GatedNext, PassStep

\* The reconciler behind the governor is a Reconciler, whichever calls are granted or deferred
\* and for how long.
THEOREM ReconcilerCarries ==
  ASSUME AnyDeferral
  PROVE  GatedSpec => Spec
<1>1. GatedInit => Init
  BY DEF GatedInit
<1>2. GP!CallInv /\ [GatedNext]_gatedVars => [Next]_vars
  BY ReconcilerStep
<1> QED
  BY <1>1, <1>2, CallInvHolds, PTL DEF GatedSpec, Spec

\* So no deferral, however long the pressure lasts and in whichever call of a pass, drops an
\* object that still has work to do.
THEOREM GatedIsNotStranded ==
  ASSUME AnyDeferral, PositiveDelays
  PROVE  GatedSpec => []NeverStranded
<1>1. GatedSpec => Spec
  BY ReconcilerCarries
<1> QED
  BY <1>1, NothingIsStranded, PTL

\* Nor does it leave an unresolved handshake behind that the pass did not find.
THEOREM GatedLeavesNoHandshake ==
  ASSUME AnyDeferral
  PROVE  GatedSpec => []DeferralLeavesNoHandshake
<1>1. GatedSpec => Spec
  BY ReconcilerCarries
<1> QED
  BY <1>1, DeferralsLeaveNoHandshake, PTL

-----------------------------------------------------------------------------
\* Slots follow calls.

FollowInv == GP!CallInv /\ TypeOK /\ SlotsFollowCalls

\* Whom a slot belongs to is typed.
LEMMA PhaseTyped ==
  ASSUME GP!CallInv
  PROVE  phase \in [GP!Workers -> {"idle", "calling", "returned"}]
BY DEF GP!CallInv, GP!SlotInv, GP!TypeOK

\* A pass that ends gives its slot back, and one that goes on takes none.
LEMMA EndsWithoutSlot ==
  ASSUME GP!CallInv, EndPass
  PROVE  /\ pc' = "idle" => ~HoldsSlot'
         /\ pc' # "idle" => phase' = phase
         /\ ~HoldsSlot => ~HoldsSlot'
<1>1. CASE pc' = "idle" /\ phase[worker] # "idle"
  <2>1. phase' = [phase EXCEPT ![worker] = "idle"]
    BY <1>1, SameEnds DEF EndPass, GP!Backstop
  <2> QED
    BY <1>1, <2>1, PhaseTyped, TwoWorkers DEF HoldsSlot
<1>2. CASE ~(pc' = "idle" /\ phase[worker] # "idle")
  <2>1. phase' = phase
    BY <1>2 DEF EndPass, govVars
  <2> QED
    BY <1>2, <2>1 DEF HoldsSlot
<1> QED
  BY <1>1, <1>2

\* The slot of a call goes as the call returns.
LEMMA CallsEndWithoutSlot ==
  ASSUME GP!CallInv, EndCall
  PROVE  ~HoldsSlot'
<1>1. CASE pc' # "idle" /\ HoldsSlot
  <2>1. phase' = [phase EXCEPT ![worker] = "returned"]
    BY <1>1, SameEnds DEF EndCall, GP!Release
  <2> QED
    BY <2>1, PhaseTyped, TwoWorkers DEF HoldsSlot
<1>2. CASE ~(pc' # "idle" /\ HoldsSlot)
  <2>1. EndPass
    BY <1>2 DEF EndCall
  <2> QED
    BY <1>2, <2>1, EndsWithoutSlot
<1> QED
  BY <1>1, <1>2

\* What happens around the pass moves neither the slot of its worker nor the pass.
LEMMA SlotFrame ==
  ASSUME GP!CallInv,
         Observe \/ Fold \/ RivalCalls \/ RivalEnds \/ Sample \/ SetUp \/ Edited \/ Synced
           \/ Passes \/ Ended \/ UNCHANGED gatedVars
  PROVE  phase'[worker] = phase[worker] /\ UNCHANGED <<pc, passVars>>
<1>1. CASE Observe \/ Fold \/ Sample \/ SetUp
  BY <1>1, SameReports, SameRest
     DEF Observe, Fold, Sample, SetUp, GP!Observe, GP!ObserveLocked, GP!Sample, GP!Start,
         GP!RegisterReconciler, GP!workerVars, passOnly
<1>2. CASE RivalCalls \/ RivalEnds
  <2>1. \E p \in {"calling", "idle"} : phase' = [phase EXCEPT ![rival] = p]
    BY <1>2, SameCalls, SameEnds DEF RivalCalls, RivalEnds, GP!Acquire, GP!Backstop
  <2> QED
    BY <1>2, <2>1, PhaseTyped, TwoWorkers DEF RivalCalls, RivalEnds, passOnly
<1>3. CASE Edited \/ Synced \/ Ended \/ UNCHANGED gatedVars
  BY <1>3 DEF Edited, Synced, Ended, EditSpec, EditPause, EditPolicy, DeleteObject, ExternalVanishes,
     EditObject, Edit, CacheSync, Horizon, vars, gatedVars, govVars
<1>4. CASE Passes
  BY <1>4, SameRest DEF Passes, Tick, GP!Tick, GP!workerVars
<1> QED
  BY <1>1, <1>2, <1>3, <1>4

\* A step that keeps the worker's slot, the step and the pass's state keeps the relation.
LEMMA FollowFrame ==
  ASSUME SlotsFollowCalls, HoldsSlot' => HoldsSlot, UNCHANGED <<pc, passVars>>
  PROVE  SlotsFollowCalls'
BY DEF SlotsFollowCalls, AtGate, ToDelete, ToCreate, ToUpdate, passVars

\* No step lets a slot stay behind its call.
LEMMA FollowStep ==
  ASSUME FollowInv, [GatedNext]_gatedVars
  PROVE  SlotsFollowCalls'
<1>0. GP!CallInv /\ SlotsFollowCalls /\ managed \in Objects
  BY DEF FollowInv, TypeOK, PassTyped
<1>a. ~HoldsSlot' => SlotsFollowCalls'
  BY DEF SlotsFollowCalls
<1>1. CASE StartPass
  <2>1. pc = "idle" /\ phase' = phase
    BY <1>1 DEF StartPass, GetNotFound, GetFails, GetPaused, GetOrphaned, Get, BeginPass, Dequeue, govVars
  <2>2. ~HoldsSlot
    BY <1>0, <2>1 DEF SlotsFollowCalls, AtGate, ToDelete, ToCreate, ToUpdate
  <2> QED
    BY <1>a, <2>1, <2>2 DEF HoldsSlot
<1>2. CASE Granted
  <2>1. AtGate'
    BY <1>2 DEF Granted, passOnly, passVars, AtGate, ToDelete, ToCreate, ToUpdate
  <2> QED
    BY <2>1 DEF SlotsFollowCalls
<1>3. CASE Deferred
  <2>1. phase' = phase /\ phase[worker] # "calling"
    BY <1>3, SameCalls DEF Deferred, GP!Defer, GP!workerVars
  <2> QED
    BY <1>a, <2>1 DEF HoldsSlot
<1>4. CASE ExternalCall
  BY <1>0, <1>4, <1>a, CallsEndWithoutSlot DEF ExternalCall
<1>5. CASE MarkCreate
  <2>1. EndPass
    BY <1>5 DEF MarkCreate
  <2>2. PICK r \in Replies :
          LET o == [managed EXCEPT !.ann = SetExternalCreatePending(@, now)]
          IN  \/ r = "ok" /\ GoOn("create", Updated(o, r))
              \/ r = "conflict" /\ Return(RateLimited)
              \/ /\ r \notin {"ok", "conflict"}
                 /\ Report(SetConditions(o, "Creating", "ReconcileError"), Errored)
    BY <1>5 DEF MarkCreate, BeginCreate
  <2> DEFINE o == [managed EXCEPT !.ann = SetExternalCreatePending(@, now)]
  <2>3. CASE GoOn("create", Updated(o, r))
    BY <2>3 DEF GoOn, SlotsFollowCalls
  <2>4. CASE Return(RateLimited)
    <3>1. pc' = "idle"
      BY <2>4 DEF Return, ForgetPass
    <3> QED
      BY <1>0, <1>a, <2>1, <3>1, EndsWithoutSlot
  <2>5. CASE Report(SetConditions(o, "Creating", "ReconcileError"), Errored)
    <3>1. SetConditions(o, "Creating", "ReconcileError").ready = "Creating"
      BY <1>0 DEF SetConditions, Objects
    <3> QED
      BY <2>5, <3>1, Zenon DEF Report, SlotsFollowCalls
  <2> QED
    BY <2>2, <2>3, <2>4, <2>5
<1>6. CASE OtherStep
  <2>1. EndPass
    BY <1>6 DEF OtherStep
  <2>2. CASE StatusUpdate
    <3>1. pc' = "idle"
      BY <2>2 DEF StatusUpdate, Return, ForgetPass
    <3> QED
      BY <1>0, <1>a, <2>1, <3>1, EndsWithoutSlot
  <2>3. CASE ~StatusUpdate
    <3>1. ~AtGate /\ pc # "create" /\ pc # "status"
      BY <1>6, <2>3
         DEF OtherStep, AdoptCreate, AwaitRecovery, ClearPending, ReportMissing, AwaitVisibility,
             RemoveFinalizer, AddFinalizer, UpdateCriticalAnnotations, LateInitialize, NothingToDo,
             AtGate, ToDelete, ToCreate, ToUpdate, ToRelease, MissingOnlyObserved, AwaitingVisibility
    <3> QED
      BY <1>0, <1>a, <2>1, <3>1, EndsWithoutSlot DEF SlotsFollowCalls
  <2> QED
    BY <2>2, <2>3
<1>7. CASE \/ Observe \/ Fold \/ RivalCalls \/ RivalEnds \/ Sample \/ SetUp \/ Edited \/ Synced
           \/ Passes \/ Ended \/ UNCHANGED gatedVars
  BY <1>0, <1>7, SlotFrame, FollowFrame DEF HoldsSlot
<1> QED
  BY <1>1, <1>2, <1>3, <1>4, <1>5, <1>6, <1>7 DEF GatedNext, PassStep

\* No early return, no deferral and no write to the API server keeps a slot of the governor: a
\* slot is held by a pass that is at the gate, in its call, or about to report that the pending
\* stamp of a Create could not be written.
THEOREM SlotsDoFollowCalls ==
  ASSUME AnyDeferral
  PROVE  GatedSpec => []SlotsFollowCalls
<1>1. GatedInit => FollowInv
  <2>1. GatedInit => ~HoldsSlot
    BY GovernorStart, TwoWorkers DEF GP!Init, HoldsSlot
  <2> QED
    BY <2>1, CallInvHolds, TypeInit DEF GatedInit, FollowInv, SlotsFollowCalls
<1>2. FollowInv /\ [GatedNext]_gatedVars => FollowInv'
  BY FollowStep, CallInvHolds, ReconcilerStep, TypeStep DEF FollowInv
<1>3. FollowInv => SlotsFollowCalls
  BY DEF FollowInv
<1> QED
  BY <1>1, <1>2, <1>3, PTL DEF GatedSpec

-----------------------------------------------------------------------------
\* Who is reported as deferred.  Only DeferFor writes that reason; every other step only copies
\* it from an object that has it.

Undeferred == {o \in Objects : o.synced # "ReconcileDeferred"}

Quiet == {server, cached, managed, pristine} \subseteq Undeferred

\* The reasons that Reconcile writes itself.
Loud == SyncedReasons \ {"ReconcileDeferred"}

LEMMA SaidQuietly ==
  ASSUME NEW o \in Undeferred, NEW r \in ReadyReasons, NEW s \in Loud
  PROVE  /\ SetReady(o, r) \in Undeferred
         /\ SetSynced(o, s) \in Undeferred
         /\ SetConditions(o, r, s) \in Undeferred
BY DEF Undeferred, Objects, SetReady, SetSynced, SetConditions, Loud

\* So do the other fields of an object.
LEMMA OtherFieldsQuiet ==
  ASSUME NEW o \in Undeferred, NEW a \in Annotations, NEW b \in BOOLEAN
  PROVE  /\ [o EXCEPT !.ann = a] \in Undeferred
         /\ [o EXCEPT !.fin = b] \in Undeferred
         /\ [o EXCEPT !.late = b] \in Undeferred
         /\ [o EXCEPT !.deleted = b] \in Undeferred
         /\ [o EXCEPT !.spec = @ + 1] \in Undeferred
BY DEF Undeferred, Objects

LEMMA MarkedQuietly ==
  ASSUME NEW o \in Undeferred
  PROVE  MarkNotObserved(o) \in Undeferred
BY DEF MarkNotObserved, SetReady, Undeferred, Objects, ReadyReasons

LEMMA BumpedQuietly ==
  ASSUME server \in Undeferred, NEW new \in Undeferred
  PROVE  Bump(new) \in Undeferred
<1>1. server.rv + 1 \in Nat
  BY DEF Undeferred, Objects
<1>2. \A n \in Nat, b \in BOOLEAN : [new EXCEPT !.rv = n, !.exists = b] \in Undeferred
  BY DEF Undeferred, Objects
<1> QED
  BY <1>1, <1>2 DEF Bump

\* The API server stores a status it was sent, or keeps the one it had.
LEMMA StoredQuietly ==
  ASSUME server \in Undeferred, NEW o \in Undeferred, NEW r
  PROVE  Stored(o) \in Undeferred /\ StatusStored(o) \in Undeferred /\ Updated(o, r) \in Undeferred
<1>1. \A p \in Undeferred : p.ready \in ReadyReasons /\ p.synced \in Loud
  BY DEF Undeferred, Objects, Loud
<1>2. Stored(o) \in Undeferred /\ StatusStored(o) \in Undeferred
  <2>1. /\ SetConditions(o, server.ready, server.synced) \in Undeferred
        /\ SetConditions(server, o.ready, o.synced) \in Undeferred
    BY <1>1, SaidQuietly
  <2> QED
    BY <2>1, BumpedQuietly DEF Stored, StatusStored
<1>3. SetConditions(Stored(o), o.ready, o.synced) \in Undeferred
  BY <1>1, <1>2, SaidQuietly
<1> QED
  BY <1>2, <1>3 DEF Updated, Decoded

\* However a step of the pass goes on, its copies are the one it goes on with and the first one.
LEMMA GoesOnQuietly ==
  ASSUME Quiet, NEW m \in Undeferred, NEW step, NEW res, NEW for, NEW conflict,
         Return(res) \/ GoOn(step, m) \/ Report(m, res) \/ WriteCritical(m, for, conflict)
  PROVE  {managed', pristine'} \subseteq Undeferred
<1>1. NoObject \in Undeferred
  BY NothingTyped DEF NoObject, Undeferred
<1> QED
  BY <1>1 DEF Return, ForgetPass, GoOn, Report, WriteCritical, Quiet

LEMMA StartsQuietly ==
  ASSUME Quiet, GetNotFound \/ GetFails \/ GetPaused \/ GetOrphaned \/ Get
  PROVE  Quiet'
<1>1. CASE GetNotFound \/ GetFails
  BY <1>1 DEF GetNotFound, GetFails, passVars, Quiet
<1>2. CASE GetPaused \/ GetOrphaned \/ Get
  <2>1. NoObject \in Undeferred /\ SetSynced(cached, "ReconcilePaused") \in Undeferred
    BY NothingTyped, SaidQuietly DEF NoObject, Undeferred, Quiet, Loud, SyncedReasons, ReadyReasons
  <2>2. PICK m \in {cached, SetSynced(cached, "ReconcilePaused")} : \E step : BeginPass(step, m)
    BY <1>2 DEF GetPaused, GetOrphaned, Get
  <2> QED
    BY <2>1, <2>2 DEF BeginPass, Quiet
<1> QED
  BY <1>1, <1>2

\* What the pass has in hand, and what it may say of it.
LEMMA InHand ==
  ASSUME TypeOK, Quiet
  PROVE  /\ server \in Undeferred /\ cached \in Undeferred /\ managed \in Undeferred
         /\ pristine \in Undeferred /\ managed.ann \in Annotations /\ cached.ann \in Annotations
         /\ crit.ann \in Annotations /\ now \in Nat /\ created \in Nat
         /\ {"ReconcileError", "ReconcileSuccess"} \subseteq Loud
         /\ {"Available", "Unavailable", "Creating", "Deleting"} \subseteq ReadyReasons
         /\ "" \in ReadyReasons
BY DEF TypeOK, PassTyped, WorldTyped, CriticalWrites, Quiet, Undeferred, Objects, Loud, SyncedReasons,
       ReadyReasons

\* A write to the object leaves a quiet object on the API server.
LEMMA WritesQuietly ==
  ASSUME Quiet, NEW o \in Undeferred, NEW r, ClientUpdate(o, r)
  PROVE  server' \in Undeferred
BY StoredQuietly DEF ClientUpdate, Quiet

\* Of the calls to the external system, none defers.
LEMMA CallsQuietly ==
  ASSUME TypeOK, Quiet,
         Connect \/ ObserveMissing \/ ObserveFound \/ ObserveFails \/ Delete \/ Update
           \/ CreateSucceeds \/ CreateFails
  PROVE  Quiet'
<1>0. UNCHANGED <<server, cached>>
  BY DEF Connect, ObserveMissing, ObserveFound, ObserveFails, Delete, Update, CreateSucceeds, CreateFails
<1>a. ASSUME NEW m \in Undeferred, NEW step, NEW res, NEW for, NEW conflict,
             Return(res) \/ GoOn(step, m) \/ Report(m, res) \/ WriteCritical(m, for, conflict)
      PROVE  Quiet'
  BY <1>0, <1>a, GoesOnQuietly DEF Quiet
<1>b. ASSUME managed' \in Undeferred, pristine' = pristine PROVE Quiet'
  BY <1>0, <1>b DEF Quiet
<1>1. CASE Connect
  <2>1. \A m \in {MarkNotObserved(managed), SetReady(managed, "Unavailable")} :
          SetSynced(m, "ReconcileError") \in Undeferred
    BY InHand, SaidQuietly, MarkedQuietly
  <2> QED
    BY <1>1, <1>a, <2>1, InHand DEF Connect
<1>2. CASE ObserveMissing
  <2>1. SetReady(managed, "Unavailable") \in Undeferred
    BY InHand, SaidQuietly
  <2> QED
    BY <1>2, <1>b, <2>1 DEF ObserveMissing
<1>3. CASE ObserveFound
  <2>1. SetReady(managed, "Available") \in Undeferred
    BY InHand, SaidQuietly
  <2>2. PICK late \in BOOLEAN : managed' = [SetReady(managed, "Available") EXCEPT !.late = @ \/ late]
    BY <1>3, ConstantsAssumption DEF ObserveFound
  <2>3. managed' \in Undeferred
    BY <2>1, <2>2 DEF Undeferred, Objects
  <2> QED
    BY <1>3, <1>b, <2>3 DEF ObserveFound
<1>4. CASE ObserveFails
  <2>1. SetReady(managed, "Unavailable") \in Undeferred /\ MarkNotObserved(managed) \in Undeferred
    BY InHand, SaidQuietly, MarkedQuietly
  <2>2. \A m \in {MarkNotObserved(managed), SetReady(managed, "Unavailable")} :
          SetSynced(m, "ReconcileError") \in Undeferred
    BY <2>1, InHand, SaidQuietly
  <2> QED
    BY <1>4, <1>a, <2>2, InHand DEF ObserveFails
<1>5. CASE Delete
  <2>1. /\ SetConditions(managed, "Deleting", "ReconcileSuccess") \in Undeferred
        /\ SetConditions(managed, "Deleting", "ReconcileError") \in Undeferred
    BY InHand, SaidQuietly
  <2> QED
    BY <1>5, <1>a, <2>1 DEF Delete
<1>6. CASE Update
  <2>1. /\ SetSynced(managed, "ReconcileSuccess") \in Undeferred
        /\ SetSynced(managed, "ReconcileError") \in Undeferred
    BY InHand, SaidQuietly
  <2> QED
    BY <1>6, <1>a, <2>1 DEF Update
<1>7. CASE CreateSucceeds
  <2> DEFINE named == IF NamedByServer THEN SetExternalName(managed.ann, created + 1) ELSE managed.ann
  <2>1. named \in Annotations
    <3>1. managed.ann \in Annotations /\ created \in Nat
      BY InHand
    <3>2. created + 1 \in Nat
      BY <3>1
    <3> QED
      BY <3>1, <3>2, StampsTyped
  <2>2. WriteCritical([managed EXCEPT !.ann = SetExternalCreateSucceeded(named, now)], "succeeded", FALSE)
    BY <1>7 DEF CreateSucceeds
  <2> HIDE DEF named
  <2>3. [managed EXCEPT !.ann = SetExternalCreateSucceeded(named, now)] \in Undeferred
    BY <2>1, InHand, StampsTyped, OtherFieldsQuiet
  <2> QED
    BY <1>a, <2>2, <2>3
<1>8. CASE CreateFails
  <2>1. [managed EXCEPT !.ann = SetExternalCreateFailed(@, now)] \in Undeferred
    BY InHand, StampsTyped, OtherFieldsQuiet
  <2> QED
    BY <1>8, <1>a, <2>1 DEF CreateFails
<1> QED
  BY <1>1, <1>2, <1>3, <1>4, <1>5, <1>6, <1>7, <1>8

\* Of the other steps of the pass, none defers.
LEMMA WaitsQuietly ==
  ASSUME TypeOK, Quiet, AdoptCreate \/ AwaitRecovery \/ ReportMissing \/ AwaitVisibility \/ NothingToDo
  PROVE  Quiet'
<1>0. UNCHANGED <<server, cached>>
  BY DEF AdoptCreate, AwaitRecovery, ReportMissing, AwaitVisibility, NothingToDo
<1>a. ASSUME NEW m \in Undeferred, NEW step, NEW res, NEW for, NEW conflict,
             Return(res) \/ GoOn(step, m) \/ Report(m, res) \/ WriteCritical(m, for, conflict)
      PROVE  Quiet'
  BY <1>0, <1>a, GoesOnQuietly DEF Quiet
<1>1. CASE AdoptCreate
  <2>1. [managed EXCEPT !.ann = SetExternalCreateSucceeded(@, now)] \in Undeferred
    BY InHand, StampsTyped, OtherFieldsQuiet
  <2> QED
    BY <1>1, <1>a, <2>1 DEF AdoptCreate
<1>2. CASE AwaitRecovery
  <2>1. SetConditions(managed, "Creating", "ReconcileError") \in Undeferred
    BY InHand, SaidQuietly
  <2> QED
    BY <1>2, <1>a, <2>1 DEF AwaitRecovery
<1>3. CASE ReportMissing \/ NothingToDo
  <2>1. /\ SetSynced(managed, "ReconcileError") \in Undeferred
        /\ SetSynced(managed, "ReconcileSuccess") \in Undeferred
    BY InHand, SaidQuietly
  <2> QED
    BY <1>3, <1>a, <2>1 DEF ReportMissing, NothingToDo
<1>4. CASE AwaitVisibility
  BY <1>4, <1>a, InHand DEF AwaitVisibility
<1> QED
  BY <1>1, <1>2, <1>3, <1>4

\* A step that updates the object with o goes on with o, with the reply, or with o and a reason.
LEMMA UpdatesQuietly ==
  ASSUME TypeOK, Quiet,
         ClearPending \/ RemoveFinalizer \/ AddFinalizer \/ BeginCreate \/ LateInitialize
  PROVE  Quiet'
<1>0. UNCHANGED cached
  BY DEF ClearPending, RemoveFinalizer, AddFinalizer, BeginCreate, LateInitialize
<1>a. ASSUME NEW m \in Undeferred, NEW step, NEW res, server' \in Undeferred,
             Return(res) \/ GoOn(step, m) \/ Report(m, res)
      PROVE  Quiet'
  <2>1. {managed', pristine'} \subseteq Undeferred
    BY <1>a, GoesOnQuietly
  <2> QED
    BY <1>0, <1>a, <2>1 DEF Quiet
<1>b. ASSUME NEW o \in Undeferred, NEW r, ClientUpdate(o, r)
      PROVE  /\ server' \in Undeferred /\ Updated(o, r) \in Undeferred
             /\ SetConditions(o, "Deleting", "ReconcileError") \in Undeferred
             /\ SetConditions(o, "Creating", "ReconcileError") \in Undeferred
             /\ SetSynced(o, "ReconcileError") \in Undeferred
  BY <1>b, InHand, WritesQuietly, StoredQuietly, SaidQuietly
<1>1. CASE ClearPending
  <2> DEFINE o == [managed EXCEPT !.ann = RemovePending(@)]
  <2>1. o \in Undeferred
    BY InHand, StampsTyped, OtherFieldsQuiet
  <2>2. PICK r \in Replies :
          /\ ClientUpdate(o, r)
          /\ GoOn("decide", Updated(o, r)) \/ Return(RateLimited) \/ Return(Errored)
    BY <1>1 DEF ClearPending
  <2> HIDE DEF o
  <2> QED
    BY <1>a, <1>b, <2>1, <2>2
<1>2. CASE RemoveFinalizer
  <2> DEFINE o == [managed EXCEPT !.fin = FALSE]
  <2>1. o \in Undeferred
    BY InHand, OtherFieldsQuiet
  <2>2. \/ Return(NoRequeue) /\ server' = server
        \/ \E r \in Replies :
             /\ ClientUpdate(o, r)
             /\ \/ Return(NoRequeue) \/ Return(RateLimited)
                \/ Report(SetConditions(o, "Deleting", "ReconcileError"), Errored)
    BY <1>2 DEF RemoveFinalizer
  <2> HIDE DEF o
  <2> QED
    BY <1>a, <1>b, <2>1, <2>2, InHand
<1>3. CASE AddFinalizer
  <2> DEFINE o == [managed EXCEPT !.fin = TRUE]
  <2>1. o \in Undeferred
    BY InHand, OtherFieldsQuiet
  <2>2. \/ GoOn("act", managed) /\ server' = server
        \/ \E r \in Replies :
             /\ ClientUpdate(o, r)
             /\ \/ GoOn("act", Updated(o, r)) \/ Return(RateLimited)
                \/ Report(SetSynced(o, "ReconcileError"), Errored)
    BY <1>3 DEF AddFinalizer
  <2> HIDE DEF o
  <2> QED
    BY <1>a, <1>b, <2>1, <2>2, InHand
<1>4. CASE BeginCreate
  <2> DEFINE o == [managed EXCEPT !.ann = SetExternalCreatePending(@, now)]
  <2>1. o \in Undeferred
    BY InHand, StampsTyped, OtherFieldsQuiet
  <2>2. PICK r \in Replies :
          /\ ClientUpdate(o, r)
          /\ \/ GoOn("create", Updated(o, r)) \/ Return(RateLimited)
             \/ Report(SetConditions(o, "Creating", "ReconcileError"), Errored)
    BY <1>4 DEF BeginCreate
  <2> HIDE DEF o
  <2> QED
    BY <1>a, <1>b, <2>1, <2>2
<1>5. CASE LateInitialize
  <2>1. PICK r \in Replies :
          /\ ClientUpdate(managed, r)
          /\ \/ managed' = Updated(managed, r) /\ pristine' = pristine
             \/ Return(RateLimited)
             \/ Report(SetSynced(managed, "ReconcileError"), Errored)
    BY <1>5 DEF LateInitialize
  <2>2. managed \in Undeferred /\ pristine \in Undeferred /\ cached \in Undeferred
    BY InHand
  <2>3. ASSUME managed' = Updated(managed, r), pristine' = pristine PROVE Quiet'
    BY <1>0, <1>b, <2>1, <2>2, <2>3 DEF Quiet
  <2> QED
    BY <1>a, <1>b, <2>1, <2>2, <2>3
<1> QED
  BY <1>1, <1>2, <1>3, <1>4, <1>5

\* The retried write of the annotations says at most how Create went, and StatusUpdate stores
\* what the pass has said.
LEMMA EndsQuietly ==
  ASSUME TypeOK, Quiet, UpdateCriticalAnnotations \/ StatusUpdate
  PROVE  Quiet'
<1>0. UNCHANGED cached
  BY DEF UpdateCriticalAnnotations, StatusUpdate
<1>1. CASE UpdateCriticalAnnotations
  <2> DEFINE o == [cached EXCEPT !.ann = AddAnnotations(@, crit.ann)]
             m(r) == IF cached.exists THEN Updated(o, r) ELSE managed
  <2>1. o \in Undeferred
    BY InHand, AddTyped, OtherFieldsQuiet
  <2>2. PICK r \in Replies :
          /\ ClientUpdate(o, r) \/ UNCHANGED server
          /\ \/ AfterCritical(m(r), TRUE) \/ AfterCritical(m(r), FALSE)
             \/ managed' = m(r) /\ UNCHANGED pristine
    BY <1>1 DEF UpdateCriticalAnnotations
  <2>3. m(r) \in Undeferred
    BY <2>1, InHand, StoredQuietly
  <2> HIDE DEF o, m
  <2>4. server' \in Undeferred
    BY <2>1, <2>2, InHand, WritesQuietly
  <2>5. /\ SetConditions(m(r), "Creating", "ReconcileError") \in Undeferred
        /\ SetConditions(m(r), "Creating", "ReconcileSuccess") \in Undeferred
    BY <2>3, InHand, SaidQuietly
  <2>6. CASE AfterCritical(m(r), TRUE) \/ AfterCritical(m(r), FALSE)
    <3>1. \/ GoOn("decide", m(r)) \/ Return(Errored) \/ Return(RateLimited)
          \/ Report(SetConditions(m(r), "Creating", "ReconcileError"), Errored)
          \/ Report(SetConditions(m(r), "Creating", "ReconcileSuccess"), RateLimited)
      BY <2>6 DEF AfterCritical
    <3>2. {managed', pristine'} \subseteq Undeferred
      BY <2>3, <2>5, <3>1, GoesOnQuietly
    <3> QED
      BY <1>0, <2>4, <3>2 DEF Quiet
  <2>7. CASE managed' = m(r) /\ UNCHANGED pristine
    BY <1>0, <2>3, <2>4, <2>7 DEF Quiet
  <2> QED
    BY <2>2, <2>6, <2>7
<1>2. CASE StatusUpdate
  <2>1. PICK r \in Replies :
          /\ server' = IF Stores(r) THEN StatusStored(managed) ELSE server
          /\ Return(IF r = "ok" THEN ret ELSE Errored)
    BY <1>2 DEF StatusUpdate
  <2>2. server' \in Undeferred
    BY <2>1, InHand, StoredQuietly
  <2>3. {managed', pristine'} \subseteq Undeferred
    BY <2>1, InHand, GoesOnQuietly
  <2> QED
    BY <1>0, <2>2, <2>3 DEF Quiet
<1> QED
  BY <1>1, <1>2

\* Users say nothing of Synced.
LEMMA EditsQuietly ==
  ASSUME TypeOK, Quiet, Edited \/ Synced \/ Passes \/ Ended
  PROVE  Quiet'
<1>1. CASE Edited
  <2>1. UNCHANGED <<cached, managed, pristine>>
    BY <1>1 DEF Edited, EditSpec, EditPause, EditPolicy, DeleteObject, ExternalVanishes, EditObject,
       Edit, passVars
  <2>2. server' = server \/ \E new \in Undeferred : server' = Bump(new)
    <3>1. CASE EditSpec
      <4>1. [server EXCEPT !.spec = @ + 1] \in Undeferred
        BY InHand, OtherFieldsQuiet
      <4> QED BY <3>1, <4>1 DEF EditSpec, EditObject
    <3>2. CASE EditPause
      <4>1. PICK p \in {"", "true"} : server' = Bump([server EXCEPT !.ann.paused = p])
        BY <3>2 DEF EditPause, EditObject
      <4>2. [server EXCEPT !.ann.paused = p] \in Undeferred
        BY InHand DEF Undeferred, Objects, Annotations
      <4> QED BY <4>1, <4>2
    <3>3. CASE EditPolicy
      <4>1. PICK d \in {"delete", "orphan"} : server' = Bump([server EXCEPT !.ann.del = d])
        BY <3>3 DEF EditPolicy, EditObject
      <4>2. [server EXCEPT !.ann.del = d] \in Undeferred
        BY InHand DEF Undeferred, Objects, Annotations, DeletionPolicies
      <4> QED BY <4>1, <4>2
    <3>4. CASE DeleteObject
      <4>1. [server EXCEPT !.deleted = TRUE] \in Undeferred
        BY InHand, OtherFieldsQuiet
      <4> QED BY <3>4, <4>1 DEF DeleteObject, EditObject
    <3>5. CASE ExternalVanishes
      BY <3>5 DEF ExternalVanishes
    <3> QED BY <1>1, <3>1, <3>2, <3>3, <3>4, <3>5 DEF Edited
  <2>3. server' \in Undeferred
    BY <2>2, InHand, BumpedQuietly
  <2> QED
    BY <2>1, <2>3 DEF Quiet
<1>2. CASE Synced \/ Passes \/ Ended
  BY <1>2 DEF Synced, CacheSync, Passes, Tick, Ended, Horizon, vars, passVars, Quiet
<1> QED
  BY <1>1, <1>2

-----------------------------------------------------------------------------
\* The startup ramp is quiet.

\* A refusal or pressure there has been; neither is ever forgotten.
Disturbed == cut \/ \E k \in Keys : cutAt[k] # 0

\* Until then the local capacity is only ever short of the ceiling because it is ramping up, and
\* no pass begins before the sampler runs and every reconciler is registered.
RampInv ==
  /\ TypeOK
  /\ GP!UnheardInv
  /\ Disturbed \/ Quiet
  /\ local.cause => cut
  /\ Saturation /\ ~cut /\ local.capacity < GP!ceiling => local.ramping
  /\ Saturation /\ ~samplerStarted => local.ramping
  /\ samplerStarted => reconcilers = MaxReconcilers
  /\ pc # "idle" /\ Saturation => samplerStarted

LEMMA DisturbedStays ==
  ASSUME GP!UnheardInv, [GatedNext]_gatedVars, Disturbed
  PROVE  Disturbed'
<1> USE DEF GP!keyVars, GP!localVars, GP!workerVars
<1>0. [GP!Next]_(GP!vars)
  BY GovernorStep
<1>t. now \in Nat /\ now > 0 /\ cutAt \in [Keys -> Nat] /\ report \in [GP!Workers -> SUBSET GP!Reports]
  BY DEF GP!UnheardInv, GP!CallInv, GP!SlotInv, GP!TypeOK
<1>1. CASE UNCHANGED <<cut, cutAt>>
  BY <1>1 DEF Disturbed
<1>2. ASSUME NEW w \in GP!Workers, GP!ObserveLocked(w) PROVE Disturbed'
  <2>1. PICK r \in report[w] : cutAt' = [cutAt EXCEPT ![r.key] = now]
    BY <1>2 DEF GP!ObserveLocked
  <2>2. r.key \in Keys
    BY <1>t, <2>1 DEF GP!Reports
  <2>3. cutAt'[r.key] # 0
    BY <1>t, <2>1, <2>2
  <2> QED
    BY <2>2, <2>3 DEF Disturbed
<1>3. ASSUME NEW f \in Samples, GP!Sample(f) PROVE Disturbed'
  BY <1>3 DEF GP!Sample, Disturbed
<1>4. CASE UNCHANGED GP!vars
  BY <1>1, <1>4 DEF GP!vars
<1> QED
  BY <1>0, <1>1, <1>2, <1>3, <1>4
     DEF GP!Next, GP!Acquire, GP!Defer, GP!Release, GP!Backstop, GP!Observe, GP!Start,
         GP!RegisterReconciler, GP!Snapshot, GP!Tick

\* A call for keys that nobody has reported, without pressure, waits for nothing but the ramp.
LEMMA OnlyRampDefers ==
  ASSUME RampInv, ~Disturbed, Deferred
  PROVE  G!DeferReason(GateKeys) = "ramping"
<1>1. worker \in GP!Running /\ phase[worker] # "calling" /\ ~GP!Grants(GateKeys)
  BY SameCalls DEF Deferred, GP!Defer
<1>2. GateKeys \in SUBSET {k \in Keys : cutAt[k] = 0}
  BY TwoWorkers DEF Disturbed
<1>3. Saturation /\ GP!HeldKeys(GateKeys) = {} /\ GP!FullKeys(GateKeys) = {}
  BY <1>1, <1>2, GP!UnheardGranted, GovernorAssumed DEF RampInv, GP!UnheardNeverDeferred
<1>4. GP!LocalFull
  BY <1>1, <1>3 DEF GP!Grants
<1>5. localInFlight < GP!ceiling
  BY <1>1, GP!SpareSlot, GovernorAssumed DEF RampInv, GP!UnheardInv
<1>6. local.capacity < GP!ceiling
  <2>1. local.capacity \in Nat /\ localInFlight \in Nat
    BY DEF RampInv, GP!UnheardInv, GP!CallInv, GP!SlotInv, GP!TypeOK
  <2>2. reconcilers \in Nat
    BY DEF RampInv, GP!UnheardInv, GP!CallInv, GP!SlotInv, GP!TypeOK
  <2>3. GP!ceiling \in Nat
    BY <2>2, GP!CeilingPositive, GovernorAssumed
  <2> QED
    BY <1>4, <1>5, <2>1, <2>3 DEF GP!LocalFull
<1>7. samplerStarted
  <2>1. pc # "idle"
    BY DEF Deferred, AtGate, ToDelete, ToCreate, ToUpdate
  <2> QED
    BY <1>3, <2>1 DEF RampInv
<1>8. ~local.cause /\ local.ramping
  BY <1>3, <1>6 DEF RampInv, Disturbed
<1>9. GP!DeferReason(GateKeys) = "ramping"
  BY <1>3, <1>7, <1>8 DEF GP!DeferReason
<1> QED
  BY <1>9, SameCalls

\* A deferral that is put down to the ramp goes unsaid.
LEMMA RampUnsaid ==
  ASSUME Quiet, NEW d, DeferFor("ramping", d)
  PROVE  Quiet'
<1>1. UNCHANGED <<server, cached>>
  BY DEF DeferFor
<1>2. Return(DeferredFor(d)) \/ Report(managed, DeferredFor(d))
  BY DEF DeferFor
<1>3. {managed', pristine'} \subseteq Undeferred
  BY <1>2, GoesOnQuietly DEF Quiet
<1> QED
  BY <1>1, <1>3 DEF Quiet

\* As long as nothing disturbs the governor, no step says that the object is deferred.
LEMMA QuietStep ==
  ASSUME RampInv, [GatedNext]_gatedVars, ~Disturbed
  PROVE  Quiet'
<1>0. TypeOK /\ Quiet
  BY DEF RampInv
<1>1. CASE StartPass
  BY <1>0, <1>1, StartsQuietly DEF StartPass
<1>2. CASE Deferred
  <2>1. PICK d \in G!RequeueAfter(GateKeys) :
          DeferFor(IF G!DeferReason(GateKeys) = "ramping" THEN "ramping" ELSE "deferred", d)
    BY <1>2, Zenon DEF Deferred
  <2>2. DeferFor("ramping", d)
    BY <1>2, <2>1, OnlyRampDefers
  <2> QED
    BY <1>0, <2>2, RampUnsaid
<1>3. CASE ExternalCall
  BY <1>0, <1>3, CallsQuietly DEF ExternalCall
<1>4. CASE MarkCreate
  BY <1>0, <1>4, UpdatesQuietly DEF MarkCreate
<1>5. CASE OtherStep
  BY <1>0, <1>5, WaitsQuietly, UpdatesQuietly, EndsQuietly DEF OtherStep
<1>6. CASE Granted \/ Observe \/ Fold \/ RivalCalls \/ RivalEnds \/ Sample \/ SetUp
  BY <1>0, <1>6, GovernorTakesNoTime DEF passOnly, passVars, Quiet
<1>7. CASE Edited \/ Synced \/ Passes \/ Ended
  BY <1>0, <1>7, EditsQuietly
<1>8. CASE UNCHANGED gatedVars
  BY <1>0, <1>8 DEF gatedVars, vars, passVars, Quiet
<1> QED
  BY <1>1, <1>2, <1>3, <1>4, <1>5, <1>6, <1>7, <1>8 DEF GatedNext, PassStep

LocalRamp ==
  /\ local.cause => cut
  /\ Saturation /\ ~cut /\ local.capacity < GP!ceiling => local.ramping
  /\ Saturation /\ ~samplerStarted => local.ramping
  /\ samplerStarted => reconcilers = MaxReconcilers

\* Only samples, the start of the sampler and registrations, which come before it, touch the
\* local capacity and its ceiling.
LEMMA LocalStep ==
  ASSUME RampInv, [GatedNext]_gatedVars
  PROVE  LocalRamp'
<1>t. /\ local \in [capacity : Nat, cause : BOOLEAN, ramping : BOOLEAN] /\ cut \in BOOLEAN
      /\ (samplerStarted => Saturation)
  BY DEF RampInv, GP!UnheardInv, GP!CallInv, GP!SlotInv, GP!TypeOK
<1>1. CASE UNCHANGED <<local, cut, samplerStarted, reconcilers>>
  BY <1>1 DEF RampInv, LocalRamp, GP!ceiling
<1>2. CASE Sample
  <2>1. PICK f \in Samples : GP!Sample(f)
    BY <1>2, SameReports DEF Sample
  <2>2. /\ cut' = (cut \/ GP!Saturated(GP!read(f)))
        /\ local'.cause = GP!Saturated(GP!read(f))
        /\ local'.ramping = (~cut' /\ local'.capacity < GP!ceiling)
        /\ UNCHANGED <<samplerStarted, reconcilers>> /\ samplerStarted
    BY <2>1 DEF GP!Sample
  <2>3. GP!ceiling' = GP!ceiling
    BY <2>2 DEF GP!ceiling
  <2> QED
    BY <2>2, <2>3 DEF RampInv, LocalRamp
<1>3. CASE SetUp
  <2>1. CASE GP!RegisterReconciler
    <3>1. ~samplerStarted
      BY <2>1, GatedAssumption DEF GP!RegisterReconciler, RampInv, GP!UnheardInv, GP!CallInv, GP!SlotInv,
         GP!TypeOK
    <3>2. UNCHANGED <<cut, samplerStarted>> /\ local'.cause = local.cause /\ local'.ramping = local.ramping
      BY <2>1, <1>t DEF GP!RegisterReconciler
    <3> QED
      BY <3>1, <3>2 DEF RampInv, LocalRamp
  <2>2. CASE reconcilers = MaxReconcilers /\ GP!Start
    <3>1. UNCHANGED <<local, cut, reconcilers>> /\ samplerStarted' /\ GP!ceiling' = GP!ceiling
      BY <2>2 DEF GP!Start, GP!ceiling
    <3> QED
      BY <2>2, <3>1 DEF RampInv, LocalRamp
  <2> QED
    BY <1>3, <2>1, <2>2, SameRest DEF SetUp
<1>4. CASE \/ StartPass \/ ExternalCall \/ MarkCreate \/ OtherStep
           \/ Edited \/ Synced \/ Ended \/ UNCHANGED gatedVars
  <2>1. UNCHANGED govVars \/ GP!Backstop(worker) \/ GP!Release(worker)
    BY <1>4, EndMoves DEF StartPass, ExternalCall, MarkCreate, OtherStep, Edited, Synced, Ended, gatedVars
  <2> QED
    BY <1>1, <2>1 DEF govVars, GP!Backstop, GP!Release
<1>5. CASE Granted \/ Deferred \/ RivalCalls \/ RivalEnds
  BY <1>1, <1>5, SameCalls, SameEnds
     DEF Granted, Deferred, RivalCalls, RivalEnds, GP!Acquire, GP!Defer, GP!Backstop, GP!localVars
<1>6. CASE Observe \/ Fold \/ Passes
  BY <1>1, <1>6, SameReports, SameRest
     DEF Observe, Fold, Passes, GP!Observe, GP!ObserveLocked, GP!Tick, GP!localVars
<1> QED
  BY <1>2, <1>3, <1>4, <1>5, <1>6 DEF GatedNext, PassStep

\* A pass begins only where StartPass lets it.
LEMMA SamplerFirst ==
  ASSUME RampInv, [GatedNext]_gatedVars
  PROVE  pc' # "idle" /\ Saturation => samplerStarted'
<1>1. samplerStarted => samplerStarted'
  <2>1. [GP!Next]_(GP!vars)
    BY GovernorStep
  <2> QED
    BY <2>1 DEF GP!Next, GP!vars, GP!keyVars, GP!localVars, GP!workerVars, GP!Acquire, GP!Defer,
       GP!Release, GP!Backstop, GP!Observe, GP!ObserveLocked, GP!Sample, GP!Start,
       GP!RegisterReconciler, GP!Snapshot, GP!Tick
<1>2. CASE StartPass
  BY <1>1, <1>2 DEF StartPass
<1>3. CASE ExternalCall \/ MarkCreate \/ OtherStep \/ Deferred
  <2>1. pc # "idle"
    BY <1>3
       DEF ExternalCall, MarkCreate, OtherStep, Deferred, AtGate, Connect, ObserveMissing, ObserveFound,
           ObserveFails, Delete, Update, CreateSucceeds, CreateFails, BeginCreate, AdoptCreate,
           AwaitRecovery, ClearPending, ReportMissing, AwaitVisibility, RemoveFinalizer, AddFinalizer,
           UpdateCriticalAnnotations, LateInitialize, NothingToDo, StatusUpdate, ToDelete, ToCreate,
           ToUpdate, ToRelease
  <2> QED
    BY <1>1, <2>1 DEF RampInv
<1>4. CASE \/ Granted \/ Observe \/ Fold \/ RivalCalls \/ RivalEnds \/ Sample \/ SetUp
           \/ Edited \/ Synced \/ Passes \/ Ended \/ UNCHANGED gatedVars
  <2>1. pc' = pc
    BY <1>4, GovernorTakesNoTime
       DEF passOnly, Edited, Synced, Passes, Ended, EditSpec, EditPause, EditPolicy, DeleteObject,
           ExternalVanishes, EditObject, Edit, CacheSync, Tick, Horizon, vars, gatedVars
  <2> QED
    BY <1>1, <2>1 DEF RampInv
<1> QED
  BY <1>2, <1>3, <1>4 DEF GatedNext, PassStep

LEMMA RampStep ==
  ASSUME AnyDeferral, RampInv, [GatedNext]_gatedVars
  PROVE  RampInv'
<1>1. GP!UnheardInv'
  <2>1. [GP!Next]_(GP!vars)
    BY GovernorStep
  <2> QED
    BY <2>1, GP!UnheardStep, GovernorAssumed DEF RampInv
<1>2. TypeOK'
  BY ReconcilerStep, TypeStep DEF RampInv, GP!UnheardInv
<1>3. Disturbed' \/ Quiet'
  BY DisturbedStays, QuietStep DEF RampInv
<1>4. LocalRamp' /\ (pc' # "idle" /\ Saturation => samplerStarted')
  BY LocalStep, SamplerFirst
<1> QED
  BY <1>1, <1>2, <1>3, <1>4 DEF RampInv, LocalRamp

LEMMA RampInit == GatedInit => RampInv
<1> SUFFICES ASSUME GatedInit PROVE RampInv
  OBVIOUS
<1>0. Init /\ GP!Init
  BY GovernorStart DEF GatedInit
<1>1. TypeOK /\ GP!UnheardInv
  BY <1>0, TypeInit, GP!UnheardInit, GovernorAssumed
<1>2. Quiet
  BY <1>0, <1>1 DEF Init, Quiet, Undeferred, TypeOK, PassTyped, WorldTyped, NoObject
<1>3. /\ local.cause => cut
      /\ Saturation => local.ramping
      /\ ~samplerStarted /\ pc = "idle"
  BY <1>0 DEF GP!Init, Init
<1> QED
  BY <1>1, <1>2, <1>3 DEF RampInv

\* The startup ramp reports nobody as deferred: until a signal has cut a key or a sample has
\* found pressure, every deferral is the ramp's, and the ramp's deferrals write no status.
THEOREM TheRampIsQuiet ==
  ASSUME AnyDeferral
  PROVE  GatedSpec => []RampIsQuiet
<1>1. RampInv /\ [GatedNext]_gatedVars => RampInv'
  BY RampStep
<1>2. RampInv => RampIsQuiet
  BY DEF RampInv, RampIsQuiet, Disturbed, Quiet, Undeferred
<1> QED
  BY RampInit, <1>1, <1>2, PTL DEF GatedSpec
===============================================================================
