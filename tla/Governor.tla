------------------------------- MODULE Governor -------------------------------
(***************************************************************************)
(* pkg/ratelimit: the Governor that gates external calls per endpoint key  *)
(* and by the process's own saturation.                                    *)
(*                                                                         *)
(* What runs under one hold of g.mu is one step.  Observe reads the clock  *)
(* before it takes the mutex, so it is two.  A key the governor has not    *)
(* seen is in the state the map would create for it, so the map is a total *)
(* function.                                                               *)
(***************************************************************************)
EXTENDS Naturals, FiniteSets, Signal, SaturationInput

CONSTANTS
  Keys,            \* endpoint keys
  PerController,   \* MaxConcurrentReconciles
  Recovery,        \* RecoveryInterval
  Saturation,      \* Saturation.Enabled
  IgnoreSignals,
  MinJitter,       \* minCapacityJitter
  StartupRamp,     \* Saturation.StartupRampInterval
  SamplePeriod,    \* Saturation.SamplePeriod
  Signals,         \* the signals providers report
  Samples,         \* what the sampler may find in the cgroup files
  MaxStall,        \* how long Observe may take from its clock read to the mutex
  MaxReconcilers, SignalsUntil, MaxTime  \* bounds

ASSUME GovernorAssumption ==
  /\ PerController \in Nat \ {0}                  \* New refuses less
  /\ Recovery \in Nat \ {0}                       \* New replaces 0 and refuses less
  /\ MinJitter \in Nat \ {0} /\ StartupRamp \in Nat \ {0} /\ SamplePeriod \in Nat \ {0}
  /\ MaxStall \in Nat /\ MaxReconcilers \in Nat /\ SignalsUntil \in Nat /\ MaxTime \in Nat
  /\ Saturation \in BOOLEAN /\ IgnoreSignals \in BOOLEAN
  /\ Signals \subseteq SignalFields
  /\ Samples \subseteq CgroupFiles

\* Every reconciler that may register runs MaxConcurrentReconciles workers of its own.
Workers == 1..(PerController * MaxReconcilers)

VARIABLES
  now,
  reconcilers,     \* how many reconcilers have registered
  capacity, inFlight, holdUntil, lastReduce, lastRaise,   \* keyState, per key
  localInFlight,
  local,           \* localState: the local capacity, whether it has a cause, ramping
  cut, lastStep,   \* saturation: a sample was saturated; the last step (0: none)
  samplerStarted,
  localPast,       \* auxiliary: when a sample was last saturated, and when local capacity last rose
  phase,           \* per worker: "idle", in a gated call ("calling"), or past it ("returned")
  held,            \* per worker: the keys its last release func captured
  done,            \* per worker: whether the once of that release func has run
  report,          \* per worker: the signal its call is reporting, if any
  cutAt            \* auxiliary, per key: when a signal last cut its capacity

keyVars    == <<capacity, inFlight, holdUntil, lastReduce, lastRaise, cutAt>>
localVars  == <<localInFlight, local, cut, lastStep, samplerStarted, localPast>>
workerVars == <<phase, held, done, report>>
vars == <<now, reconcilers, keyVars, localVars, workerVars>>

capacityFloor == 1

SmallerOf(a, b) == IF a < b THEN a ELSE b
LargerOf(a, b)  == IF a > b THEN a ELSE b

ceiling == PerController * LargerOf(1, reconcilers)

\* The workers of the registered reconcilers.
Running == 1..(PerController * reconcilers)

-----------------------------------------------------------------------------
\* Acquire and release.

\* Mutants of maybeRaise: no ceiling; the hold is not waited out; one short of the ceiling.
maybeRaiseUnbounded(k) ==
  /\ now >= LargerOf(lastReduce[k], holdUntil[k]) + Recovery
  /\ now >= lastRaise[k] + Recovery

maybeRaiseAfterHold(k) ==
  /\ capacity[k] < ceiling
  /\ now >= holdUntil[k]
  /\ now >= lastReduce[k] + Recovery
  /\ now >= lastRaise[k] + Recovery

maybeRaiseShort(k) ==
  /\ capacity[k] + 1 < ceiling
  /\ now >= LargerOf(lastReduce[k], holdUntil[k]) + Recovery
  /\ now >= lastRaise[k] + Recovery

maybeRaise(k) ==
  LET cleanSince == LargerOf(lastReduce[k], holdUntil[k])
  IN  /\ capacity[k] < ceiling
      /\ now >= holdUntil[k]
      /\ now >= cleanSince + Recovery
      /\ now >= lastRaise[k] + Recovery

RaisedCapacity(ks) == [k \in Keys |-> IF k \in ks /\ maybeRaise(k) THEN capacity[k] + 1 ELSE capacity[k]]
RaisedAt(ks)       == [k \in Keys |-> IF k \in ks /\ maybeRaise(k) THEN now ELSE lastRaise[k]]

HeldKeys(ks) == {k \in ks : now < holdUntil[k]}
\* Mutant of FullKeys: the last slot is never granted.
FullKeysEarly(ks) == {k \in ks : inFlight[k] + 1 >= RaisedCapacity(ks)[k]}

\* Mutant of FullKeys: a call passes if any of its keys has a slot.
FullKeysAllOrNone(ks) == IF \A k \in ks : inFlight[k] >= RaisedCapacity(ks)[k] THEN ks ELSE {}

FullKeys(ks) == {k \in ks : inFlight[k] >= RaisedCapacity(ks)[k]}
LocalFull    == localInFlight >= local.capacity

Grants(ks) == HeldKeys(ks) = {} /\ FullKeys(ks) = {} /\ ~LocalFull

\* Mutant of DeferReason: the startup ramp counts as any full capacity.
DeferReasonLoud(ks) ==
  CASE HeldKeys(ks) # {}                                      -> "throttled"
    [] HeldKeys(ks) = {} /\ FullKeys(ks) = {} /\ local.cause  -> "saturated"
    [] OTHER                                                  -> "capacity"

\* Why a call for the keys ks is deferred.
DeferReason(ks) ==
  CASE HeldKeys(ks) # {}                                          -> "throttled"
    [] HeldKeys(ks) = {} /\ FullKeys(ks) # {}                     -> "capacity"
    [] HeldKeys(ks) = {} /\ FullKeys(ks) = {} /\ local.cause      -> "saturated"
    [] HeldKeys(ks) = {} /\ FullKeys(ks) = {} /\ ~local.cause /\ local.ramping /\ samplerStarted
                                                                  -> "ramping"
    [] OTHER                                                      -> "capacity"

\* The delays jitterBetween(minCapacityJitter, hi) may return.
Jitter(hi) == IF hi <= MinJitter THEN {hi} ELSE MinJitter..hi

\* Mutant of rampLeft: the step to the ceiling is not counted.
rampLeftShort == (ceiling - local.capacity - 1) * LargerOf(StartupRamp, SamplePeriod)

rampLeft == (ceiling - local.capacity) * LargerOf(StartupRamp, SamplePeriod)

\* Mutant of RequeueAfter: the earliest hold wins.
RequeueAfterEarliest(ks) ==
  CASE DeferReason(ks) = "throttled" -> {holdUntil[k] - now : k \in {x \in HeldKeys(ks) :
                                          \A y \in HeldKeys(ks) : holdUntil[y] >= holdUntil[x]}}
    [] DeferReason(ks) = "ramping"   -> Jitter(SmallerOf(Recovery, rampLeft))
    [] OTHER                         -> Jitter(Recovery)

\* The RequeueAfter a deferral may carry: the latest hold, or a jittered delay.
RequeueAfter(ks) ==
  CASE DeferReason(ks) = "throttled" -> {holdUntil[k] - now : k \in {x \in HeldKeys(ks) :
                                          \A y \in HeldKeys(ks) : holdUntil[y] <= holdUntil[x]}}
    [] DeferReason(ks) = "ramping"   -> Jitter(SmallerOf(Recovery, rampLeft))
    [] OTHER                         -> Jitter(Recovery)

\* The keys are raised whether the call is granted or not.
TouchKeys(ks) == /\ capacity' = RaisedCapacity(ks)
                 /\ lastRaise' = RaisedAt(ks)

Acquire(w, ks) ==
  /\ w \in Running
  /\ phase[w] # "calling"
  /\ Grants(ks)
  /\ TouchKeys(ks)
  /\ inFlight' = [k \in Keys |-> IF k \in ks THEN inFlight[k] + 1 ELSE inFlight[k]]
  /\ localInFlight' = localInFlight + 1
  /\ phase' = [phase EXCEPT ![w] = "calling"]
  /\ held' = [held EXCEPT ![w] = ks]
  /\ done' = [done EXCEPT ![w] = FALSE]
  /\ UNCHANGED <<now, reconcilers, holdUntil, lastReduce, cutAt, local, cut, lastStep,
                 samplerStarted, localPast, report>>

Defer(w, ks) ==
  /\ w \in Running
  /\ phase[w] # "calling"
  /\ ~Grants(ks)
  /\ TouchKeys(ks)
  /\ UNCHANGED <<now, reconcilers, inFlight, holdUntil, lastReduce, cutAt, localVars, workerVars>>

\* Mutants of release: no once, so a backstop gives slots back again; nor any check for 0.
releaseTwice(w) ==
  /\ inFlight' = [k \in Keys |-> IF k \in held[w] /\ inFlight[k] > 0 THEN inFlight[k] - 1
                                 ELSE inFlight[k]]
  /\ localInFlight' = IF localInFlight > 0 THEN localInFlight - 1 ELSE localInFlight
  /\ done' = [done EXCEPT ![w] = TRUE]

releaseUnchecked(w) ==
  /\ inFlight' = [k \in Keys |-> IF k \in held[w] THEN inFlight[k] - 1 ELSE inFlight[k]]
  /\ localInFlight' = localInFlight - 1
  /\ done' = [done EXCEPT ![w] = TRUE]

\* What the release func does: once, give the slots back.
release(w) ==
  IF done[w] THEN UNCHANGED <<inFlight, localInFlight, done>>
  ELSE /\ inFlight' = [k \in Keys |-> IF k \in held[w] /\ inFlight[k] > 0 THEN inFlight[k] - 1
                                      ELSE inFlight[k]]
       /\ localInFlight' = IF localInFlight > 0 THEN localInFlight - 1 ELSE localInFlight
       /\ done' = [done EXCEPT ![w] = TRUE]

\* The call returned.
Release(w) ==
  /\ phase[w] = "calling"
  /\ report[w] = {}
  /\ release(w)
  /\ phase' = [phase EXCEPT ![w] = "returned"]
  /\ UNCHANGED <<now, reconcilers, capacity, holdUntil, lastReduce, lastRaise, cutAt,
                 local, cut, lastStep, samplerStarted, localPast, held, report>>

\* The pass ends, its call returned or panicked: the deferred release runs.
Backstop(w) ==
  /\ phase[w] # "idle"
  /\ report[w] = {}
  /\ release(w)
  /\ phase' = [phase EXCEPT ![w] = "idle"]
  /\ held' = [held EXCEPT ![w] = {}]
  /\ UNCHANGED <<now, reconcilers, capacity, holdUntil, lastReduce, lastRaise, cutAt,
                 local, cut, lastStep, samplerStarted, localPast, report>>

-----------------------------------------------------------------------------
\* Signals.

Reports == [key : Keys, kind : {"throttled", "advisory"}, at : Nat, until : Nat]

\* Observe reads the clock and classifies the signal.
Observe(w, k, s) ==
  /\ phase[w] = "calling"
  /\ report[w] = {}
  /\ ~IgnoreSignals
  /\ now <= SignalsUntil
  /\ Classify(s, now) # "none"
  /\ report' = [report EXCEPT ![w] = {[key |-> k, kind |-> Classify(s, now),
                                       at |-> now, until |-> Deadline(s, now)]}]
  /\ UNCHANGED <<now, reconcilers, keyVars, localVars, phase, held, done>>

\* Mutant of ObserveLocked: the last signal sets the hold.
ObserveLockedLastWins(w) ==
  /\ \E r \in report[w] :
       LET throttled == r.kind = "throttled"
       IN  /\ capacity' = [capacity EXCEPT ![r.key] = IF throttled THEN capacityFloor
                                                      ELSE LargerOf(capacityFloor, @ \div 2)]
           /\ holdUntil' = [holdUntil EXCEPT ![r.key] = IF throttled THEN r.until ELSE @]
           /\ lastReduce' = [lastReduce EXCEPT ![r.key] = r.at]
           /\ cutAt' = [cutAt EXCEPT ![r.key] = now]
  /\ report' = [report EXCEPT ![w] = {}]
  /\ UNCHANGED <<now, reconcilers, inFlight, lastRaise, localVars, phase, held, done>>

\* Observe takes the mutex and folds the signal into its key.
ObserveLocked(w) ==
  /\ \E r \in report[w] :
       LET throttled == r.kind = "throttled"
       IN  /\ capacity' = [capacity EXCEPT ![r.key] = IF throttled THEN capacityFloor
                                                      ELSE LargerOf(capacityFloor, @ \div 2)]
           /\ holdUntil' = [holdUntil EXCEPT ![r.key] = IF throttled /\ r.until > @ THEN r.until ELSE @]
           /\ lastReduce' = [lastReduce EXCEPT ![r.key] = r.at]
           /\ cutAt' = [cutAt EXCEPT ![r.key] = now]
  /\ report' = [report EXCEPT ![w] = {}]
  /\ UNCHANGED <<now, reconcilers, inFlight, lastRaise, localVars, phase, held, done>>

-----------------------------------------------------------------------------
\* Saturation, registration and metrics.

\* Mutant of Sample: a saturated sample that finds the capacity at the floor is no step.
SampleStepsOnChange(f) ==
  LET smp     == read(f)
      started == IF lastStep = 0 THEN now ELSE lastStep
      raise   == /\ ~Saturated(smp)
                 /\ local.capacity < ceiling
                 /\ now >= started + (IF cut THEN Recovery ELSE StartupRamp)
      cap     == CASE Hard(smp)       -> capacityFloor
                   [] ~Saturated(smp) -> IF raise THEN local.capacity + 1 ELSE local.capacity
                   [] OTHER           -> LargerOf(capacityFloor, local.capacity \div 2)
  IN  /\ samplerStarted
      /\ cut' = (cut \/ Saturated(smp))
      /\ lastStep' = IF cap # local.capacity THEN now ELSE started
      /\ local' = [capacity |-> cap, cause |-> Saturated(smp), ramping |-> ~cut' /\ cap < ceiling]
      /\ localPast' = [pressed |-> IF Saturated(smp) THEN now ELSE localPast.pressed,
                       raised  |-> IF raise THEN now ELSE localPast.raised]
      /\ UNCHANGED <<now, reconcilers, keyVars, localInFlight, samplerStarted, workerVars>>

\* One step of the sampler, which finds f in the cgroup files.
Sample(f) ==
  LET smp     == read(f)
      started == IF lastStep = 0 THEN now ELSE lastStep
      raise   == /\ ~Saturated(smp)
                 /\ local.capacity < ceiling
                 /\ now >= started + (IF cut THEN Recovery ELSE StartupRamp)
      cap     == CASE Hard(smp)       -> capacityFloor
                   [] ~Saturated(smp) -> IF raise THEN local.capacity + 1 ELSE local.capacity
                   [] OTHER           -> LargerOf(capacityFloor, local.capacity \div 2)
  IN  /\ samplerStarted
      /\ cut' = (cut \/ Saturated(smp))
      /\ lastStep' = IF Saturated(smp) \/ raise THEN now ELSE started
      /\ local' = [capacity |-> cap, cause |-> Saturated(smp), ramping |-> ~cut' /\ cap < ceiling]
      /\ localPast' = [pressed |-> IF Saturated(smp) THEN now ELSE localPast.pressed,
                       raised  |-> IF raise THEN now ELSE localPast.raised]
      /\ UNCHANGED <<now, reconcilers, keyVars, localInFlight, samplerStarted, workerVars>>

Start ==
  /\ Saturation
  /\ ~samplerStarted
  /\ samplerStarted' = TRUE
  /\ UNCHANGED <<now, reconcilers, keyVars, localInFlight, local, cut, lastStep, localPast,
                 workerVars>>

RegisterReconciler ==
  LET next == PerController * LargerOf(1, reconcilers + 1)
  IN  /\ reconcilers < MaxReconcilers
      /\ reconcilers' = reconcilers + 1
      /\ capacity' = [k \in Keys |-> IF capacity[k] = ceiling THEN next ELSE capacity[k]]
      /\ local' = IF ~Saturation /\ local.capacity = ceiling THEN [local EXCEPT !.capacity = next]
                  ELSE local
      /\ UNCHANGED <<now, inFlight, holdUntil, lastReduce, lastRaise, cutAt, localInFlight,
                     cut, lastStep, samplerStarted, localPast, workerVars>>

\* Capacity reads one key, Snapshot all of them; both raise what they read.
Snapshot(ks) ==
  /\ TouchKeys(ks)
  /\ UNCHANGED <<now, reconcilers, inFlight, holdUntil, lastReduce, cutAt, localVars, workerVars>>

Tick ==
  /\ now < MaxTime
  /\ \A w \in Workers : \A r \in report[w] : now < r.at + MaxStall
  /\ now' = now + 1
  /\ UNCHANGED <<reconcilers, keyVars, localVars, workerVars>>

-----------------------------------------------------------------------------
\* Times before the start are the zero time, a whole interval in the past.
Init ==
  /\ now = Recovery
  /\ reconcilers = 0
  /\ capacity = [k \in Keys |-> PerController]
  /\ inFlight = [k \in Keys |-> 0]
  /\ holdUntil = [k \in Keys |-> 0]
  /\ lastReduce = [k \in Keys |-> 0]
  /\ lastRaise = [k \in Keys |-> 0]
  /\ cutAt = [k \in Keys |-> 0]
  /\ localInFlight = 0
  /\ local = IF Saturation THEN [capacity |-> capacityFloor, cause |-> FALSE, ramping |-> TRUE]
             ELSE [capacity |-> PerController, cause |-> FALSE, ramping |-> FALSE]
  /\ cut = FALSE
  /\ lastStep = 0
  /\ samplerStarted = FALSE
  /\ localPast = [pressed |-> 0, raised |-> 0]
  /\ phase = [w \in Workers |-> "idle"]
  /\ held = [w \in Workers |-> {}]
  /\ done = [w \in Workers |-> TRUE]
  /\ report = [w \in Workers |-> {}]

Next ==
  \/ \E w \in Workers, ks \in SUBSET Keys : Acquire(w, ks) \/ Defer(w, ks)
  \/ \E w \in Workers : Release(w) \/ Backstop(w) \/ ObserveLocked(w)
  \/ \E w \in Workers, k \in Keys, s \in Signals : Observe(w, k, s)
  \/ \E f \in Samples : Sample(f)
  \/ Start
  \/ RegisterReconciler
  \/ \E ks \in SUBSET Keys : Snapshot(ks)
  \/ Tick

Spec == Init /\ [][Next]_vars

-----------------------------------------------------------------------------
\* Properties.

Holders(k) == {w \in Workers : phase[w] = "calling" /\ k \in held[w]}
Callers    == {w \in Workers : phase[w] = "calling"}

\* Every variable has its type.
TypeOK ==
  /\ now \in Nat
  /\ reconcilers \in Nat
  /\ capacity \in [Keys -> Nat]
  /\ inFlight \in [Keys -> Nat]
  /\ holdUntil \in [Keys -> Nat]
  /\ lastReduce \in [Keys -> Nat]
  /\ lastRaise \in [Keys -> Nat]
  /\ cutAt \in [Keys -> Nat]
  /\ localInFlight \in Nat
  /\ local \in [capacity : Nat, cause : BOOLEAN, ramping : BOOLEAN]
  /\ cut \in BOOLEAN
  /\ lastStep \in Nat
  /\ samplerStarted \in BOOLEAN
  /\ localPast \in [pressed : Nat, raised : Nat]
  /\ phase \in [Workers -> {"idle", "calling", "returned"}]
  /\ held \in [Workers -> SUBSET Keys]
  /\ done \in [Workers -> BOOLEAN]
  /\ report \in [Workers -> SUBSET Reports]

\* Slots are neither lost nor given back twice: a key's in-flight count is the number of
\* calls that hold it and the local count the number of calls, whatever mix of granted and
\* deferred multi-key calls, releases and backstop releases led there.
SlotsConserved ==
  /\ \A k \in Keys : inFlight[k] = Cardinality(Holders(k))
  /\ localInFlight = Cardinality(Callers)

\* A release func has run exactly when its call is over.
OnceTracksCalls == \A w \in Workers : done[w] = (phase[w] # "calling")

\* No cut, recovery or registration takes a capacity below 1, where its calls would wait
\* forever, or above the ceiling.
CapacityBounded ==
  /\ \A k \in Keys : capacity[k] \in capacityFloor..ceiling
  /\ local.capacity \in capacityFloor..ceiling

\* The governor never slows a key it has heard nothing about: a worker that asks for such
\* keys is granted, or waits for the local capacity that saturation has cut.
UnheardNeverDeferred ==
  \A w \in Running, ks \in SUBSET {k \in Keys : cutAt[k] = 0} :
    phase[w] # "calling"
      => Grants(ks) \/ (Saturation /\ HeldKeys(ks) = {} /\ FullKeys(ks) = {})

\* A deferred pass is always requeued, and never before the server's deadline: RequeueAfter
\* is positive (0 would drop the object) and reaches the hold of every key of the call.
DeferralWakes ==
  \A w \in Running, ks \in SUBSET Keys :
    phase[w] # "calling" /\ ~Grants(ks)
      => \A d \in RequeueAfter(ks) : d > 0 /\ \A k \in ks : now + d >= holdUntil[k]

\* The steps RecoveryPaced allows; a registration may move a key that is at the ceiling.
PacedStep ==
  \A k \in Keys : capacity'[k] > capacity[k] /\ reconcilers' = reconcilers
    => /\ capacity'[k] = capacity[k] + 1
       /\ now + MaxStall >= cutAt[k] + Recovery
       /\ now >= holdUntil[k] + Recovery
       /\ now >= lastRaise[k] + Recovery

\* A key's capacity rises one at a time, and only once the key has been clean for the
\* RecoveryInterval after its last cut and after its hold, but for the stall of Observe.
RecoveryPaced == [][PacedStep]_vars

\* The steps LocalPaced allows: neither a registration nor the end of the pressure lifts the
\* local capacity at once.
LocalPacedStep ==
  Saturation /\ local'.capacity > local.capacity
    => /\ local'.capacity = local.capacity + 1
       /\ localPast.pressed # 0
            => /\ now >= localPast.pressed + Recovery
               /\ now >= localPast.raised + Recovery
       /\ localPast.pressed = 0 /\ localPast.raised # 0 => now >= localPast.raised + StartupRamp

\* Under saturation the local capacity rises one call at a time, and once there was pressure
\* only a RecoveryInterval after the last saturated sample, even one that found the capacity
\* at its floor already.
LocalPaced == [][LocalPacedStep]_vars

\* No signal shortens a hold an earlier one set.
HoldNeverShortens == [][\A k \in Keys : holdUntil'[k] >= holdUntil[k]]_vars

\* Seen from the workers, the governor is the semaphore of CallGate: a call holds a slot in
\* each of its keys and in the process, all or nothing, until its release, whatever the
\* limits do meanwhile.
Gate == INSTANCE CallGate WITH
  Clients <- Workers,
  calls   <- [w \in Workers |-> IF phase[w] = "calling" THEN {held[w]} ELSE {}],
  limit   <- capacity,
  total   <- local.capacity,
  top     <- ceiling,
  closed  <- HeldKeys(Keys)

GateSpec == Gate!Spec
===============================================================================
