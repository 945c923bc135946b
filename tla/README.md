# Verification of provider-runtime

TLA+ models of krateo provider-runtime, the library Kubernetes providers are
built on, with TLC runs over small instances and TLAPS proofs. Paths in this
document are relative to `src/`.

## The system

A provider registers one *managed resource reconciler* per kind. Each object
of the kind stands for one *external resource*. The controller's workqueue
hands the object to a worker, whose pass reads it from an informer cache, asks
the provider's `ExternalClient` to observe the external resource, and creates,
updates or deletes it, recording progress in annotations, a finalizer and
status conditions on the object.

| Component | State it keeps | Operations | Talks to |
|---|---|---|---|
| reconciler (`pkg/reconciler/reconciler.go`, `ready.go`, `requeue.go`) | none between passes; everything is on the object | `Reconcile`, the three timeouts and grace periods | API server, external client, gate, workqueue |
| critical annotation updater (`pkg/reconciler/api.go`) | none | `UpdateCriticalAnnotations`, with retries | API server |
| meta (`pkg/meta/meta.go`) | annotations: create pending/succeeded/failed, external name, paused, management and deletion policy | stamps, their comparisons, policy tests | called by the reconciler |
| finalizer (`pkg/resource/api.go`) | the finalizer on the object | `AddFinalizer`, `RemoveFinalizer` | API server |
| conditions (`apis/common/v1/condition.go`, `pkg/resource/conditions.go`) | a slice with Ready and Synced | constructors, `SetConditions`, `UpsertCondition`, `RemoveCondition` | written by the reconciler |
| rate-limit gate (`pkg/reconciler/ratelimit.go`) | the slot of the pass's call | `gate`, `deferReconcile`, the releases | reconciler → governor |
| governor (`pkg/ratelimit/governor.go`) | per key: capacity, in flight, hold, last cut, last rise; local capacity; reconciler count | `AcquireAll` and the release func, `Observe`, `RegisterReconciler`, `Start`, `Snapshot` | gate, signals, sampler, metrics |
| saturation sampler (`pkg/ratelimit/saturation.go`) | was it ever cut, last step | `read`, `evaluate`, `step` | cgroup files → governor's local capacity |
| signals (`pkg/ratelimit/signal.go`, `httpsignal/`) | none | `Classify`, `Deadline`; `Parse`, `RoundTrip` | HTTP responses → governor |
| limited reconciler (`pkg/ratelimiter`) | the set of limited requests | `Reconcile`, `when` | limiter below it |
| timed limiter (`pkg/workqueue`) | per item: attempts, last attempt | `When`, `Forget` | limited reconciler, workqueue |
| queue telemetry (`pkg/controller/queue_wait.go`) | enqueue and start times, reported depth | wrappers of the queue's methods | workqueue, metrics |
| telemetry, logging, errors, context, test kit, example, generated types | – | – | not modelled, see below |

Behaviours that are hard: a Create that is interrupted by a crash, a lost
reply or a deadline; an eventually consistent external system and a stale
cache; user edits between two calls of a pass; signals applied out of order;
slots given back once and only once; a requeue that must not be 0; a pass that
is deferred half way, again and again; cgroup files that cannot be read;
telemetry that is updated outside the queue's lock. What makes each part correct:

* reconciler: at most one external resource; nothing leaked when the object
  goes; the finalizer before the first Create; success means applied; no edit
  of the spec set back; no object forgotten while it has work; a deferral
  leaves no handshake;
* governor: slots conserved, capacities between 1 and the ceiling, holds that
  never shrink, paced recovery that does complete, no deferral for unheard
  keys, every deferral wakes late enough, refusals honoured; to its callers, a
  semaphore that takes all slots of a call or none;
* reconciler and governor together: no slot outlives its call, a restart
  reports nothing, and once nobody disturbs it an object is done in the end;
* limiter: one pass per deferral, growing and bounded delays;
* telemetry: exact depth, no record without its item.

## Modules

`Meta`, `Signal`, `SaturationInput` and `ConditionedStatus` are pure. `Reconciler` uses `Meta`;
`Governor` uses `Signal` and `SaturationInput`; `GatedReconciler` extends
`Reconciler` and instantiates `Governor`, and conjoins their actions;
`HttpGovernor` puts the responses parsed by `HttpSignal` in front of
`Governor`; `LimitedReconciler` wraps `TimedLimiter`; `QueueWait` stands
alone. `CreateHandshake` and `CallGate` are abstract: what `Reconciler` and
`Governor` are shown to implement. `MC*` modules and their `.cfg` files
are the instances. The theorems are in modules of their own:

| Proofs | About | Use |
|---|---|---|
| `ReconcilerProofs` | a pass: types, stamps before Create, finalizers, deferrals, requeues | – |
| `HandshakeProofs` | the create handshake, its refinement, deletion, success, edits | `ReconcilerProofs` |
| `GovernorProofs` | the governor and its refinement | – |
| `HttpProofs` | the governor behind a Transport | `GovernorProofs` |
| `GatedProofs` | the reconciler behind the governor | `ReconcilerProofs`, `GovernorProofs` |
| `LimiterProofs` | the timed limiter and its wrapper | – |
| `QueueWaitProofs` | the queue's records and reports | – |
| `AbstractionProofs` | what `CreateHandshake` promises; slices of conditions as maps | – |

No module declares a RECURSIVE operator. A definition commented as a *mutant* is not part of the
model: it is a plausible bug that the property it is kept for must catch.

### Reconciler (`Reconciler`, `Meta`)

One object and all that surrounds it. `server` is the stored object, `cached`
the informer's copy, `managed` the running pass's copy, `pristine` the copy
`deferReconcile` falls back to. A pass is cut where it leaves the process:
`pc` names the next call, each write to the API server and each provider call
is one step, and the branches of `Reconcile` between two calls are the guards
of the steps. Between any two steps users may edit, the cache may catch up,
time may pass, or the process may die.

The API server's answers are `ok`, `conflict`, `notfound`, `error` (not
stored) and `lost` (stored, answered with an error). A successful update
decodes the reply into the object sent, as controller-runtime's client does,
and that is how a status set before the call can be lost. `Update` keeps the
stored status and `Status().Update` keeps everything else.
`UpdateCriticalAnnotations` retries what the server answered with an error;
`error` and `lost` may be that or a failure to reach the server, so a try
after them is a choice. An error of Connect or Observe may be a readiness
error, which sets Ready itself (`ready.go`).

External resources carry the time from which Observe sees them
(`VisibilityLag`). A Create that dies with its process may land later, within
`Timeout` (`inflight`). Stamps are truncated to seconds by `RFC3339`;
`TicksPerSecond` is the resolution of the clock.

The workqueue is a flag, one delayed add and the earliest next start
(`RetryDelay`, `PassGap`, `RestartDelay` are lower bounds on what it imposes).
Two passes of one object never run together, which the workqueue guarantees.
A `Result` is a kind and a delay: `Dropped` says which of them requeue nothing,
and `Polls` has the jitter that `WithPollJitterHook` adds with either sign.

`CreateHandshake` tells the same story without stamps, grace periods or
caches: a handshake is `open`, a request is on the `wire`, some `resources`
exist. `HandshakeSpec` maps `open` to an unresolved stamp on the stored object
and `wire` to a Create that runs or may land after its process died. What
matters most in it is `Close`, which waits for an empty wire, and `Open`, which
waits for the absence of the resource. `HandshakeSuffices` proves that these
two guards are enough for `AtMostOne`.

### Governor (`Governor`, `Signal`)

What runs under one hold of `g.mu` is one step. `Observe` reads the clock
before it locks, so it is two steps, `MaxStall` ticks apart at most, and two
workers may fold in the opposite order. A worker may ask for any set of keys,
the empty one included. With saturation off the code skips the governor for an
empty set; the model does not skip it and counts the call locally, which
allows more than the code does. `held` and `done` are what the release func's
closure captures. `cutAt` is auxiliary. `Snapshot` raises the keys it reads, as
the metrics callback and the debug endpoint do.

A sample is what the sampler finds in the cgroup files, each number in a set
that is empty when the file is missing or does not parse; `SaturationInput`
makes the two inputs of them and compares them with their thresholds, and
`Sample` is `step`. `localPast` is auxiliary: when a sample was last saturated
and when the local capacity last rose.

`CallGate` is one counting semaphore per key and one for the process, with
limits that move. `GateSpec` says that a grant finds a free slot in all of them
at once, that only a key of the call may be raised by it, that a release gives
all of them back, and that no limit is ever 0.

### Reconciler behind the governor (`GatedReconciler`)

`Reconciler` alone lets any gated call be deferred for any delay.
`GatedReconciler` asks `Governor` instead: `Granted` and `Deferred` are the two
answers of `gate`, with the keys of the connecter's or the client's keyer;
`EndCall` is the release after each call and `EndPass` the deferred release
functions of the pass. A second worker, `rival`, takes slots of the same
governor. Users, refusals, the rival and pressure act until `SignalsUntil`.

The reason "ramping" is quiet only while `local.ramping` holds, which `sample`
computes. A reconciler that registers after the ramp has ended raises the
ceiling without it, so a deferral at capacity is reported until the next
sample. The comment in `pkg/ratelimit/governor.go:207` does not mention it;
providers register before the sampler starts, and `StartPass` waits for both.

### Signals from responses (`HttpSignal`, `HttpGovernor`)

A header is the set of its values, `{}` when absent or malformed. Counts and
seconds are in halves so that rounding shows: seconds round up, counts down.
A URL's host is a name in some spelling, of which `HostKey` keeps the name.
Parse's clock read and Observe's are one step; in the code the second is
later, which only lengthens a hold made from an HTTP-date.

`parseCount` also floors `used`, so `limit - used` may claim up to one request
more than is left, against "rounded down, the conservative direction for what
is left" (`pkg/ratelimit/httpsignal/httpsignal.go:235`). It matters only to a
403 without a Remaining header and with less than one request left. The model
has this rounding; no run is spent on it.

### Limiter and queue (`TimedLimiter`, `LimitedReconciler`, `QueueWait`)

`TimedLimiter` is `When` and `Forget`, each under its lock, as a workqueue
uses them; the conversion of a float64 that equals 2^63 is any value the
processor may give. `LimitedReconciler` puts the wrapper on top: one request is
one step, since the queue never hands a request to two workers and no state is
shared between requests. `QueueWait` splits each wrapped queue call into its
record, its report and the queue's own step, over a plain or a priority queue.

## Runs

Each run is `tlc -config <Module>_<run>.cfg <Module>`. Deadlock is checked in
all of them. The bounded models stutter explicitly at their horizon (`Horizon`
or `Snapshot`), and `QueueWait` is finite by itself.

| Run | Shows | Bounds and why they are enough |
|---|---|---|
| `handshake` | `NoDuplicate`, `CreateDetectable`, `HandshakeSpec` | Half-second ticks so that truncation bites; a lag of 3 ticks, two faults (a crash plus a lost reply or a failed stamp, the shortest routes to an unresolved handshake followed by another failure), time for the recovery window and a retry |
| `deletion` | `NoLeak`, `OwnedIsFinalized`, `CreateMarked` | Two edits among delete, policy switch and out-of-band removal, one fault, a Create that fails but lands, and a policy that only observes what is not there |
| `gated` | `SlotsFollowCalls`, `RampIsQuiet`, `DeferralLeavesNoHandshake`, `NeverStranded`, `Settles` | One key, one worker and a rival, so a ceiling of 2 that the ramp, a cut or a refusal lowers to 1; a connecter without a key, whose call needs a local slot only; deferrals of up to 2 ticks, the longest that a hold, the jitter or the ramp gives here; one edit and one fault up to tick 1; five ticks, of which the longest recovery (a refusal of 2 ticks, a clean interval, a retry) needs four |
| `update` | `SuccessMeansApplied`, `EditsSurvive`, `NeverStranded` | A resource that exists, or that the passes create, adopt after a lost stamp, or give up; two edits among spec, pause and delete, so that one may fall between a read and a merge; late initialization, four management policies, one fault, any gated call deferred in both ways, a poll interval of 2 with a jitter of 1; a recovery grace of 2, which expires within the three ticks, and so does a poll |
| `governor` | `SlotsConserved`, `CapacityBounded`, `UnheardNeverDeferred`, `DeferralWakes`, `LocalPaced`, `GateSpec` | Two keys for multi-key calls, two reconcilers with one worker each, refusals by delay and by reset and a low quota, samples with an unreadable file, with CPU pressure and with memory at either ratio; enough ticks that a key is cut, held and raised |
| `recovery` | `KeysRecover`, `RecoveryPaced`, `HoldNeverShortens`, `RefusalsHonoured` | Three workers, so two steps of recovery and reports that overtake each other; refusals by seconds, date and reset; signals end at 3, and 9 is the last tick recovery can need |
| `limited` | `OnePassPerWhen`, `DelaysBounded`, `DelaysGrow`, `QuietRestarts` | Two items, delays 1, 2, 3, 3 and time for two quiet periods of 2*MaxDelay |
| `queue` | `DepthAccounted`, `RecordsAreOfItemsThatWait`, `WorkIsOfThisPass` | Two items, adders and workers, both queues, ShutDown at any time; every interleaving of their steps |
| `same_second`, `delete_in_window`, `ready_reset`, `expired` | findings, below | the shortest schedules that show them |

The type invariants are in `handshake`, `governor`, `limited` and `queue`.

`NeverStranded` needs the jitter below the poll interval: with `PollJitter =
PollInterval` TLC finds the pass whose RequeueAfter is 0, which controller-runtime
takes as no requeue. `WithPollJitterHook` does not check it. The same goes for a
`WithCreateRecoveryReobserveInterval` of 0.

`SuccessMeansApplied` makes one exception, `StaleAdoption`: a pass that adopts an
unresolved create re-reads the object (`pkg/reconciler/reconciler.go:986`) after
Observe has compared it, so it may store ReconcileSuccess beside a newer spec.
No crash is needed: a succeeded stamp that cannot be stored is enough, and TLC
finds the trace within the bounds of `update` once the exception is left out.
The edit has queued the next pass by then.

The bounds of `handshake` are tight: they are exactly those of
`HandshakeTiming`, under which `NoDuplicate` is proved (see Proofs). With
`CreationGrace = 4`, `RecoveryGrace = 5` or `PassGap = 1`, each one less than
it is, TLC finds a second resource; with no lag, `Timeout = 2` and
`CreationGrace = 3`, a `RecoveryGrace` of 5 is one too short as well. The
default creation grace is 30 s and a pass may take longer than that, so with
the defaults the first condition rests on passes that are in fact short: a
provider with slow Observes or long lags needs a longer period.

### Fairness

Two runs check liveness.

`recovery`: `HttpSpec` assumes that time passes, that the metrics read every
key at least once a tick (their exporter is periodic; `ReadEachTick` keeps a
tick from overtaking it), and that a report gets the governor's mutex, which is
held for short computations only. Nothing is assumed of calls, releases or
providers. Without reads capacity does stay low: it is raised only where it is
read.

`gated`: `GatedSpec` assumes that the worker goes on with its pass and takes up
the next one (`PassStep`), that the rival's calls end (they have deadlines),
that the sampler and the start of the process go on, that the informer delivers
its events, that reports are folded, and that time passes. `Due` keeps a tick
from overtaking what is due once `SignalsUntil` is over: the steps of a pass
take no time against the seconds of the intervals. `Prompt` says that the
external system then does what it is asked, without which no reconciler could
settle anything. That the governor grants a call is not assumed. `Settles` is
about the time after the disturbances: a rival that kept calling might hold the
one slot of a key at each wake-up of the object and starve it, since the
governor keeps no queue and promises no fairness among its callers.

## Proofs

`GovernorProofs`, for any keys, workers per controller, intervals and signals:

* `TypeCorrect`. The signals' types come from `GovernorAssumption`.
* `SlotsAreConserved`. Counts alone are not inductive: a backstop after a
  release must be known to do nothing. The invariant adds `OnceTracksCalls`
  (a release func has run exactly when its call is over), and the proof
  follows the cardinality of the holders through a grant and a release.
* `CapacitiesBounded`, from halving, raising and registration each keeping
  `1..ceiling`, and the ceiling only growing.
* `HoldsNeverShorten`, and `RecoveryIsPaced` from an invariant on reports: none
  is older than `MaxStall`, and `lastReduce` is at most that much before the
  cut.
* `DeferralsWake` from `SlotInv` and the fact that only running workers call:
  the ramp's remaining time is positive whenever a deferral says "ramping".
* `UnheardAreGranted` from the fact that an unheard key sits at the ceiling and
  that the callers but one cannot fill it.
* `LocalIsPaced` from an invariant that ties `lastStep` to `localPast`: the last
  step is the later of the last pressure and the last rise, and `cut` says
  whether there was any pressure.
* `ImplementsCallGate`: initial states map to initial states, and each action is
  an `Enter`, a `Leave`, an `Adjust` or a stutter. It needs `SlotsConserved`, so
  that a counter below its limit is a free slot of the semaphore, and
  `CapacityBounded`, so that limits stay where `CallGate` has them.

`ReconcilerProofs`, for any delays, policies, faults and users:

* `TypeCorrect`.
* `CreateIsMarked`. The strengthening says that the clock has left the zero
  time, so that a stamp is never the zero time after truncation, and that a
  pass about to act holds the finalizer in its copy; optimistic locking then
  carries both to the server.
* `DeferralsLeaveNoHandshake`: as long as a pass may still be deferred, an
  unresolved handshake on its copy is one that it found when it began. The
  invariant follows the flag `unresolvedCreate` through the recovery.
* `OwnersAreFinalized`, where no external resource exists at first. `CopyInv`
  says what optimistic locking is for: a copy with the stored resourceVersion
  agrees with the stored object on the finalizer, so no step takes it from an
  object but the one that lets the object go. Requests come from a pass that
  `CreateIsMarked` is about, or outlive it.
* `NothingIsStranded`, under `PositiveDelays`: the jitter is below the poll
  interval, and neither the reobserve interval nor a deferral is 0. The only
  result that schedules nothing is then `NoRequeue`, and it is returned only
  for an object that is paused in the cache or has gone; a deleted object
  without its finalizer, for which RemoveFinalizer would return it too, is
  never read (`Held`). `GovernorProofs` has the third condition: `DeferralsWake`.

`HandshakeProofs`, from the same module. The hypotheses are on constants, which
the provider and the deployment choose, and each is named:

* `CreatesAreDetectable`, under `PassesAreApart`: passes of an object, and the
  first one after a crash, start a second apart. The chain of invariants is
  `AgreeInv`, that a copy with the stored resourceVersion has the stored
  annotations and spec, so that what a pass decided from its copy still holds
  if its write is accepted; then `StampInv`, that stamps are of the past, and that
  those of finished creates are a second old when a pass may stamp again.
  Without it a pending stamp equals the failed stamp of the same second: that
  is the finding `same_second`.
* `NothingIsMadeTwice`, under `HandshakeTiming`. `CreationGrace` must be at
  least the visibility lag and the length of a pass (`Timeout`), because
  Observe may answer early in a pass and the grace is tested late in it; and
  the part of a second that truncation loses. `RecoveryGrace` must also outlast a
  Create that its process did not survive, which is one more `Timeout`. A
  Create that fails has created nothing, and names are the client's: where a
  failed Create may have landed no stamp tells, and where the server chooses
  the name a crash loses it. `HandInv` adds to `StampInv` two things:
  `Requests`, by when the one request or the one resource is to be seen,
  reckoned from the stored stamps; and `Knowledge`, what a pass may conclude
  from an Observe that found nothing, until its next write. Neither is
  inductive without the other: a pass that saw nothing creates only if its
  observation came after that time, and the time is only bounded because no
  pass created anything else.
* `ReconcilerHandshakes`: under the same hypothesis every step of `Reconciler`
  is a step of `CreateHandshake` or a stutter. The obligation is `Close`:
  whoever resolves a handshake, by a stamp or by the recovery, does so with
  nothing on the wire.
* `NothingLeaks`, under `PlainSight`: what exists is observable at once, no
  process dies with a Create on its way, and names are the client's. A Create
  that fails may have landed, policies may be switched, and objects deleted, at
  any time. `LeakInv` says that a pass that saw nothing is right, and that
  optimistic locking keeps the policy it decided by until the finalizer goes.
  Without the hypothesis the property is false: that is the finding
  `delete_in_window`.
* `SuccessIsApplied`, where nobody else deletes external resources: a stored
  `ReconcileSuccess` is of a spec that the resource has. `AppliedInv` follows
  what Observe said of the spec on the copy through every write that replaces
  the copy, except where an adoption re-reads the object (`StaleAdoption`).
* `EditsDoSurvive`: only users change the stored spec. It follows from
  `AgreeInv`, case by case: each accepted write is of a copy of the current
  version, and the merge of the critical annotations starts from the object
  it has just read.

`HttpProofs`, for any requests and any responses in which each header is read
once (`HttpResponses`, by `ExchangesAssumption`):

* `HttpCarries`: what Parse makes of a response is a signal, so the governor
  behind a Transport is a `Governor` for which every signal may occur
  (`AnySignal`). `HttpHoldsNeverShorten` and `HttpRecoveryIsPaced` follow from
  the theorems of `GovernorProofs`.
* `RefusalsAreHonoured`, for servers within what is parsed (`WithinBounds`: a
  delay beyond 100 years is cut, an epoch beyond 1e11 seconds is none).
  `DeadlineReaches` is its core: the deadline of the parsed signal is not
  before any instant that the refusal names, whichever headers it uses, with
  seconds rounded up. `RefusalInv` carries that through the report, which waits
  for the mutex, into the hold of the key, which other reports only lengthen.

`GatedProofs`. `GovernorCarries` and `ReconcilerCarries` are two refinements,
the composition of each of its parts, so that the theorems of both carry over:
every step of a pass, an early return or the rival is a step of `Governor` for
some worker, and every answer of the governor is a deferral that `Reconciler`
allows (`AnyDeferral`: either kind and any positive delay, and positive is what
`DeferralsWake` proves).

* `GatedIsNotStranded` and `GatedLeavesNoHandshake` follow from the reconciler's
  theorems.
* `SlotsDoFollowCalls`: `FollowInv` ties the phase of the worker in the governor
  to the program counter of the pass, through every early return.
* `TheRampIsQuiet`: `RampInv` says that until a key is cut or a sample finds
  pressure, the local capacity is only short of the ceiling because it ramps
  up, keys are never full (`UnheardAreGranted`), and so no copy of the object
  has the reason `ReconcileDeferred`.

`LimiterProofs`:

* `TypeCorrect`, an overflowing backoff included.
* `OnePassIsOwed`, `DelaysAreBounded`, `DelaysDoGrow`, `QuietDoesRestart`, under
  `NeverBound`: no backoff equals 2^63 nanoseconds (see Findings for what
  happens if one does). The invariant `LimitInv` says that, until it expires,
  the history of a request tells when it was last asked about and what it was
  answered (`HistoryOf`). The wrapper's mark and the limiter's history are
  deleted by different calls, and neither alone says who is owed a pass.
* The powers of two are a recursive function, of which the prover knows
  nothing but its definition. `SetInduction` is induction over a set of
  numbers in place of a formula, from the library's theorem on well-founded
  relations, and needs no operator as a parameter; `DoublesExist` and
  `PowersDouble` use it to show that the function satisfies its equation,
  on which growth rests.

`AbstractionProofs`: `HandshakeSuffices`, that whatever implements
`CreateHandshake` keeps its promise; with `ReconcilerHandshakes` this is a
second way to at most one resource. And `SetConditions` and its relatives keep
the slice of conditions a map (`OneOfEachType`), set what they are given and
nothing else (`SetIsUpdate`), and leave a condition that says the same alone,
its time included (`SameIsNoChange`). This is why `Reconciler` may keep a reason
per type; `SlicesAreReasons` in `MCGatedReconciler` checks the same of its own
`SetConditions`, for all reasons and both orders, when `gated` runs.

`QueueWaitProofs`, for any finite sets of items, callers and workers (goroutines
and requests of a process), and either queue:

* `TypeCorrect`, with two facts that the rest needs: a goroutine is at one place
  at a time, and only a shutdown that has yet to report leaves a `pending`.
* `DepthIsAccounted` is inductive as it stands. The proof counts: each step moves
  at most one caller and one worker into or out of a report, and one item into
  or out of the records.
* `RecordsWait`: until a shutdown, a record's item is in the queue, or some
  caller has yet to add it or some worker has yet to strike it off.
* `StartsAreOfThisPass`: two workers never hold the same item, and a start is
  deleted before its item is given back.

The assumptions are the named `ASSUME`s: `ConstantsAssumption`,
`TicksPerSecondAssumption`, `InitialPoliciesAssumption`,
`GovernorAssumption`, `SaturationAssumption`, `QueueAssumption`,
`LimiterAssumption`, `GatedAssumption`, `HttpAssumption` and
`ExchangesAssumption`. TLC evaluates each of them in the runs.

Only model-checked: `KeysRecover` and `Settles`, which are liveness under
fairness and out of the prover's reach. Every invariant and action property that
a passing run checks is a theorem, under the hypotheses above. The constants of
the run satisfy them, except that `AnySignal` and `AnyDeferral` speak of
infinite sets, of which a run lists the signals and the delays that occur in
it.

## Findings

1. **`same_second`** – `pkg/meta/meta.go:269` wants the pending stamp strictly
   after the failed one, and stamps have whole seconds. A create that is
   retried within the second of its failure and then crashes looks resolved,
   and is created again while the first resource is not visible yet. It needs
   a retry within a second of the failed pass (`PassGap = 0`), which the
   default rate limiters allow for the first failures.
2. **`delete_in_window`** – `pkg/reconciler/reconciler.go:992` releases the
   finalizer of a deleted object with an unresolved handshake on the first
   negative Observe, so a created resource that is not visible yet is leaked.
3. **`ready_reset`** – `pkg/resource/api.go:45`: AddFinalizer's update decodes
   the stored status over the Ready that Observe has just set, and the pass
   then stores ReconcileSuccess beside the old NotObserved.
4. **`expired`** – `pkg/workqueue/workqueue.go:44`: once an item's history has
   expired, When returns 0 and renews nothing, so an item that fails from then
   on without a success is retried with no delay each time.

Met while modelling, without a run of their own:

* A crash after a Create whose name the server chooses loses the name. After
  the recovery window the create runs again and the first resource is lost
  (`reconciler.go:1017-1035`); the code documents the window as the best it can
  do, so it is a limit rather than a finding.
* The critical annotation update writes back all annotations of the pass's
  copy (`pkg/reconciler/api.go:48`): a policy annotation edited while Create
  runs is set back. The spec is not written back: that is `EditsSurvive`.
* The adoption path re-reads the object (`reconciler.go:986`), so a spec edited
  since Observe may be stored with ReconcileSuccess until the next pass
  (`StaleAdoption`).
* With a base delay of a power of two nanoseconds the limiter's float64 backoff
  can equal 2^63, which the comparison with MaxInt64 lets through
  (`pkg/workqueue/workqueue.go:55`). With `Int64Bound` such a multiple of
  `BaseDelay`, TLC finds the negative delay, and `DelaysBounded` and
  `OnePassPerWhen` fail; no backoff of the run `limited` meets the bound.
* An event that brings a deferred request early lets it pass before its delay:
  `pkg/ratelimiter` trusts its callers, and says so.
* `queue_wait.go` misses items added between a Get and its record, or whose
  delayed add fires after the hand-out: they wait unrecorded. Excluding the
  opposite, a record without its item, is what the runs check.

## Not modelled

Telemetry export, logging, error wrapping and the context helpers (no decision
depends on them); the syntax of the cgroup files and the search for the
process's own directory (string parsing; what a file yields or fails to yield is
modelled); the provider test kit, fakes and generated types; the example
controller; poll interval hooks other than the jitter; message texts and events.

A governor lives in its process: a restart forgets every hold, by design, and
eases in by the startup ramp instead. `GatedReconciler` therefore has no crash;
`Reconciler` has them without a governor's state.

## Plan

Written first, because it is the most important: the reconciler with its
handshake, then the governor with its proofs, the limiter, the queue and the
signals; then the abstract specifications with their refinements, the sampler's
inputs, and the reconciler behind the governor. Then the theorems: every safety property of the
runs, and the refinements. What is left, in order:

1. `NoLeak` for a lag that is shorter than the shortest life of an object: the
   code has no such condition, so it would be one on the users.
2. A theorem about `Reconciler` under `AmbiguousCreate`, with the count of
   resources bounded by the creates that failed.
3. `HttpGovernor` behind `GatedReconciler`, so that one module tells of a
   response that defers a pass.
