---------------------------- MODULE GatedReconciler ----------------------------
(***************************************************************************)
(* The reconciler behind the governor: gate and deferReconcile of          *)
(* pkg/reconciler/ratelimit.go, composed of Reconciler and Governor.       *)
(*                                                                         *)
(* One worker passes over the object of Reconciler; a rival, the worker of *)
(* another reconciler of the process, takes slots of the same governor.    *)
(* Reconciler lets any gated call be deferred, with any delay; here it is  *)
(* the governor that grants it, or defers it with a reason and a delay.    *)
(***************************************************************************)
EXTENDS Reconciler

CONSTANTS
  Keys, PerController, Recovery, Saturation, IgnoreSignals, MinJitter, StartupRamp, SamplePeriod,
  Signals, Samples, MaxStall, MaxReconcilers, SignalsUntil,
  ExperimentalMemoryWorkingSet, CPUPressureThreshold, WorkingSetSoftRatio, WorkingSetHardRatio,
  ConnectKeys,  \* the keys of the connecter's keyer; {}: it has none, or it fails
  ClientKeys    \* the keys of the client's keyer, or of the connecter's

VARIABLES
  reconcilers, capacity, inFlight, holdUntil, lastReduce, lastRaise, localInFlight, local, cut,
  lastStep, samplerStarted, localPast, phase, held, done, report, cutAt

G == INSTANCE Governor

ASSUME GatedAssumption ==
  /\ G!GovernorAssumption /\ G!SaturationAssumption
  /\ Recovery = TicksPerSecond  \* both modules start their clock one such unit in
  /\ MaxReconcilers = 2
  /\ ConnectKeys \subseteq Keys /\ ClientKeys \subseteq Keys

worker == 1
rival  == 2

govVars   == <<reconcilers, capacity, inFlight, holdUntil, lastReduce, lastRaise, localInFlight, local,
               cut, lastStep, samplerStarted, localPast, phase, held, done, report, cutAt>>
passOnly  == <<server, cached, queueVars, pc, passVars, externalVars, faults, edits>>
gatedVars == <<vars, govVars>>

-----------------------------------------------------------------------------
\* The gate.

\* The keys of the pass's next call.
GateKeys == IF pc = "connect" THEN ConnectKeys ELSE ClientKeys

\* A call with no key still needs a local slot when saturation is enabled.
Ungated == GateKeys = {} /\ ~Saturation

HoldsSlot == phase[worker] = "calling"
MayCall   == HoldsSlot \/ Ungated

Granted ==
  /\ AtGate
  /\ ~Ungated
  /\ G!Acquire(worker, GateKeys)
  /\ UNCHANGED passOnly

Deferred ==
  /\ AtGate
  /\ ~Ungated
  /\ G!Defer(worker, GateKeys)
  /\ \E d \in G!RequeueAfter(GateKeys) :
       DeferFor(IF G!DeferReason(GateKeys) = "ramping" THEN "ramping" ELSE "deferred", d)

\* The deferred release funcs run as the pass returns.
EndPass == IF pc' = "idle" /\ phase[worker] # "idle" THEN G!Backstop(worker) ELSE UNCHANGED govVars

\* Mutant of EndCall: the slot goes with the pass, not with the call.
EndCallLate == EndPass

\* The call's own release, as it returns.
EndCall == IF pc' # "idle" /\ HoldsSlot THEN G!Release(worker) ELSE EndPass

-----------------------------------------------------------------------------
\* The pass.  The governor's sampler is started before the controllers are.

StartPass ==
  /\ reconcilers = MaxReconcilers
  /\ Saturation => samplerStarted
  /\ GetNotFound \/ GetFails \/ GetPaused \/ GetOrphaned \/ Get
  /\ UNCHANGED govVars

\* The external system does what Create and Delete ask for.
Prompt == /\ pc = "create" => created' # created
          /\ pc = "decide" /\ pc' = "status" /\ faults' = faults => ext' # ext

ExternalCall ==
  /\ MayCall
  /\ Connect \/ ObserveMissing \/ ObserveFound \/ ObserveFails \/ Delete \/ Update
     \/ CreateSucceeds \/ CreateFails
  /\ now > SignalsUntil => Prompt
  /\ EndCall

\* The slot of Create is taken before the pending stamp is written, and kept over it.
MarkCreate ==
  /\ AtGate => MayCall
  /\ BeginCreate
  /\ EndPass

\* The writes to the API server and the early returns.
OtherStep ==
  /\ AdoptCreate \/ AwaitRecovery \/ ClearPending \/ ReportMissing \/ AwaitVisibility
     \/ RemoveFinalizer \/ AddFinalizer \/ UpdateCriticalAnnotations \/ LateInitialize
     \/ NothingToDo \/ StatusUpdate
  /\ EndPass

PassStep == StartPass \/ Granted \/ Deferred \/ ExternalCall \/ MarkCreate \/ OtherStep

-----------------------------------------------------------------------------
\* What happens around the pass.  Users, rivals, refusals and pressure stop at SignalsUntil.

Calls == HoldsSlot /\ (pc \in {"connect", "observe", "create"} \/ ToDelete \/ ToUpdate)

\* At most one report of a key is taken in at an instant, so that calls end.
Observe ==
  /\ \E k \in {x \in Keys : cutAt[x] # now}, s \in Signals :
       \/ Calls /\ G!Observe(worker, k, s)
       \/ G!Observe(rival, k, s)
  /\ UNCHANGED passOnly

Fold == (G!ObserveLocked(worker) \/ G!ObserveLocked(rival)) /\ UNCHANGED passOnly

RivalCalls == now <= SignalsUntil /\ G!Acquire(rival, ClientKeys) /\ UNCHANGED passOnly
RivalEnds  == G!Backstop(rival) /\ UNCHANGED passOnly

Sample ==
  /\ \E f \in Samples : (now <= SignalsUntil \/ ~G!Saturated(G!read(f))) /\ G!Sample(f)
  /\ UNCHANGED passOnly

\* The reconcilers register as they are built, before the manager starts the sampler.
SetUp == /\ G!RegisterReconciler \/ (reconcilers = MaxReconcilers /\ G!Start)
         /\ UNCHANGED passOnly

Edited ==
  /\ now <= SignalsUntil
  /\ EditSpec \/ EditPause \/ EditPolicy \/ DeleteObject \/ ExternalVanishes
  /\ UNCHANGED govVars

Synced == CacheSync /\ UNCHANGED govVars

\* Once nobody disturbs it any more, the process does what is due before time goes on.
Due ==
  \/ pc # "idle"
  \/ now >= notBefore /\ (queued \/ (delayed # 0 /\ delayed <= now))
  \/ cached # server
  \/ phase[rival] = "calling"
  \/ samplerStarted /\ local.capacity < G!ceiling
     /\ now >= lastStep + (IF cut THEN Recovery ELSE StartupRamp)

Passes == Tick /\ G!Tick /\ (now > SignalsUntil => ~Due)

Ended == Horizon /\ UNCHANGED govVars

GatedInit == Init /\ G!Init

GatedNext ==
  \/ PassStep
  \/ Observe \/ Fold \/ RivalCalls \/ RivalEnds \/ Sample \/ SetUp \/ Edited \/ Synced
  \/ Passes \/ Ended

GatedSpec ==
  /\ GatedInit /\ [][GatedNext]_gatedVars
  /\ WF_gatedVars(PassStep)
  /\ WF_gatedVars(Fold)
  /\ WF_gatedVars(RivalEnds)
  /\ WF_gatedVars(Sample)
  /\ WF_gatedVars(SetUp)
  /\ WF_gatedVars(Synced)
  /\ WF_gatedVars(Passes)

-----------------------------------------------------------------------------
\* Properties.

\* No slot outlives the call it was taken for: neither an early return nor a status write nor
\* the retries of the critical annotations hold one, but for the report that the pending
\* stamp could not be written.  (The release funcs of Reconcile, deferred and called.)
SlotsFollowCalls ==
  HoldsSlot => \/ AtGate
               \/ pc = "create"
               \/ pc = "status" /\ ret = Errored /\ managed.ready = "Creating"

\* A restart reports nobody as deferred: the startup ramp alone, without a refusal and
\* without pressure, leaves the status of every object as it was.  (DeferRamping is quiet.)
RampIsQuiet ==
  server.synced = "ReconcileDeferred" => cut \/ \E k \in Keys : cutAt[k] # 0

\* What the spec asks for is there.
Settled ==
  IF server.exists
  THEN IsPaused(server.ann) \/ (~server.deleted /\ \E e \in ext : e.spec = server.spec)
  ELSE ext = {}

\* Once users, rivals, refusals and pressure are gone, the object settles: deferrals delay
\* its passes but no hold, cut capacity or deferral in mid pass keeps it from being done.
Settles == <>[]Settled
===============================================================================
