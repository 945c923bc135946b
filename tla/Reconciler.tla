------------------------------ MODULE Reconciler ------------------------------
(***************************************************************************)
(* pkg/reconciler: one managed resource reconciled by passes of Reconcile, *)
(* with the API server that stores it, the informer cache Reconcile reads, *)
(* the workqueue that starts the passes, and the external system.          *)
(*                                                                         *)
(* A pass is cut where it leaves the process: every write to the API       *)
(* server and every call of the provider is a step of its own, and between *)
(* two steps users edit the object, the cache catches up, time passes or   *)
(* the process dies.  The branches taken between two calls are the guards  *)
(* of the step that makes the next call.                                   *)
(***************************************************************************)
EXTENDS Integers, FiniteSets, Meta

CONSTANTS
  Timeout,             \* ticks in which a pass ends: its context's deadline
  CreationGrace,       \* WithCreationGracePeriod
  RecoveryGrace,       \* WithCreateRecoveryGracePeriod
  ReobserveInterval,   \* WithCreateRecoveryReobserveInterval
  PollInterval,        \* WithPollInterval
  PollJitter,          \* WithPollJitterHook
  RetryDelay,          \* the least delay of the workqueue's rate limiter
  DeferDelays,         \* what RequeueAfter of a deferral may be
  PassGap,             \* the least time between two passes
  RestartDelay,        \* the least time from a crash to the next pass
  MaxTries,            \* Steps of retry.DefaultRetry
  Deferrals,           \* the deferrals the governor may answer; {}: no governor
  VisibilityLag,       \* how long a created resource may stay unobservable
  NamedByServer,       \* the external system names what it creates
  AmbiguousCreate,     \* a Create that returned an error may have landed
  Crashes,             \* the process may crash
  LateInitializes,     \* Observe may late-initialize the spec
  InitialExternals,    \* how many external resources may exist at first
  UserEdits,           \* the kinds of edits users make
  MaxEdits, MaxFaults, MaxCreates, MaxTime  \* bounds

ASSUME ConstantsAssumption ==
  /\ {Timeout, CreationGrace, RecoveryGrace, ReobserveInterval, PollInterval, PollJitter,
      RetryDelay, PassGap, RestartDelay, MaxTries, VisibilityLag,
      MaxEdits, MaxFaults, MaxCreates, MaxTime} \subseteq Nat
  /\ {NamedByServer, AmbiguousCreate, Crashes, LateInitializes} \subseteq BOOLEAN
  /\ Deferrals \subseteq {"ramping", "deferred"}
  /\ DeferDelays \subseteq Nat
  /\ InitialExternals \subseteq {0, 1}
  /\ UserEdits \subseteq {"spec", "pause", "policy", "delete", "vanish"}

VARIABLES
  now,         \* the clock
  server,      \* the object as the API server stores it
  cached,      \* the object as the informer's cache holds it
  queued,      \* the workqueue holds the object, ready to be handed out
  delayed,     \* when the workqueue's delayed add falls due; 0: none
  notBefore,   \* the earliest start of the next pass
  pc,          \* what the running pass does next; "idle": no pass runs
  managed,     \* the pass's copy of the object
  pristine,    \* the object as the pass read it, kept for deferReconcile
  obs,         \* the ExternalObservation, with the resource it saw
  unresolved,  \* unresolvedCreate
  crit,        \* the write of critical annotations under way
  ret,         \* the result to return once the status is written
  deadline,    \* when the pass's context expires
  ext,         \* the external resources that exist
  inflight,    \* Create requests of a dead process that may still land
  created,     \* external resources created so far
  faults,      \* failed calls and crashes so far
  edits        \* user edits so far

queueVars    == <<queued, delayed, notBefore>>
passVars     == <<managed, pristine, obs, unresolved, crit, ret, deadline>>
externalVars == <<ext, inflight, created>>
vars == <<now, server, cached, queueVars, pc, passVars, externalVars, faults, edits>>

-----------------------------------------------------------------------------
\* The object.

ReadyReasons  == {"", "Available", "Unavailable", "Creating", "Deleting", "NotObserved"}
SyncedReasons == {"", "ReconcileSuccess", "ReconcileError", "ReconcilePaused", "ReconcileDeferred"}

Objects ==
  [exists  : BOOLEAN,        \* FALSE once the API server has dropped it
   rv      : Nat,            \* resourceVersion
   deleted : BOOLEAN,        \* it has a deletionTimestamp
   fin     : BOOLEAN,        \* it has the reconciler's finalizer
   spec    : Nat,            \* the version of the desired state
   late    : BOOLEAN,        \* the spec has been late-initialized
   ann     : Annotations,
   ready   : ReadyReasons,   \* reason of the Ready condition; "": not set
   synced  : SyncedReasons]  \* reason of the Synced condition

\* Mutant of SetConditions: each condition lands in the other's place.
SetConditionsSwapped(o, r, s) == [o EXCEPT !.ready = s, !.synced = r]

SetReady(o, r)         == [o EXCEPT !.ready = r]
SetSynced(o, s)        == [o EXCEPT !.synced = s]
SetConditions(o, r, s) == [o EXCEPT !.ready = r, !.synced = s]

NoAnnotations ==
  [pending |-> 0, succeeded |-> 0, failed |-> 0, name |-> 0, mgmt |-> "", del |-> "", paused |-> ""]

\* What a Go variable holds before the pass assigns it.
NoObject ==
  [exists |-> FALSE, rv |-> 0, deleted |-> FALSE, fin |-> FALSE, spec |-> 0, late |-> FALSE,
   ann |-> NoAnnotations, ready |-> "", synced |-> ""]

Observations   == [exists : BOOLEAN, upToDate : BOOLEAN, late : BOOLEAN, id : Nat]
NoObservation  == [exists |-> FALSE, upToDate |-> FALSE, late |-> FALSE, id |-> 0]

\* for: whose stamp is written; conflict: the Create error it follows was a conflict.
CriticalWrites == [for : {"adopt", "failed", "succeeded", ""}, ann : Annotations, tries : Nat, conflict : BOOLEAN]
NoCritical     == [for |-> "", ann |-> NoAnnotations, tries |-> 0, conflict |-> FALSE]

-----------------------------------------------------------------------------
\* The API server, from how client.Client is used.

\* ok: stored; conflict: the resourceVersion is old; notfound: the object is gone;
\* error: not stored; lost: stored, but the caller gets an error.
Replies    == {"ok", "conflict", "notfound", "error", "lost"}
Stores(r)  == r \in {"ok", "lost"}
IsFault(r) == r \in {"error", "lost"}

CountFault(isFault) == /\ isFault => faults < MaxFaults
                       /\ faults' = IF isFault THEN faults + 1 ELSE faults

MayReply(o, r) ==
  /\ Stores(r) => server.exists /\ o.rv = server.rv
  /\ r = "conflict" => server.exists /\ o.rv # server.rv
  /\ r = "notfound" => ~server.exists

\* The stored object after a write of new: nothing changes if nothing differs,
\* and a deleted object goes with its finalizer.
Bump(new) ==
  IF new = server THEN server
  ELSE [new EXCEPT !.rv = server.rv + 1, !.exists = new.fin \/ ~new.deleted]

\* Update keeps the stored status, Status().Update keeps all else.
Stored(o)       == Bump(SetConditions(o, server.ready, server.synced))
StatusStored(o) == Bump(SetConditions(server, o.ready, o.synced))

\* The reply is decoded into the object that was sent: a stored status replaces
\* its status, an absent one leaves it.
Decoded(o, reply) ==
  IF reply.ready = "" /\ reply.synced = "" THEN SetConditions(reply, o.ready, o.synced) ELSE reply

ClientUpdate(o, r) ==
  /\ MayReply(o, r)
  /\ CountFault(IsFault(r))
  /\ server' = IF Stores(r) THEN Stored(o) ELSE server

Updated(o, r) == IF r = "ok" THEN Decoded(o, Stored(o)) ELSE o

-----------------------------------------------------------------------------
\* The workqueue, from how controller-runtime maps a Result to it, and the pass.

\* The jitter hook adds a random part of either sign to the poll interval.
NoRequeue      == [kind |-> "none", after |-> 0]
RateLimited    == [kind |-> "requeue", after |-> RetryDelay]
Errored        == [kind |-> "error", after |-> RetryDelay]
Reobserve      == [kind |-> "reobserve", after |-> ReobserveInterval]
Polls          == {[kind |-> "poll", after |-> PollInterval + j] : j \in -PollJitter..PollJitter}
DeferredFor(d) == [kind |-> "defer", after |-> d]

Results == {NoRequeue, RateLimited, Errored, Reobserve} \cup Polls \cup {DeferredFor(d) : d \in DeferDelays}

\* A Result that carries no positive RequeueAfter is no requeue.
Dropped(res) == res.kind = "none" \/ (res.kind \in {"reobserve", "poll", "defer"} /\ res.after <= 0)

AddAfter(t) == IF delayed = 0 \/ t < delayed THEN t ELSE delayed

Steps == {"idle", "release", "connect", "observe", "resolve", "decide", "act", "create",
          "critical", "status"}

ForgetPass ==
  /\ pc' = "idle"
  /\ managed' = NoObject
  /\ pristine' = NoObject
  /\ obs' = NoObservation
  /\ unresolved' = FALSE
  /\ crit' = NoCritical
  /\ ret' = NoRequeue
  /\ deadline' = 0

Return(res) ==
  /\ ForgetPass
  /\ delayed' = IF Dropped(res) THEN delayed ELSE AddAfter(now + res.after)
  /\ notBefore' = now + PassGap
  /\ UNCHANGED queued

GoOn(step, m) ==
  /\ pc' = step
  /\ managed' = m
  /\ UNCHANGED <<pristine, obs, unresolved, crit, ret, deadline, queueVars>>

\* Write m's status, then return res.
Report(m, res) ==
  /\ pc' = "status"
  /\ managed' = m
  /\ ret' = res
  /\ UNCHANGED <<pristine, obs, unresolved, crit, deadline, queueVars>>

\* Write m's annotations with UpdateCriticalAnnotations, for the given purpose.
WriteCritical(m, for, conflict) ==
  /\ pc' = "critical"
  /\ managed' = m
  /\ crit' = [for |-> for, ann |-> m.ann, tries |-> 1, conflict |-> conflict]
  /\ UNCHANGED <<pristine, obs, unresolved, ret, deadline, queueVars>>

-----------------------------------------------------------------------------
\* The external system, from what the ExternalClient interface promises.

Externals == [id : Nat, visibleAt : Nat, spec : Nat]

\* What Observe finds for o: by its external name where the server assigns it.
Observable(o) ==
  {e \in ext : e.visibleAt <= now /\ (NamedByServer => e.id = o.ann.name)}

Land(spec, lag) ==
  /\ created < MaxCreates
  /\ created' = created + 1
  /\ ext' = ext \cup {[id |-> created + 1, visibleAt |-> now + lag, spec |-> spec]}

-----------------------------------------------------------------------------
\* The start of a pass.

Dequeue ==
  /\ pc = "idle"
  /\ now >= notBefore
  /\ queued \/ (delayed # 0 /\ delayed <= now)
  /\ queued' = FALSE
  /\ delayed' = IF delayed <= now THEN 0 ELSE delayed

BeginPass(step, m) ==
  /\ Dequeue
  /\ pc' = step
  /\ managed' = m
  /\ pristine' = IF Deferrals = {} THEN NoObject ELSE m
  /\ unresolved' = ExternalCreateIncomplete(m.ann)
  /\ deadline' = now + Timeout
  /\ UNCHANGED <<now, server, cached, notBefore, obs, crit, ret, externalVars, faults, edits>>

GetNotFound ==
  /\ Dequeue
  /\ ~cached.exists
  /\ UNCHANGED <<now, server, cached, notBefore, pc, passVars, externalVars, faults, edits>>

GetFails ==
  /\ pc = "idle"
  /\ now >= notBefore
  /\ queued \/ (delayed # 0 /\ delayed <= now)
  /\ CountFault(TRUE)
  /\ queued' = FALSE
  /\ delayed' = LET left == IF delayed <= now THEN 0 ELSE delayed
                IN  IF left = 0 \/ now + RetryDelay < left THEN now + RetryDelay ELSE left
  /\ notBefore' = now + PassGap
  /\ UNCHANGED <<now, server, cached, pc, passVars, externalVars, edits>>

GetPaused ==
  /\ cached.exists
  /\ IsPaused(cached.ann)
  /\ BeginPass("status", SetSynced(cached, "ReconcilePaused"))

GetOrphaned ==
  /\ cached.exists
  /\ ~IsPaused(cached.ann)
  /\ cached.deleted
  /\ ~ShouldDelete(cached.ann)
  /\ BeginPass("release", cached)

Get ==
  /\ cached.exists
  /\ ~IsPaused(cached.ann)
  /\ cached.deleted => ShouldDelete(cached.ann)
  /\ BeginPass("connect", cached)

-----------------------------------------------------------------------------
\* The middle of a pass.

ToDelete == /\ pc = "decide"
            /\ managed.deleted
            /\ obs.exists
            /\ ShouldDelete(managed.ann)

\* Mutant of ToCreate: Create is taken up before the finalizer is added.
ToCreateUnfinalized == pc \in {"decide", "act"} /\ ~obs.exists /\ ~managed.deleted /\ ShouldCreate(managed.ann)

ToCreate == pc = "act" /\ ~obs.exists /\ ShouldCreate(managed.ann)

ToUpdate == /\ pc = "act"
            /\ ~ToCreate
            /\ ~obs.late
            /\ ~obs.upToDate
            /\ ShouldUpdate(managed.ann)

\* Mutant of AtGate: the gate of Create is asked after the pending stamp is written.
AtGateAfterStamp == pc \in {"connect", "observe", "create"} \/ ToDelete \/ ToUpdate

\* The steps whose next call asks the governor first.
AtGate == pc \in {"connect", "observe"} \/ ToDelete \/ ToCreate \/ ToUpdate

\* Mutant of DeferFor: the deferral carries no RequeueAfter.
DeferForForgotten(reason, d) ==
  LET m == IF reason = "ramping" THEN managed ELSE SetSynced(managed, "ReconcileDeferred")
  IN  /\ AtGate
      /\ \/ m = pristine /\ Return(NoRequeue)
         \/ /\ m # pristine \/ reason = "deferred"
            /\ Report(m, NoRequeue)
      /\ UNCHANGED <<now, server, cached, externalVars, faults, edits>>

\* The next call is deferred for d.  A ramping deferral is quiet; both skip a status write
\* that would change nothing.
DeferFor(reason, d) ==
  LET m == IF reason = "ramping" THEN managed ELSE SetSynced(managed, "ReconcileDeferred")
  IN  /\ AtGate
      /\ \/ m = pristine /\ Return(DeferredFor(d))
         \/ /\ m # pristine \/ reason = "deferred"  \* a new deadline is a new message
            /\ Report(m, DeferredFor(d))
      /\ UNCHANGED <<now, server, cached, externalVars, faults, edits>>

\* The governor may defer any call it gates.
DeferReconcile == \E reason \in Deferrals, d \in DeferDelays : DeferFor(reason, d)

MarkNotObserved(m) ==
  IF m.deleted \/ m.ready = "Deleting" THEN SetReady(m, "Deleting") ELSE SetReady(m, "NotObserved")

Connect ==
  /\ pc = "connect"
  /\ \/ GoOn("observe", managed) /\ CountFault(FALSE)
     \/ Return(RateLimited) /\ CountFault(TRUE)                            \* a conflict
     \/ /\ \E m \in {MarkNotObserved(managed), SetReady(managed, "Unavailable")} :
             Report(SetSynced(m, "ReconcileError"), Errored)
        /\ CountFault(TRUE)
  /\ UNCHANGED <<now, server, cached, externalVars, edits>>

\* A successful Observe sets Ready, whatever it found.
ObserveMissing ==
  /\ pc = "observe"
  /\ Observable(managed) = {}
  /\ obs' = NoObservation
  /\ pc' = IF unresolved /\ ~managed.deleted THEN "resolve" ELSE "decide"
  /\ managed' = SetReady(managed, "Unavailable")
  /\ UNCHANGED <<now, server, cached, queueVars, pristine, unresolved, crit, ret, deadline,
                 externalVars, faults, edits>>

ObserveFound ==
  /\ pc = "observe"
  /\ \E e \in Observable(managed), late \in {FALSE, LateInitializes /\ ~managed.late} :
       /\ obs' = [exists |-> TRUE, upToDate |-> e.spec = managed.spec, late |-> late, id |-> e.id]
       /\ managed' = [SetReady(managed, "Available") EXCEPT !.late = @ \/ late]
  /\ pc' = IF unresolved THEN "resolve" ELSE "decide"
  /\ UNCHANGED <<now, server, cached, queueVars, pristine, unresolved, crit, ret, deadline,
                 externalVars, faults, edits>>

\* Observe fails, after setting Ready itself (ReadyAssessed) or not.
ObserveFails ==
  /\ pc = "observe"
  /\ CountFault(TRUE)
  /\ \/ Return(RateLimited)                                                \* a conflict
     \/ \E m \in {MarkNotObserved(managed), SetReady(managed, "Unavailable")} :
          Report(SetSynced(m, "ReconcileError"), Errored)
  /\ UNCHANGED <<now, server, cached, externalVars, edits>>

\* The unresolved create is there: close its handshake.
AdoptCreate ==
  /\ pc = "resolve"
  /\ obs.exists
  /\ WriteCritical([managed EXCEPT !.ann = SetExternalCreateSucceeded(@, now)], "adopt", FALSE)
  /\ UNCHANGED <<now, server, cached, externalVars, faults, edits>>

\* It is not there yet: wait out the recovery grace period.
AwaitRecovery ==
  /\ pc = "resolve"
  /\ ~obs.exists
  /\ ExternalCreatePendingDuring(managed.ann, now, RecoveryGrace)
  /\ Report(SetConditions(managed, "Creating", "ReconcileError"), Reobserve)
  /\ UNCHANGED <<now, server, cached, externalVars, faults, edits>>

\* It is not there and the period is over: take it as never landed.
ClearPending ==
  /\ pc = "resolve"
  /\ ~obs.exists
  /\ ~ExternalCreatePendingDuring(managed.ann, now, RecoveryGrace)
  /\ \E r \in Replies :
       LET o == [managed EXCEPT !.ann = RemovePending(@)]
       IN  /\ ClientUpdate(o, r)
           /\ \/ r = "ok" /\ GoOn("decide", Updated(o, r))
              \/ r = "conflict" /\ Return(RateLimited)
              \/ r \notin {"ok", "conflict"} /\ Return(Errored)
  /\ UNCHANGED <<now, cached, externalVars, edits>>

MissingOnlyObserved == ~obs.exists /\ ShouldOnlyObserve(managed.ann)
AwaitingVisibility ==
  ~obs.exists /\ ExternalCreateSucceededDuring(managed.ann, now, CreationGrace)

ReportMissing ==
  /\ pc = "decide"
  /\ MissingOnlyObserved
  /\ Report(SetSynced(managed, "ReconcileError"), Errored)
  /\ UNCHANGED <<now, server, cached, externalVars, faults, edits>>

AwaitVisibility ==
  /\ pc = "decide"
  /\ ~MissingOnlyObserved
  /\ AwaitingVisibility
  /\ Return(RateLimited)
  /\ UNCHANGED <<now, server, cached, externalVars, faults, edits>>

Delete ==
  /\ ToDelete
  /\ \E gone \in SUBSET {e \in ext : e.id = obs.id} : ext' = ext \ gone
  /\ \/ /\ Report(SetConditions(managed, "Deleting", "ReconcileSuccess"), RateLimited)
        /\ CountFault(FALSE)
     \/ /\ Report(SetConditions(managed, "Deleting", "ReconcileError"), Errored)
        /\ CountFault(TRUE)
  /\ UNCHANGED <<now, server, cached, inflight, created, edits>>

\* Mutant of ToRelease: the finalizer of a deleted object goes, whatever Observe found.
ToReleaseUnchecked ==
  pc = "release" \/ (pc = "decide" /\ managed.deleted /\ ~MissingOnlyObserved /\ ~AwaitingVisibility)

\* A deleted object whose external resource is gone, or is to be orphaned.
ToRelease == \/ pc = "release"
             \/ /\ pc = "decide"
                /\ managed.deleted
                /\ ~ToDelete
                /\ ~MissingOnlyObserved
                /\ ~AwaitingVisibility

RemoveFinalizer ==
  /\ ToRelease
  /\ \/ ~managed.fin /\ Return(NoRequeue) /\ UNCHANGED <<server, faults>>
     \/ /\ managed.fin
        /\ \E r \in Replies :
             LET o == [managed EXCEPT !.fin = FALSE]
             IN  /\ ClientUpdate(o, r)
                 /\ \/ r \in {"ok", "notfound"} /\ Return(NoRequeue)
                    \/ r = "conflict" /\ Return(RateLimited)
                    \/ IsFault(r) /\ Report(SetConditions(o, "Deleting", "ReconcileError"), Errored)
  /\ UNCHANGED <<now, cached, externalVars, edits>>

AddFinalizer ==
  /\ pc = "decide"
  /\ ~managed.deleted
  /\ ~MissingOnlyObserved
  /\ ~AwaitingVisibility
  /\ \/ managed.fin /\ GoOn("act", managed) /\ UNCHANGED <<server, faults>>
     \/ /\ ~managed.fin
        /\ \E r \in Replies :
             LET o == [managed EXCEPT !.fin = TRUE]
             IN  /\ ClientUpdate(o, r)
                 /\ \/ r = "ok" /\ GoOn("act", Updated(o, r))
                    \/ r = "conflict" /\ Return(RateLimited)
                    \/ /\ r \notin {"ok", "conflict"}
                       /\ Report(SetSynced(o, "ReconcileError"), Errored)
  /\ UNCHANGED <<now, cached, externalVars, edits>>

\* Mutant of BeginCreate: a conflict does not stop the pass.
BeginCreateDespiteConflict ==
  /\ ToCreate
  /\ \E r \in Replies :
       LET o == [managed EXCEPT !.ann = SetExternalCreatePending(@, now)]
       IN  /\ ClientUpdate(o, r)
           /\ \/ r \in {"ok", "conflict"} /\ GoOn("create", Updated(o, r))
              \/ /\ r \notin {"ok", "conflict"}
                 /\ Report(SetConditions(o, "Creating", "ReconcileError"), Errored)
  /\ UNCHANGED <<now, cached, externalVars, edits>>

\* Write the pending stamp on the version this pass read; only then may Create run.
BeginCreate ==
  /\ ToCreate
  /\ \E r \in Replies :
       LET o == [managed EXCEPT !.ann = SetExternalCreatePending(@, now)]
       IN  /\ ClientUpdate(o, r)
           /\ \/ r = "ok" /\ GoOn("create", Updated(o, r))
              \/ r = "conflict" /\ Return(RateLimited)
              \/ /\ r \notin {"ok", "conflict"}
                 /\ Report(SetConditions(o, "Creating", "ReconcileError"), Errored)
  /\ UNCHANGED <<now, cached, externalVars, edits>>

CreateSucceeds ==
  /\ pc = "create"
  /\ \E lag \in 0..VisibilityLag : Land(managed.spec, lag)
  /\ LET named == IF NamedByServer THEN SetExternalName(managed.ann, created + 1) ELSE managed.ann
     IN  WriteCritical([managed EXCEPT !.ann = SetExternalCreateSucceeded(named, now)],
                       "succeeded", FALSE)
  /\ UNCHANGED <<now, server, cached, inflight, faults, edits>>

CreateFails ==
  /\ pc = "create"
  /\ \/ UNCHANGED <<ext, created>>
     \/ AmbiguousCreate /\ \E lag \in 0..VisibilityLag : Land(managed.spec, lag)
  /\ \E conflict \in BOOLEAN :
       WriteCritical([managed EXCEPT !.ann = SetExternalCreateFailed(@, now)], "failed", conflict)
  /\ UNCHANGED <<now, server, cached, inflight, faults, edits>>

\* What the pass does once UpdateCriticalAnnotations has returned.
AfterCritical(m, written) ==
  \/ crit.for = "adopt" /\ written /\ GoOn("decide", m)
  \/ crit.for = "adopt" /\ ~written /\ Return(Errored)
  \/ crit.for = "failed" /\ crit.conflict /\ Return(RateLimited)
  \/ crit.for = "failed" /\ ~crit.conflict
     /\ Report(SetConditions(m, "Creating", "ReconcileError"), Errored)
  \/ crit.for = "succeeded" /\ written
     /\ Report(SetConditions(m, "Creating", "ReconcileSuccess"), RateLimited)
  \/ crit.for = "succeeded" /\ ~written
     /\ Report(SetConditions(m, "Creating", "ReconcileError"), Errored)

\* Mutant of UpdateCriticalAnnotations: the pass's own copy is written over the object read.
UpdateCriticalAnnotationsBlind ==
  /\ pc = "critical"
  /\ \E r \in Replies :
       LET o == [managed EXCEPT !.rv = cached.rv, !.ann = AddAnnotations(@, crit.ann)]
           m == IF cached.exists THEN Updated(o, r) ELSE managed
       IN  /\ IF cached.exists THEN ClientUpdate(o, r) ELSE r = "notfound" /\ UNCHANGED <<server, faults>>
           /\ AfterCritical(m, r = "ok")
  /\ UNCHANGED <<now, cached, externalVars, edits>>

\* One try: read the object from the cache, add the captured annotations, update.
\* Every error that the API server answered with is retried, and no other: an
\* "error" or a "lost" reply may be either, so a try after it is a choice, while
\* a conflict and a missing object always are the server's answer.
UpdateCriticalAnnotations ==
  /\ pc = "critical"
  /\ \E r \in Replies :
       LET o == [cached EXCEPT !.ann = AddAnnotations(@, crit.ann)]
           m == IF cached.exists THEN Updated(o, r) ELSE managed
       IN  /\ IF cached.exists THEN ClientUpdate(o, r) ELSE r = "notfound" /\ UNCHANGED <<server, faults>>
           /\ \/ r = "ok" /\ AfterCritical(m, TRUE)
              \/ r # "ok" /\ (crit.tries >= MaxTries \/ IsFault(r)) /\ AfterCritical(m, FALSE)
              \/ /\ r # "ok" /\ crit.tries < MaxTries
                 /\ managed' = m
                 /\ crit' = [crit EXCEPT !.tries = @ + 1]
                 /\ UNCHANGED <<pc, pristine, obs, unresolved, ret, deadline, queueVars>>
  /\ UNCHANGED <<now, cached, externalVars, edits>>

LateInitialize ==
  /\ pc = "act"
  /\ ~ToCreate
  /\ obs.late
  /\ \E r \in Replies :
       /\ ClientUpdate(managed, r)
       /\ \/ /\ r = "ok"
             /\ managed' = Updated(managed, r)
             /\ obs' = [obs EXCEPT !.late = FALSE]
             /\ UNCHANGED <<pc, pristine, unresolved, crit, ret, deadline, queueVars>>
          \/ r = "conflict" /\ Return(RateLimited)
          \/ r \notin {"ok", "conflict"} /\ Report(SetSynced(managed, "ReconcileError"), Errored)
  /\ UNCHANGED <<now, cached, externalVars, edits>>

\* Mutant of NothingToDo: the pass settles for what Observe found.
NothingToDoUnchecked ==
  /\ pc = "act"
  /\ ~ToCreate
  /\ ~obs.late
  /\ \E res \in Polls : Report(SetSynced(managed, "ReconcileSuccess"), res)
  /\ UNCHANGED <<now, server, cached, externalVars, faults, edits>>

\* Up to date, or the policy forbids the update.
NothingToDo ==
  /\ pc = "act"
  /\ ~ToCreate
  /\ ~obs.late
  /\ obs.upToDate \/ ~ShouldUpdate(managed.ann)
  /\ \E res \in Polls : Report(SetSynced(managed, "ReconcileSuccess"), res)
  /\ UNCHANGED <<now, server, cached, externalVars, faults, edits>>

Update ==
  /\ ToUpdate
  /\ \/ /\ ext' = {IF e.id = obs.id THEN [e EXCEPT !.spec = managed.spec] ELSE e : e \in ext}
        /\ \E res \in Polls : Report(SetSynced(managed, "ReconcileSuccess"), res)
        /\ CountFault(FALSE)
     \/ /\ UNCHANGED ext
        /\ Report(SetSynced(managed, "ReconcileError"), Errored)
        /\ CountFault(TRUE)
  /\ UNCHANGED <<now, server, cached, inflight, created, edits>>

StatusUpdate ==
  /\ pc = "status"
  /\ \E r \in Replies :
       /\ MayReply(managed, r)
       /\ CountFault(IsFault(r))
       /\ server' = IF Stores(r) THEN StatusStored(managed) ELSE server
       /\ Return(IF r = "ok" THEN ret ELSE Errored)
  /\ UNCHANGED <<now, cached, externalVars, edits>>

-----------------------------------------------------------------------------
\* The environment.

\* The process dies; its successor lists the objects and queues each.  A Create
\* request on the wire may still land until the dead pass's deadline.
Crash ==
  /\ Crashes
  /\ CountFault(TRUE)
  /\ ForgetPass
  /\ queued' = TRUE
  /\ delayed' = 0
  /\ notBefore' = now + RestartDelay
  /\ \/ UNCHANGED inflight
     \/ pc = "create" /\ inflight' = inflight \cup {[until |-> deadline, spec |-> managed.spec]}
  /\ UNCHANGED <<now, server, cached, ext, created, edits>>

LandLate ==
  /\ \E c \in inflight, lag \in 0..VisibilityLag :
       /\ Land(c.spec, lag)
       /\ inflight' = inflight \ {c}
  /\ UNCHANGED <<now, server, cached, queueVars, pc, passVars, faults, edits>>

\* The cache catches up, and its event queues the object.
CacheSync ==
  /\ cached # server
  /\ cached' = server
  /\ queued' = TRUE
  /\ UNCHANGED <<now, server, delayed, notBefore, pc, passVars, externalVars, faults, edits>>

Edit(kind) == /\ kind \in UserEdits
              /\ edits < MaxEdits
              /\ edits' = edits + 1
              /\ UNCHANGED <<now, cached, queueVars, pc, passVars, inflight, created, faults>>

EditObject(kind, new) ==
  /\ server.exists
  /\ new # server
  /\ server' = Bump(new)
  /\ UNCHANGED ext
  /\ Edit(kind)

EditSpec   == EditObject("spec", [server EXCEPT !.spec = @ + 1])
EditPause  == \E p \in {"", "true"} : EditObject("pause", [server EXCEPT !.ann.paused = p])
EditPolicy == \E d \in {"delete", "orphan"} : EditObject("policy", [server EXCEPT !.ann.del = d])
DeleteObject == EditObject("delete", [server EXCEPT !.deleted = TRUE])

\* Someone else deletes the external resource.
ExternalVanishes ==
  /\ Edit("vanish")
  /\ \E e \in ext : ext' = ext \ {e}
  /\ UNCHANGED server

\* A running pass ends by its deadline.
Tick ==
  /\ now < MaxTime
  /\ pc # "idle" => now < deadline
  /\ now' = now + 1
  /\ inflight' = {c \in inflight : now < c.until}
  /\ UNCHANGED <<server, cached, queueVars, pc, passVars, ext, created, faults, edits>>

\* The end of the modelled time.
Horizon == now = MaxTime /\ pc = "idle" /\ UNCHANGED vars

-----------------------------------------------------------------------------
CONSTANTS InitialManagement, InitialDeletion  \* the policies an object may start with

ASSUME InitialPoliciesAssumption ==
  InitialManagement \subseteq ManagementPolicies /\ InitialDeletion \subseteq DeletionPolicies

Init ==
  /\ now = TicksPerSecond
  /\ created \in InitialExternals
  /\ ext = {e \in {[id |-> 1, visibleAt |-> 0, spec |-> 0]} : created = 1}
  /\ \E mgmt \in InitialManagement, del \in InitialDeletion :
       server = [NoObject EXCEPT !.exists = TRUE, !.rv = 1,
                   !.ann = [NoAnnotations EXCEPT !.mgmt = mgmt, !.del = del,
                              !.name = IF NamedByServer THEN created ELSE 0]]
  /\ cached = server
  /\ queued = TRUE
  /\ delayed = 0
  /\ notBefore = 0
  /\ pc = "idle"
  /\ managed = NoObject
  /\ pristine = NoObject
  /\ obs = NoObservation
  /\ unresolved = FALSE
  /\ crit = NoCritical
  /\ ret = NoRequeue
  /\ deadline = 0
  /\ inflight = {}
  /\ faults = 0
  /\ edits = 0

Reconcile ==
  \/ GetNotFound \/ GetFails \/ GetPaused \/ GetOrphaned \/ Get
  \/ DeferReconcile \/ Connect \/ ObserveMissing \/ ObserveFound \/ ObserveFails
  \/ AdoptCreate \/ AwaitRecovery \/ ClearPending
  \/ ReportMissing \/ AwaitVisibility \/ Delete \/ RemoveFinalizer \/ AddFinalizer
  \/ BeginCreate \/ CreateSucceeds \/ CreateFails \/ UpdateCriticalAnnotations
  \/ LateInitialize \/ NothingToDo \/ Update \/ StatusUpdate

Environment ==
  \/ Crash \/ LandLate \/ CacheSync
  \/ EditSpec \/ EditPause \/ EditPolicy \/ DeleteObject \/ ExternalVanishes
  \/ Tick

Next == Reconcile \/ Environment \/ Horizon

Spec == Init /\ [][Next]_vars

-----------------------------------------------------------------------------
\* Properties.

QueueTyped == /\ queued \in BOOLEAN
              /\ delayed \in Nat
              /\ notBefore \in Nat

PassTyped == /\ pc \in Steps
             /\ managed \in Objects
             /\ pristine \in Objects
             /\ obs \in Observations
             /\ unresolved \in BOOLEAN
             /\ crit \in CriticalWrites
             /\ ret \in Results
             /\ deadline \in Nat

WorldTyped == /\ now \in Nat
              /\ server \in Objects
              /\ cached \in Objects
              /\ ext \in SUBSET Externals
              /\ inflight \in SUBSET [until : Nat, spec : Nat]
              /\ created \in Nat
              /\ faults \in Nat
              /\ edits \in Nat

\* Every variable has its type: the pass, the queue, and the world around them.
TypeOK == PassTyped /\ QueueTyped /\ WorldTyped

\* The external system never holds two resources for one object: neither a crash around
\* Create, nor a lost reply of the API server, nor a stale cache, nor a resource that is not
\* observable yet makes a later pass create again.  (The create handshake of Reconcile.)
NoDuplicate == Cardinality(ext) <= 1

\* While Create runs, the API server's copy shows an unresolved handshake, so that a pass
\* after a crash asks Observe about it.  (SetExternalCreatePending before Create.)
CreateDetectable == pc = "create" => ExternalCreateIncomplete(server.ann)

\* Create only runs for an object that is still stored, whose finalizer is stored, and whose
\* pending stamp is the one this pass wrote: a pass that read a stale copy never gets there.
CreateMarked ==
  pc = "create" => /\ server.exists
                   /\ server.fin
                   /\ server.ann.pending = managed.ann.pending
                   /\ server.ann.pending # ZeroTime

\* An object that a delete policy governs goes only after its external resource is gone: the
\* finalizer is released by a pass that observed the absence of every resource created.
NoLeak == ~server.exists /\ ShouldDelete(server.ann) => ext = {}

\* External resources are only ever made for an object that holds the finalizer, so a delete
\* of the object cannot outrun the reconciler.
OwnedIsFinalized == created > 0 /\ server.exists => server.fin

\* When no pass is due and the cache is current, the object is gone or paused: no early
\* return drops an object that still has work to do.
NeverStranded ==
  pc = "idle" /\ ~queued /\ delayed = 0 /\ cached = server
    => ~server.exists \/ IsPaused(server.ann)

\* A deferral ends the pass without leaving an unresolved create handshake behind that the
\* pass did not find: the gate is asked before the pending stamp is written.
DeferralLeavesNoHandshake ==
  pc = "status" /\ ret.kind = "defer"
    => (ExternalCreateIncomplete(managed.ann) => ExternalCreateIncomplete(pristine.ann))

\* The pass adopted a create that Observe found up to date: it has read the object again since,
\* so its copy may hold a newer spec than the one that was compared.
StaleAdoption == crit.for = "adopt" /\ obs.upToDate

\* A pass that found the external resource and stores ReconcileSuccess has seen or made it
\* match the spec that is stored with that status, unless the policy forbids updates.  The one
\* exception is a pass that adopts an unresolved create: an edit that it reads and does not
\* compare is left to the pass that the edit itself has queued.
SuccessMeansApplied ==
  [][/\ pc = "status" /\ pc' = "idle"
     /\ ret.kind = "poll"
     /\ server' # server
     /\ ~StaleAdoption
     => ~ShouldUpdate(server.ann) \/ \E e \in ext : e.id = obs.id /\ e.spec = server.spec]_vars

\* Only users change the spec.  No write of a pass sets an edit of theirs back: not one from a
\* stale copy, and not the critical annotations, which are merged, again after each conflict,
\* into an object that is newer than the rest of the pass.
EditsSurvive == [][server'.spec # server.spec => edits' # edits]_vars

\* A pass that ends in ReconcileSuccess has observed the resource, so Ready is not left at the
\* NotObserved marker of an earlier failure.
ReadyFollowsObserve == ~(server.synced = "ReconcileSuccess" /\ server.ready = "NotObserved")

\* Seen from outside, stamps, grace periods, recovery and crashes are the handshake of
\* CreateHandshake: it is open before a request is sent, and it is closed, by a stamp or by
\* the recovery, only when no request of a live or a dead pass can land any more.
Handshake == INSTANCE CreateHandshake WITH
  open      <- ExternalCreateIncomplete(server.ann),
  wire      <- pc = "create" \/ inflight # {},
  resources <- Cardinality(ext)

HandshakeSpec == Handshake!Spec
===============================================================================
