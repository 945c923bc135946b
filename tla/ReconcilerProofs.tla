--------------------------- MODULE ReconcilerProofs ---------------------------
(***************************************************************************)
(* Proofs about Reconciler, for every timing, policy, fault and edit       *)
(* bound: its types, that Create only runs under a stored pending stamp,   *)
(* what a deferral leaves behind, that no object is dropped, and that no   *)
(* resource is without the finalizer.                                      *)
(***************************************************************************)
EXTENDS Reconciler, TLAPS

\* The constants that are numbers.
LEMMA ConstantTypes ==
  /\ Timeout \in Nat /\ CreationGrace \in Nat /\ RecoveryGrace \in Nat
  /\ ReobserveInterval \in Nat /\ PollInterval \in Nat /\ PollJitter \in Nat /\ RetryDelay \in Nat
  /\ DeferDelays \subseteq Nat /\ PassGap \in Nat /\ RestartDelay \in Nat /\ MaxTries \in Nat
  /\ VisibilityLag \in Nat /\ MaxFaults \in Nat
BY ConstantsAssumption

-----------------------------------------------------------------------------
\* Annotations and objects.

\* A formatted time is a time.
LEMMA FormattedTyped == \A t \in Nat : RFC3339(t) \in Nat /\ RFC3339(t) <= t
<1> SUFFICES ASSUME NEW t \in Nat PROVE RFC3339(t) \in Nat /\ RFC3339(t) <= t
  OBVIOUS
<1>1. TicksPerSecond \in Nat /\ TicksPerSecond > 0
  BY TicksPerSecondAssumption
<1>2. t % TicksPerSecond \in Nat /\ t % TicksPerSecond <= t
  BY <1>1
<1> QED
  BY <1>2 DEF RFC3339

\* From the first second on, a formatted time is not the zero time.
LEMMA FormattedPositive == \A t \in Nat : t >= TicksPerSecond => RFC3339(t) # ZeroTime
<1> SUFFICES ASSUME NEW t \in Nat, t >= TicksPerSecond PROVE RFC3339(t) # ZeroTime
  OBVIOUS
<1>1. TicksPerSecond \in Nat /\ TicksPerSecond > 0
  BY TicksPerSecondAssumption
<1>2. t % TicksPerSecond \in Nat /\ t % TicksPerSecond < TicksPerSecond
  BY <1>1
<1> QED
  BY <1>1, <1>2 DEF RFC3339, ZeroTime

\* The writes of pkg/meta keep the annotations typed.
LEMMA StampsTyped ==
  ASSUME NEW a \in Annotations, NEW t \in Nat
  PROVE  /\ SetExternalCreatePending(a, t) \in Annotations
         /\ SetExternalCreateSucceeded(a, t) \in Annotations
         /\ SetExternalCreateFailed(a, t) \in Annotations
         /\ SetExternalName(a, t) \in Annotations
         /\ RemovePending(a) \in Annotations
BY FormattedTyped DEF Annotations, SetExternalCreatePending, SetExternalCreateSucceeded,
   SetExternalCreateFailed, SetExternalName, RemovePending, ZeroTime

\* AddAnnotations keeps the annotations typed.
LEMMA AddTyped ==
  ASSUME NEW a \in Annotations, NEW b \in Annotations
  PROVE  AddAnnotations(a, b) \in Annotations
BY DEF Annotations, AddAnnotations

\* Conditions are the only fields SetConditions writes.
LEMMA ConditionsTyped ==
  ASSUME NEW o \in Objects, NEW r \in ReadyReasons, NEW s \in SyncedReasons
  PROVE  /\ SetReady(o, r) \in Objects
         /\ SetSynced(o, s) \in Objects
         /\ SetConditions(o, r, s) \in Objects
BY DEF Objects, SetReady, SetSynced, SetConditions

\* An object with other annotations is an object.
LEMMA AnnotatedTyped ==
  ASSUME NEW o \in Objects, NEW a \in Annotations
  PROVE  [o EXCEPT !.ann = a] \in Objects
BY DEF Objects

\* What the API server stores and answers is an object.
LEMMA BumpTyped ==
  ASSUME NEW new \in Objects, server \in Objects
  PROVE  Bump(new) \in Objects
<1>1. server.rv + 1 \in Nat
  BY DEF Objects
<1>2. (new.fin \/ ~new.deleted) \in BOOLEAN
  OBVIOUS
<1>3. \A n \in Nat, b \in BOOLEAN : [new EXCEPT !.rv = n, !.exists = b] \in Objects
  BY DEF Objects
<1> QED
  BY <1>1, <1>2, <1>3 DEF Bump

\* Update and Status().Update store an object.
LEMMA StoredTyped ==
  ASSUME NEW o \in Objects, server \in Objects
  PROVE  Stored(o) \in Objects /\ StatusStored(o) \in Objects
<1>1. server.ready \in ReadyReasons /\ server.synced \in SyncedReasons
  BY DEF Objects
<1>2. o.ready \in ReadyReasons /\ o.synced \in SyncedReasons
  BY DEF Objects
<1>3. SetConditions(o, server.ready, server.synced) \in Objects
  BY <1>1, ConditionsTyped
<1>4. SetConditions(server, o.ready, o.synced) \in Objects
  BY <1>2, ConditionsTyped
<1> QED
  BY <1>3, <1>4, BumpTyped DEF Stored, StatusStored

\* The pass's copy is an object after an Update, whatever the reply.
LEMMA UpdatedTyped ==
  ASSUME NEW o \in Objects, NEW r \in Replies, server \in Objects
  PROVE  Updated(o, r) \in Objects
<1>1. Stored(o) \in Objects /\ o.ready \in ReadyReasons /\ o.synced \in SyncedReasons
  BY StoredTyped DEF Objects
<1>2. SetConditions(Stored(o), o.ready, o.synced) \in Objects
  BY <1>1, ConditionsTyped
<1> QED
  BY <1>1, <1>2 DEF Updated, Decoded

\* The count of faults stays a number.
LEMMA FaultsTyped ==
  ASSUME faults \in Nat, NEW b, CountFault(b)
  PROVE  faults' \in Nat
BY DEF CountFault

\* An Update leaves an object on the API server.
LEMMA ClientUpdateTyped ==
  ASSUME NEW o \in Objects, NEW r \in Replies, ClientUpdate(o, r), server \in Objects, faults \in Nat
  PROVE  server' \in Objects /\ faults' \in Nat
BY StoredTyped, FaultsTyped DEF ClientUpdate

\* The zero values of a pass are typed.
LEMMA NothingTyped == /\ NoObject \in Objects
                      /\ NoObservation \in Observations
                      /\ NoCritical \in CriticalWrites
BY DEF NoObject, NoObservation, NoCritical, NoAnnotations, Objects, Observations, CriticalWrites,
       Annotations, ReadyReasons, SyncedReasons, ManagementPolicies, DeletionPolicies

-----------------------------------------------------------------------------
\* The ways a step of a pass goes on.

\* Every way a pass ends is a result, and a result that is kept falls due in the future.
LEMMA ResultsTyped ==
  /\ NoRequeue \in Results /\ RateLimited \in Results /\ Errored \in Results
  /\ Reobserve \in Results /\ Polls \subseteq Results
  /\ \A d \in DeferDelays : DeferredFor(d) \in Results
BY DEF Results

LEMMA KeptResult ==
  ASSUME NEW res \in Results, ~Dropped(res)
  PROVE  res.after \in Nat
<1>1. CASE res \in {NoRequeue, RateLimited, Errored, Reobserve}
  BY <1>1, ConstantTypes DEF NoRequeue, RateLimited, Errored, Reobserve
<1>2. CASE res \in Polls
  <2>1. PICK j \in -PollJitter..PollJitter : res = [kind |-> "poll", after |-> PollInterval + j]
    BY <1>2 DEF Polls
  <2>2. res.kind = "poll" /\ res.after = PollInterval + j /\ res.after \in Int
    BY <2>1, ConstantTypes
  <2>3. ~(res.after <= 0)
    BY <2>2 DEF Dropped
  <2> QED BY <2>2, <2>3
<1>3. CASE res \in {DeferredFor(d) : d \in DeferDelays}
  BY <1>3, ConstantTypes DEF DeferredFor
<1> QED
  BY <1>1, <1>2, <1>3 DEF Results

\* The end of a pass, with any result, leaves pass and queue typed.
LEMMA ReturnTyped ==
  ASSUME TypeOK, NEW res \in Results, Return(res)
  PROVE  PassTyped' /\ QueueTyped'
<1>1. PassTyped'
  BY NothingTyped, ResultsTyped DEF Return, ForgetPass, PassTyped, Steps
<1>2. now \in Nat /\ now + PassGap \in Nat /\ delayed \in Nat
  BY ConstantTypes DEF TypeOK, WorldTyped, QueueTyped
<1>3. ASSUME ~Dropped(res)
      PROVE  AddAfter(now + res.after) \in Nat
  <2>1. now + res.after \in Nat
    BY <1>2, <1>3, KeptResult
  <2> QED BY <1>2, <2>1 DEF AddAfter
<1>4. delayed' \in Nat
  BY <1>2, <1>3 DEF Return
<1> QED
  BY <1>1, <1>2, <1>4 DEF Return, TypeOK, QueueTyped

\* Going on to the next call leaves pass and queue typed.
LEMMA GoOnTyped ==
  ASSUME TypeOK, NEW step \in Steps, NEW m \in Objects, GoOn(step, m)
  PROVE  PassTyped' /\ QueueTyped'
BY DEF GoOn, TypeOK, PassTyped, QueueTyped, queueVars

\* Going on to the status write leaves pass and queue typed.
LEMMA ReportTyped ==
  ASSUME TypeOK, NEW m \in Objects, NEW res \in Results, Report(m, res)
  PROVE  PassTyped' /\ QueueTyped'
BY DEF Report, TypeOK, PassTyped, QueueTyped, queueVars, Steps

\* Going on to the critical annotation write leaves pass and queue typed.
LEMMA WriteCriticalTyped ==
  ASSUME TypeOK, NEW m \in Objects, NEW for \in {"adopt", "failed", "succeeded"},
         NEW conflict \in BOOLEAN, WriteCritical(m, for, conflict)
  PROVE  PassTyped' /\ QueueTyped'
<1>1. [for |-> for, ann |-> m.ann, tries |-> 1, conflict |-> conflict] \in CriticalWrites
  BY DEF CriticalWrites, Objects
<1> QED
  BY <1>1 DEF WriteCritical, TypeOK, PassTyped, QueueTyped, queueVars, Steps

\* A Create that lands makes an external resource.
LEMMA LandTyped ==
  ASSUME TypeOK, NEW spec \in Nat, NEW lag \in 0..VisibilityLag, Land(spec, lag)
  PROVE  ext' \in SUBSET Externals /\ created' \in Nat
<1>1. [id |-> created + 1, visibleAt |-> now + lag, spec |-> spec] \in Externals
  BY ConstantTypes DEF Externals, TypeOK, WorldTyped
<1> QED
  BY <1>1 DEF Land, TypeOK, WorldTyped

-----------------------------------------------------------------------------
\* Types are preserved: first the start of a pass,

\* Taking the object from the queue and reading it leaves everything typed.
LEMMA BeginTyped ==
  ASSUME TypeOK, NEW step \in Steps, NEW m \in Objects, BeginPass(step, m)
  PROVE  TypeOK'
<1>1. deadline' \in Nat /\ unresolved' \in BOOLEAN /\ pristine' \in Objects
  BY ConstantTypes, NothingTyped DEF BeginPass, TypeOK, WorldTyped, ExternalCreateIncomplete
<1>2. QueueTyped'
  BY DEF BeginPass, Dequeue, TypeOK, QueueTyped
<1>3. PassTyped'
  BY <1>1 DEF BeginPass, TypeOK, PassTyped
<1>4. WorldTyped'
  BY DEF BeginPass, TypeOK, WorldTyped, externalVars
<1> QED
  BY <1>2, <1>3, <1>4 DEF TypeOK

\* So does every way Reconcile starts: not found, failed, paused, orphaned or on to Connect.
LEMMA StartTyped ==
  ASSUME TypeOK, GetNotFound \/ GetFails \/ GetPaused \/ GetOrphaned \/ Get
  PROVE  TypeOK'
<1>0. cached \in Objects
  BY DEF TypeOK, WorldTyped
<1>1. CASE GetNotFound
  <2>1. QueueTyped'
    BY <1>1 DEF GetNotFound, Dequeue, TypeOK, QueueTyped
  <2> QED BY <1>1, <2>1 DEF GetNotFound, TypeOK, PassTyped, WorldTyped, passVars, externalVars
<1>2. CASE GetFails
  <2>1. now + RetryDelay \in Nat /\ now + PassGap \in Nat
    BY ConstantTypes DEF TypeOK, WorldTyped
  <2>2. QueueTyped'
    BY <1>2, <2>1 DEF GetFails, TypeOK, QueueTyped
  <2>3. faults' \in Nat
    BY <1>2, FaultsTyped DEF GetFails, TypeOK, WorldTyped
  <2> QED BY <1>2, <2>2, <2>3 DEF GetFails, TypeOK, PassTyped, WorldTyped, passVars, externalVars
<1>3. CASE GetPaused
  <2>1. SetSynced(cached, "ReconcilePaused") \in Objects
    BY <1>0 DEF Objects, SetSynced, SyncedReasons
  <2> QED BY <1>3, <2>1, BeginTyped DEF GetPaused, Steps
<1>4. CASE GetOrphaned
  BY <1>0, <1>4, BeginTyped DEF GetOrphaned, Steps
<1>5. CASE Get
  BY <1>0, <1>5, BeginTyped DEF Get, Steps
<1> QED
  BY <1>1, <1>2, <1>3, <1>4, <1>5

\* The world of a step that makes no call.
LEMMA WorldFrame ==
  ASSUME TypeOK, UNCHANGED <<now, server, cached, externalVars, faults, edits>>
  PROVE  WorldTyped'
BY DEF TypeOK, WorldTyped, externalVars

\* The world of a step that updates the object.
LEMMA WorldUpdate ==
  ASSUME TypeOK, NEW o \in Objects, NEW r \in Replies, ClientUpdate(o, r),
         UNCHANGED <<now, cached, externalVars, edits>>
  PROVE  WorldTyped'
BY ClientUpdateTyped DEF TypeOK, WorldTyped, externalVars

\* Every condition the reconciler writes is one of the declared reasons.
LEMMA ReportedTyped ==
  ASSUME NEW o \in Objects
  PROVE  /\ \A r \in ReadyReasons, s \in SyncedReasons : SetConditions(o, r, s) \in Objects
         /\ \A s \in SyncedReasons : SetSynced(o, s) \in Objects
         /\ \A r \in ReadyReasons : SetReady(o, r) \in Objects
         /\ MarkNotObserved(o) \in Objects
<1>1. \A r \in ReadyReasons, s \in SyncedReasons : SetConditions(o, r, s) \in Objects
  BY ConditionsTyped
<1>2. \A s \in SyncedReasons : SetSynced(o, s) \in Objects
  BY DEF Objects, SetSynced
<1>3. \A r \in ReadyReasons : SetReady(o, r) \in Objects
  BY DEF Objects, SetReady
<1>4. MarkNotObserved(o) \in Objects
  BY <1>3 DEF MarkNotObserved, ReadyReasons
<1> QED
  BY <1>1, <1>2, <1>3, <1>4

\* then its middle,

\* Connect and Observe leave everything typed.
LEMMA ObserveTyped ==
  ASSUME TypeOK, DeferReconcile \/ Connect \/ ObserveMissing \/ ObserveFound \/ ObserveFails
  PROVE  TypeOK'
<1> USE ResultsTyped DEF ReadyReasons, SyncedReasons, Steps
<1>0. managed \in Objects /\ faults \in Nat
  BY DEF TypeOK, PassTyped, WorldTyped
<1>1. CASE DeferReconcile
  <2>1. PICK reason \in Deferrals, d \in DeferDelays : DeferFor(reason, d)
    BY <1>1 DEF DeferReconcile
  <2>2. (IF reason = "ramping" THEN managed ELSE SetSynced(managed, "ReconcileDeferred")) \in Objects
    BY <1>0, ReportedTyped
  <2>3. PassTyped' /\ QueueTyped'
    BY <2>1, <2>2, ReturnTyped, ReportTyped DEF DeferFor
  <2> QED BY <2>1, <2>3, WorldFrame DEF DeferFor, TypeOK
<1>2. CASE Connect
  <2>1. faults' \in Nat
    BY <1>0, <1>2, FaultsTyped DEF Connect
  <2>2. \A m \in {MarkNotObserved(managed), SetReady(managed, "Unavailable")} :
          SetSynced(m, "ReconcileError") \in Objects
    BY <1>0, ReportedTyped
  <2>3. PassTyped' /\ QueueTyped'
    BY <1>0, <1>2, <2>2, ReturnTyped, ReportTyped, GoOnTyped DEF Connect
  <2> QED BY <1>2, <2>1, <2>3 DEF Connect, TypeOK, WorldTyped, externalVars
<1>3. CASE ObserveMissing
  <2>1. SetReady(managed, "Unavailable") \in Objects
    BY <1>0, ReportedTyped
  <2>2. PassTyped' /\ QueueTyped'
    BY <1>3, <2>1, NothingTyped DEF ObserveMissing, TypeOK, PassTyped, QueueTyped, queueVars
  <2> QED BY <1>3, <2>2, WorldFrame DEF ObserveMissing, TypeOK
<1>4. CASE ObserveFound
  <2>1. PICK e \in Observable(managed), late \in {FALSE, LateInitializes /\ ~managed.late} :
          /\ obs' = [exists |-> TRUE, upToDate |-> e.spec = managed.spec, late |-> late, id |-> e.id]
          /\ managed' = [SetReady(managed, "Available") EXCEPT !.late = @ \/ late]
    BY <1>4 DEF ObserveFound
  <2>2. e \in Externals /\ late \in BOOLEAN
    BY ConstantsAssumption DEF Observable, TypeOK, WorldTyped
  <2>3. obs' \in Observations
    BY <2>1, <2>2 DEF Observations, Externals
  <2>4. SetReady(managed, "Available") \in Objects
    BY <1>0, ReportedTyped
  <2>5. \A o \in Objects, b \in BOOLEAN : [o EXCEPT !.late = b] \in Objects
    BY DEF Objects
  <2>6. managed' \in Objects
    BY <2>1, <2>4, <2>5
  <2>7. PassTyped' /\ QueueTyped'
    BY <1>4, <2>3, <2>6 DEF ObserveFound, TypeOK, PassTyped, QueueTyped, queueVars
  <2> QED BY <1>4, <2>7, WorldFrame DEF ObserveFound, TypeOK
<1>5. CASE ObserveFails
  <2>1. faults' \in Nat
    BY <1>0, <1>5, FaultsTyped DEF ObserveFails
  <2>2. /\ SetSynced(MarkNotObserved(managed), "ReconcileError") \in Objects
        /\ SetSynced(SetReady(managed, "Unavailable"), "ReconcileError") \in Objects
    BY <1>0, ReportedTyped
  <2>3. PassTyped' /\ QueueTyped'
    BY <1>5, <2>2, ReturnTyped, ReportTyped DEF ObserveFails
  <2> QED BY <1>5, <2>1, <2>3 DEF ObserveFails, TypeOK, WorldTyped, externalVars
<1> QED
  BY <1>1, <1>2, <1>3, <1>4, <1>5

\* The recovery of an unresolved create and the waits after Observe leave everything typed.
LEMMA ResolveTyped ==
  ASSUME TypeOK, AdoptCreate \/ AwaitRecovery \/ ClearPending \/ ReportMissing \/ AwaitVisibility
  PROVE  TypeOK'
<1> USE ResultsTyped DEF ReadyReasons, SyncedReasons, Steps
<1>0. managed \in Objects /\ managed.ann \in Annotations /\ now \in Nat /\ server \in Objects
  BY DEF TypeOK, PassTyped, WorldTyped, Objects
<1>1. CASE AdoptCreate
  <2>1. [managed EXCEPT !.ann = SetExternalCreateSucceeded(@, now)] \in Objects
    BY <1>0, StampsTyped, AnnotatedTyped
  <2>2. PassTyped' /\ QueueTyped'
    BY <1>1, <2>1, WriteCriticalTyped DEF AdoptCreate
  <2> QED BY <1>1, <2>2, WorldFrame DEF AdoptCreate, TypeOK
<1>2. CASE AwaitRecovery
  <2>1. SetConditions(managed, "Creating", "ReconcileError") \in Objects
    BY <1>0, ReportedTyped
  <2>2. PassTyped' /\ QueueTyped'
    BY <1>2, <2>1, ReportTyped DEF AwaitRecovery
  <2> QED BY <1>2, <2>2, WorldFrame DEF AwaitRecovery, TypeOK
<1>3. CASE ClearPending
  <2> DEFINE o == [managed EXCEPT !.ann = RemovePending(@)]
  <2>1. o \in Objects
    BY <1>0, StampsTyped, AnnotatedTyped
  <2>2. PICK r \in Replies : /\ ClientUpdate(o, r)
                             /\ \/ GoOn("decide", Updated(o, r))
                                \/ Return(RateLimited)
                                \/ Return(Errored)
    BY <1>3 DEF ClearPending
  <2> HIDE DEF o
  <2>3. Updated(o, r) \in Objects
    BY <1>0, <2>1, UpdatedTyped
  <2>4. PassTyped' /\ QueueTyped'
    BY <2>2, <2>3, GoOnTyped, ReturnTyped
  <2>5. WorldTyped'
    BY <1>3, <2>1, <2>2, WorldUpdate DEF ClearPending
  <2> QED BY <2>4, <2>5 DEF TypeOK
<1>4. CASE ReportMissing
  <2>1. SetSynced(managed, "ReconcileError") \in Objects
    BY <1>0, ReportedTyped
  <2>2. PassTyped' /\ QueueTyped'
    BY <1>4, <2>1, ReportTyped DEF ReportMissing
  <2> QED BY <1>4, <2>2, WorldFrame DEF ReportMissing, TypeOK
<1>5. CASE AwaitVisibility
  <2>1. PassTyped' /\ QueueTyped'
    BY <1>5, ReturnTyped DEF AwaitVisibility
  <2> QED BY <1>5, <2>1, WorldFrame DEF AwaitVisibility, TypeOK
<1> QED
  BY <1>1, <1>2, <1>3, <1>4, <1>5

\* Delete and the two finalizer writes leave everything typed.
LEMMA FinalizerTyped ==
  ASSUME TypeOK, Delete \/ RemoveFinalizer \/ AddFinalizer
  PROVE  TypeOK'
<1> USE ResultsTyped DEF ReadyReasons, SyncedReasons, Steps
<1>0. managed \in Objects /\ server \in Objects /\ faults \in Nat
  BY DEF TypeOK, PassTyped, WorldTyped
<1>1. CASE Delete
  <2>1. faults' \in Nat
    BY <1>0, <1>1, FaultsTyped DEF Delete
  <2>2. /\ SetConditions(managed, "Deleting", "ReconcileSuccess") \in Objects
        /\ SetConditions(managed, "Deleting", "ReconcileError") \in Objects
    BY <1>0, ReportedTyped
  <2>3. PassTyped' /\ QueueTyped'
    BY <1>1, <2>2, ReportTyped DEF Delete
  <2>4. ext' \in SUBSET Externals
    BY <1>1 DEF Delete, TypeOK, WorldTyped
  <2> QED BY <1>1, <2>1, <2>3, <2>4 DEF Delete, TypeOK, WorldTyped
<1>2. CASE RemoveFinalizer
  <2> DEFINE o == [managed EXCEPT !.fin = FALSE]
  <2>1. o \in Objects
    BY <1>0 DEF Objects
  <2>2. \/ Return(NoRequeue) /\ UNCHANGED <<server, faults>>
        \/ \E r \in Replies :
             /\ ClientUpdate(o, r)
             /\ \/ Return(NoRequeue)
                \/ Return(RateLimited)
                \/ Report(SetConditions(o, "Deleting", "ReconcileError"), Errored)
    BY <1>2 DEF RemoveFinalizer
  <2>u. UNCHANGED <<now, cached, externalVars, edits>>
    BY <1>2 DEF RemoveFinalizer
  <2> HIDE DEF o
  <2>3. SetConditions(o, "Deleting", "ReconcileError") \in Objects
    BY <2>1, ReportedTyped
  <2>4. PassTyped' /\ QueueTyped'
    BY <2>2, <2>3, ReportTyped, ReturnTyped
  <2>5. WorldTyped'
    BY <2>1, <2>2, <2>u, WorldUpdate, WorldFrame
  <2> QED BY <2>4, <2>5 DEF TypeOK
<1>3. CASE AddFinalizer
  <2> DEFINE o == [managed EXCEPT !.fin = TRUE]
  <2>1. o \in Objects
    BY <1>0 DEF Objects
  <2>2. \/ GoOn("act", managed) /\ UNCHANGED <<server, faults>>
        \/ \E r \in Replies :
             /\ ClientUpdate(o, r)
             /\ \/ GoOn("act", Updated(o, r))
                \/ Return(RateLimited)
                \/ Report(SetSynced(o, "ReconcileError"), Errored)
    BY <1>3 DEF AddFinalizer
  <2>u. UNCHANGED <<now, cached, externalVars, edits>>
    BY <1>3 DEF AddFinalizer
  <2> HIDE DEF o
  <2>3. SetSynced(o, "ReconcileError") \in Objects /\ \A r \in Replies : Updated(o, r) \in Objects
    BY <1>0, <2>1, ReportedTyped, UpdatedTyped
  <2>4. PassTyped' /\ QueueTyped'
    BY <1>0, <2>2, <2>3, GoOnTyped, ReportTyped, ReturnTyped
  <2>5. WorldTyped'
    BY <2>1, <2>2, <2>u, WorldUpdate, WorldFrame
  <2> QED BY <2>4, <2>5 DEF TypeOK
<1> QED
  BY <1>1, <1>2, <1>3

\* then the create path,

\* The pending stamp and the two outcomes of Create leave everything typed.
LEMMA CreateTyped ==
  ASSUME TypeOK, BeginCreate \/ CreateSucceeds \/ CreateFails
  PROVE  TypeOK'
<1> USE ResultsTyped DEF ReadyReasons, SyncedReasons, Steps
<1>0. /\ managed \in Objects /\ managed.ann \in Annotations /\ managed.spec \in Nat
      /\ now \in Nat /\ created \in Nat /\ server \in Objects
  BY DEF TypeOK, PassTyped, WorldTyped, Objects
<1>1. CASE BeginCreate
  <2> DEFINE o == [managed EXCEPT !.ann = SetExternalCreatePending(@, now)]
  <2>1. o \in Objects
    BY <1>0, StampsTyped, AnnotatedTyped
  <2>2. PICK r \in Replies :
             /\ ClientUpdate(o, r)
             /\ \/ GoOn("create", Updated(o, r))
                \/ Return(RateLimited)
                \/ Report(SetConditions(o, "Creating", "ReconcileError"), Errored)
    BY <1>1 DEF BeginCreate
  <2>u. UNCHANGED <<now, cached, externalVars, edits>>
    BY <1>1 DEF BeginCreate
  <2> HIDE DEF o
  <2>3. SetConditions(o, "Creating", "ReconcileError") \in Objects /\ Updated(o, r) \in Objects
    BY <1>0, <2>1, ReportedTyped, UpdatedTyped
  <2>4. PassTyped' /\ QueueTyped'
    BY <2>2, <2>3, GoOnTyped, ReportTyped, ReturnTyped
  <2>5. WorldTyped'
    BY <2>1, <2>2, <2>u, WorldUpdate
  <2> QED BY <2>4, <2>5 DEF TypeOK
<1>2. CASE CreateSucceeds
  <2> DEFINE named == IF NamedByServer THEN SetExternalName(managed.ann, created + 1) ELSE managed.ann
  <2>1. named \in Annotations
    BY <1>0, StampsTyped
  <2>2. WriteCritical([managed EXCEPT !.ann = SetExternalCreateSucceeded(named, now)], "succeeded", FALSE)
    BY <1>2 DEF CreateSucceeds
  <2> HIDE DEF named
  <2>3. [managed EXCEPT !.ann = SetExternalCreateSucceeded(named, now)] \in Objects
    BY <1>0, <2>1, StampsTyped, AnnotatedTyped
  <2>4. PassTyped' /\ QueueTyped'
    BY <2>2, <2>3, WriteCriticalTyped
  <2>5. ext' \in SUBSET Externals /\ created' \in Nat
    BY <1>0, <1>2, LandTyped DEF CreateSucceeds
  <2> QED BY <1>2, <2>4, <2>5 DEF CreateSucceeds, TypeOK, WorldTyped
<1>3. CASE CreateFails
  <2>1. [managed EXCEPT !.ann = SetExternalCreateFailed(@, now)] \in Objects
    BY <1>0, StampsTyped, AnnotatedTyped
  <2>2. PassTyped' /\ QueueTyped'
    BY <1>3, <2>1, WriteCriticalTyped DEF CreateFails
  <2>3. ext' \in SUBSET Externals /\ created' \in Nat
    BY <1>0, <1>3, LandTyped DEF CreateFails, TypeOK, WorldTyped
  <2> QED BY <1>3, <2>2, <2>3 DEF CreateFails, TypeOK, WorldTyped
<1> QED
  BY <1>1, <1>2, <1>3

\* What follows the critical annotation write leaves pass and queue typed.
LEMMA AfterCriticalTyped ==
  ASSUME TypeOK, NEW m \in Objects, NEW written \in BOOLEAN, AfterCritical(m, written)
  PROVE  PassTyped' /\ QueueTyped'
<1> USE ResultsTyped DEF ReadyReasons, SyncedReasons, Steps
<1>1. /\ SetConditions(m, "Creating", "ReconcileError") \in Objects
      /\ SetConditions(m, "Creating", "ReconcileSuccess") \in Objects
  BY ReportedTyped
<1>2. \/ GoOn("decide", m)
      \/ Return(Errored)
      \/ Return(RateLimited)
      \/ Report(SetConditions(m, "Creating", "ReconcileError"), Errored)
      \/ Report(SetConditions(m, "Creating", "ReconcileSuccess"), RateLimited)
  BY DEF AfterCritical
<1> QED
  BY <1>1, <1>2, GoOnTyped, ReturnTyped, ReportTyped

\* Every try of the critical annotation write leaves everything typed.
LEMMA CriticalTyped ==
  ASSUME TypeOK, UpdateCriticalAnnotations
  PROVE  TypeOK'
<1> DEFINE o == [cached EXCEPT !.ann = AddAnnotations(@, crit.ann)]
           m(r) == IF cached.exists THEN Updated(o, r) ELSE managed
<1>0. /\ managed \in Objects /\ cached \in Objects /\ server \in Objects
      /\ cached.ann \in Annotations /\ crit.ann \in Annotations /\ crit \in CriticalWrites
  BY DEF TypeOK, PassTyped, WorldTyped, Objects, CriticalWrites
<1>1. o \in Objects
  BY <1>0, AddTyped, AnnotatedTyped
<1>2. PICK r \in Replies :
        /\ IF cached.exists THEN ClientUpdate(o, r) ELSE r = "notfound" /\ UNCHANGED <<server, faults>>
        /\ \/ AfterCritical(m(r), TRUE)
           \/ AfterCritical(m(r), FALSE)
           \/ /\ managed' = m(r)
              /\ crit' = [crit EXCEPT !.tries = @ + 1]
              /\ UNCHANGED <<pc, pristine, obs, unresolved, ret, deadline, queueVars>>
  BY DEF UpdateCriticalAnnotations
<1>u. UNCHANGED <<now, cached, externalVars, edits>>
  BY DEF UpdateCriticalAnnotations
<1>3. m(r) \in Objects
  BY <1>0, <1>1, UpdatedTyped
<1> HIDE DEF o, m
<1>4. PassTyped' /\ QueueTyped'
  <2>1. CASE AfterCritical(m(r), TRUE) \/ AfterCritical(m(r), FALSE)
    BY <1>3, <2>1, AfterCriticalTyped
  <2>2. CASE /\ managed' = m(r)
             /\ crit' = [crit EXCEPT !.tries = @ + 1]
             /\ UNCHANGED <<pc, pristine, obs, unresolved, ret, deadline, queueVars>>
    <3>a. \A n \in Nat : [crit EXCEPT !.tries = n] \in CriticalWrites
      BY <1>0 DEF CriticalWrites
    <3>b. crit.tries + 1 \in Nat
      <4>1. crit.tries \in Nat
        BY <1>0 DEF CriticalWrites
      <4> QED BY <4>1
    <3>1. crit' \in CriticalWrites
      BY <2>2, <3>a, <3>b
    <3> QED BY <1>3, <2>2, <3>1 DEF TypeOK, PassTyped, QueueTyped, queueVars
  <2> QED BY <1>2, <2>1, <2>2
<1>5. WorldTyped'
  BY <1>1, <1>2, <1>u, WorldUpdate, WorldFrame
<1> QED
  BY <1>4, <1>5 DEF TypeOK

\* its end,

\* Late initialization, Update and the status write leave everything typed.
LEMMA EndTyped ==
  ASSUME TypeOK, LateInitialize \/ NothingToDo \/ Update \/ StatusUpdate
  PROVE  TypeOK'
<1> USE ResultsTyped DEF ReadyReasons, SyncedReasons, Steps
<1>0. /\ managed \in Objects /\ server \in Objects /\ faults \in Nat /\ ret \in Results
      /\ managed.spec \in Nat /\ obs \in Observations
  BY DEF TypeOK, PassTyped, WorldTyped, Objects
<1>1. /\ SetSynced(managed, "ReconcileError") \in Objects
      /\ SetSynced(managed, "ReconcileSuccess") \in Objects
  BY <1>0, ReportedTyped
<1>2. CASE LateInitialize
  <2>1. PICK r \in Replies :
          /\ ClientUpdate(managed, r)
          /\ \/ /\ managed' = Updated(managed, r)
                /\ obs' = [obs EXCEPT !.late = FALSE]
                /\ UNCHANGED <<pc, pristine, unresolved, crit, ret, deadline, queueVars>>
             \/ Return(RateLimited)
             \/ Report(SetSynced(managed, "ReconcileError"), Errored)
    BY <1>2 DEF LateInitialize
  <2>2. Updated(managed, r) \in Objects /\ [obs EXCEPT !.late = FALSE] \in Observations
    BY <1>0, UpdatedTyped DEF Observations
  <2>3. PassTyped' /\ QueueTyped'
    <3>1. CASE /\ managed' = Updated(managed, r)
               /\ obs' = [obs EXCEPT !.late = FALSE]
               /\ UNCHANGED <<pc, pristine, unresolved, crit, ret, deadline, queueVars>>
      BY <2>2, <3>1 DEF TypeOK, PassTyped, QueueTyped, queueVars
    <3>2. CASE Return(RateLimited) \/ Report(SetSynced(managed, "ReconcileError"), Errored)
      BY <1>1, <3>2, ReturnTyped, ReportTyped
    <3> QED BY <2>1, <3>1, <3>2
  <2>4. WorldTyped'
    BY <1>0, <1>2, <2>1, WorldUpdate DEF LateInitialize
  <2> QED BY <2>3, <2>4 DEF TypeOK
<1>3. CASE NothingToDo
  <2>1. PassTyped' /\ QueueTyped'
    BY <1>1, <1>3, ReportTyped DEF NothingToDo
  <2> QED BY <1>3, <2>1, WorldFrame DEF NothingToDo, TypeOK
<1>4. CASE Update
  <2>1. faults' \in Nat
    BY <1>0, <1>4, FaultsTyped DEF Update
  <2>2. PassTyped' /\ QueueTyped'
    BY <1>1, <1>4, ReportTyped DEF Update
  <2>3. ext \in SUBSET Externals
    BY DEF TypeOK, WorldTyped
  <2>4. \A e \in Externals : [e EXCEPT !.spec = managed.spec] \in Externals
    BY <1>0 DEF Externals
  <2>5. ext' \in SUBSET Externals
    <3>1. \A e \in ext : (IF e.id = obs.id THEN [e EXCEPT !.spec = managed.spec] ELSE e) \in Externals
      BY <2>3, <2>4
    <3>2. \/ ext' = {IF e.id = obs.id THEN [e EXCEPT !.spec = managed.spec] ELSE e : e \in ext}
          \/ ext' = ext
      BY <1>4 DEF Update
    <3> QED BY <2>3, <3>1, <3>2
  <2> QED BY <1>4, <2>1, <2>2, <2>5 DEF Update, TypeOK, WorldTyped
<1>5. CASE StatusUpdate
  <2>1. PICK r \in Replies :
          /\ CountFault(IsFault(r))
          /\ server' = IF Stores(r) THEN StatusStored(managed) ELSE server
          /\ Return(IF r = "ok" THEN ret ELSE Errored)
    BY <1>5 DEF StatusUpdate
  <2>2. server' \in Objects /\ faults' \in Nat
    BY <1>0, <2>1, StoredTyped, FaultsTyped
  <2>3. (IF r = "ok" THEN ret ELSE Errored) \in Results
    BY <1>0
  <2>4. PassTyped' /\ QueueTyped'
    BY <2>1, <2>3, ReturnTyped
  <2> QED BY <1>5, <2>2, <2>4 DEF StatusUpdate, TypeOK, WorldTyped, externalVars
<1> QED
  BY <1>2, <1>3, <1>4, <1>5

\* and what happens around it.

\* A crash and a Create that lands after it leave everything typed.
LEMMA CrashTyped ==
  ASSUME TypeOK, Crash \/ LandLate \/ CacheSync \/ Tick
  PROVE  TypeOK'
<1>0. /\ managed \in Objects /\ managed.spec \in Nat /\ deadline \in Nat /\ now \in Nat
      /\ inflight \in SUBSET [until : Nat, spec : Nat]
  BY DEF TypeOK, PassTyped, WorldTyped, Objects
<1>1. CASE Crash
  <2>1. PassTyped'
    BY <1>1, NothingTyped, ResultsTyped DEF Crash, ForgetPass, PassTyped, Steps
  <2>2. QueueTyped'
    BY <1>0, <1>1, ConstantTypes DEF Crash, QueueTyped
  <2>3. inflight' \in SUBSET [until : Nat, spec : Nat]
    BY <1>0, <1>1 DEF Crash
  <2>4. faults' \in Nat
    BY <1>1, FaultsTyped DEF Crash, TypeOK, WorldTyped
  <2> QED BY <1>1, <2>1, <2>2, <2>3, <2>4 DEF Crash, TypeOK, WorldTyped
<1>2. CASE LandLate
  <2>1. PICK c \in inflight, lag \in 0..VisibilityLag : Land(c.spec, lag) /\ inflight' = inflight \ {c}
    BY <1>2 DEF LandLate
  <2>2. c.spec \in Nat
    BY <1>0
  <2>3. ext' \in SUBSET Externals /\ created' \in Nat
    BY <2>1, <2>2, LandTyped
  <2> QED BY <1>0, <1>2, <2>1, <2>3
            DEF LandLate, TypeOK, WorldTyped, PassTyped, QueueTyped, passVars, queueVars
<1>3. CASE CacheSync
  BY <1>3 DEF CacheSync, TypeOK, WorldTyped, PassTyped, QueueTyped, passVars, externalVars
<1>4. CASE Tick
  BY <1>4 DEF Tick, TypeOK, WorldTyped, PassTyped, QueueTyped, passVars, queueVars
<1> QED
  BY <1>1, <1>2, <1>3, <1>4

\* Users' edits leave everything typed.
LEMMA EditTyped ==
  ASSUME TypeOK, EditSpec \/ EditPause \/ EditPolicy \/ DeleteObject \/ ExternalVanishes
  PROVE  TypeOK'
<1>0. server \in Objects /\ edits \in Nat /\ ext \in SUBSET Externals
  BY DEF TypeOK, WorldTyped
<1>1. PICK kind : Edit(kind)
  BY DEF EditSpec, EditPause, EditPolicy, DeleteObject, ExternalVanishes, EditObject
<1>2. \/ \E new \in Objects : server' = Bump(new) /\ UNCHANGED ext
      \/ server' = server /\ \E e \in ext : ext' = ext \ {e}
  <2>1. CASE EditSpec
    BY <1>0, <2>1 DEF EditSpec, EditObject, Objects
  <2>2. CASE EditPause
    <3>1. PICK p \in {"", "true"} : server' = Bump([server EXCEPT !.ann.paused = p]) /\ UNCHANGED ext
      BY <2>2 DEF EditPause, EditObject
    <3>2. [server EXCEPT !.ann.paused = p] \in Objects
      BY <1>0 DEF Objects, Annotations
    <3> QED BY <3>1, <3>2
  <2>3. CASE EditPolicy
    <3>1. PICK d \in {"delete", "orphan"} : server' = Bump([server EXCEPT !.ann.del = d]) /\ UNCHANGED ext
      BY <2>3 DEF EditPolicy, EditObject
    <3>2. [server EXCEPT !.ann.del = d] \in Objects
      BY <1>0 DEF Objects, Annotations, DeletionPolicies
    <3> QED BY <3>1, <3>2
  <2>4. CASE DeleteObject
    BY <1>0, <2>4 DEF DeleteObject, EditObject, Objects
  <2>5. CASE ExternalVanishes
    BY <2>5 DEF ExternalVanishes
  <2> QED BY <2>1, <2>2, <2>3, <2>4, <2>5
<1>3. server' \in Objects /\ ext' \in SUBSET Externals
  BY <1>0, <1>2, BumpTyped
<1> QED
  BY <1>0, <1>1, <1>3 DEF Edit, TypeOK, WorldTyped, PassTyped, QueueTyped, passVars, queueVars

\* Types are preserved by every step.
LEMMA TypeStep ==
  ASSUME TypeOK, [Next]_vars
  PROVE  TypeOK'
<1>1. CASE Reconcile
  BY <1>1, StartTyped, ObserveTyped, ResolveTyped, FinalizerTyped, CreateTyped, CriticalTyped,
     EndTyped DEF Reconcile
<1>2. CASE Environment
  BY <1>2, CrashTyped, EditTyped DEF Environment
<1>3. CASE UNCHANGED vars
  BY <1>3 DEF vars, TypeOK, WorldTyped, PassTyped, QueueTyped, passVars, queueVars, externalVars
<1> QED
  BY <1>1, <1>2, <1>3 DEF Next, Horizon

\* The initial states are typed.
LEMMA TypeInit == Init => TypeOK
<1> SUFFICES ASSUME Init PROVE TypeOK
  OBVIOUS
<1>1. created \in Nat /\ ext \in SUBSET Externals
  BY ConstantsAssumption DEF Init, Externals
<1>2. PICK mgmt \in InitialManagement, del \in InitialDeletion :
        server = [NoObject EXCEPT !.exists = TRUE, !.rv = 1,
                    !.ann = [NoAnnotations EXCEPT !.mgmt = mgmt, !.del = del,
                               !.name = IF NamedByServer THEN created ELSE 0]]
  BY DEF Init
<1>3. mgmt \in ManagementPolicies /\ del \in DeletionPolicies
  BY InitialPoliciesAssumption
<1>4. (IF NamedByServer THEN created ELSE 0) \in Nat
  BY <1>1
<1>5. \A n \in Nat : [NoAnnotations EXCEPT !.mgmt = mgmt, !.del = del, !.name = n] \in Annotations
  BY <1>3 DEF NoAnnotations, Annotations
<1>6. \A a \in Annotations : [NoObject EXCEPT !.exists = TRUE, !.rv = 1, !.ann = a] \in Objects
  BY DEF NoObject, Objects, ReadyReasons, SyncedReasons
<1>7. server \in Objects
  BY <1>2, <1>4, <1>5, <1>6
<1>8. TicksPerSecond \in Nat
  BY TicksPerSecondAssumption
<1> QED
  BY <1>1, <1>7, <1>8, NothingTyped, ResultsTyped
     DEF Init, TypeOK, PassTyped, QueueTyped, WorldTyped, Steps

\* Every variable of the reconciler, its queue and the world it acts on has its type.
THEOREM TypeCorrect == Spec => []TypeOK
<1>1. TypeOK /\ [Next]_vars => TypeOK'
  BY TypeStep
<1> QED
  BY TypeInit, <1>1, PTL DEF Spec

-----------------------------------------------------------------------------
\* Create runs under a stored pending stamp.  The finalizer is on the copy of every pass that
\* has come as far as to act, and the clock has left the zero time.
MarkInv ==
  /\ TypeOK
  /\ now >= TicksPerSecond
  /\ pc = "act" => managed.fin
  /\ CreateMarked

\* An update the API server stores keeps what was sent, and keeps a finalized object.
LEMMA BumpKeeps ==
  ASSUME NEW new \in Objects, server \in Objects
  PROVE  /\ Bump(new).fin = new.fin
         /\ Bump(new).ann = new.ann
         /\ Bump(new).spec = new.spec
         /\ server.exists /\ new.fin => Bump(new).exists
<1>1. CASE new = server
  BY <1>1 DEF Bump
<1>2. CASE new # server
  <2>1. Bump(new) = [new EXCEPT !.rv = server.rv + 1, !.exists = new.fin \/ ~new.deleted]
    BY <1>2 DEF Bump
  <2> QED BY <2>1 DEF Objects
<1> QED
  BY <1>1, <1>2

\* An Update of an object with the finalizer leaves it stored, with its finalizer and stamps.
LEMMA StoredKeeps ==
  ASSUME NEW o \in Objects, server \in Objects
  PROVE  /\ Stored(o).fin = o.fin
         /\ Stored(o).ann = o.ann
         /\ Stored(o).spec = o.spec
         /\ server.exists /\ o.fin => Stored(o).exists
<1> DEFINE new == SetConditions(o, server.ready, server.synced)
<1>1. server.ready \in ReadyReasons /\ server.synced \in SyncedReasons
  BY DEF Objects
<1>2. new \in Objects
  BY <1>1, ConditionsTyped
<1>3. new.fin = o.fin /\ new.ann = o.ann /\ new.spec = o.spec
  BY DEF SetConditions, Objects
<1>4. Stored(o) = Bump(new)
  BY DEF Stored
<1> HIDE DEF new
<1> QED
  BY <1>2, <1>3, <1>4, BumpKeeps

\* The copy of a pass after a stored update is what is stored, but for its status.
LEMMA UpdatedKeeps ==
  ASSUME NEW o \in Objects, server \in Objects
  PROVE  Updated(o, "ok").fin = o.fin /\ Updated(o, "ok").ann = o.ann
<1>1. Stored(o) \in Objects /\ Stored(o).fin = o.fin /\ Stored(o).ann = o.ann
  BY StoredTyped, StoredKeeps
<1>2. Updated(o, "ok") = Stored(o) \/ Updated(o, "ok") = SetConditions(Stored(o), o.ready, o.synced)
  BY DEF Updated, Decoded
<1>3. \A p \in Objects : SetConditions(p, o.ready, o.synced).fin = p.fin
                         /\ SetConditions(p, o.ready, o.synced).ann = p.ann
  BY DEF SetConditions, Objects
<1> QED
  BY <1>1, <1>2, <1>3

\* A stored pending stamp survives what users and the clock do while Create runs.
LEMMA EditsKeepMark ==
  ASSUME MarkInv, Environment, ~Crash, TypeOK'
  PROVE  MarkInv'
<1>0. server \in Objects /\ server.ann \in Annotations /\ now \in Nat /\ TicksPerSecond \in Nat
  BY TicksPerSecondAssumption DEF MarkInv, TypeOK, WorldTyped, Objects
<1>1. pc' = pc /\ managed' = managed
  BY DEF Environment, LandLate, CacheSync, EditSpec, EditPause, EditPolicy, DeleteObject,
         ExternalVanishes, EditObject, Edit, Tick, passVars
<1>2. now' >= TicksPerSecond
  <2>1. now' = now \/ now' = now + 1
    BY DEF Environment, LandLate, CacheSync, EditSpec, EditPause, EditPolicy, DeleteObject,
           ExternalVanishes, EditObject, Edit, Tick
  <2>2. now >= TicksPerSecond
    BY DEF MarkInv
  <2> QED BY <1>0, <2>1, <2>2
<1>3. \/ server' = server
      \/ \E new \in Objects : /\ server' = Bump(new)
                              /\ server.exists
                              /\ new.fin = server.fin
                              /\ new.ann.pending = server.ann.pending
  <2>1. CASE EditSpec
    <3>1. [server EXCEPT !.spec = @ + 1] \in Objects
      BY <1>0 DEF Objects
    <3> QED BY <1>0, <2>1, <3>1 DEF EditSpec, EditObject, Objects
  <2>2. CASE EditPause
    <3>1. PICK p \in {"", "true"} : server.exists /\ server' = Bump([server EXCEPT !.ann.paused = p])
      BY <2>2 DEF EditPause, EditObject
    <3>2. [server EXCEPT !.ann.paused = p] \in Objects
      BY <1>0 DEF Objects, Annotations
    <3>3. /\ [server EXCEPT !.ann.paused = p].fin = server.fin
          /\ [server EXCEPT !.ann.paused = p].ann.pending = server.ann.pending
      BY <1>0 DEF Objects, Annotations
    <3> QED BY <3>1, <3>2, <3>3
  <2>3. CASE EditPolicy
    <3>1. PICK d \in {"delete", "orphan"} : server.exists /\ server' = Bump([server EXCEPT !.ann.del = d])
      BY <2>3 DEF EditPolicy, EditObject
    <3>2. [server EXCEPT !.ann.del = d] \in Objects
      BY <1>0 DEF Objects, Annotations, DeletionPolicies
    <3>3. /\ [server EXCEPT !.ann.del = d].fin = server.fin
          /\ [server EXCEPT !.ann.del = d].ann.pending = server.ann.pending
      BY <1>0 DEF Objects, Annotations
    <3> QED BY <3>1, <3>2, <3>3
  <2>4. CASE DeleteObject
    <3>1. [server EXCEPT !.deleted = TRUE] \in Objects
      BY <1>0 DEF Objects
    <3> QED BY <1>0, <2>4, <3>1 DEF DeleteObject, EditObject, Objects
  <2>5. CASE LandLate \/ CacheSync \/ ExternalVanishes \/ Tick
    BY <2>5 DEF LandLate, CacheSync, ExternalVanishes, Tick
  <2> QED BY <2>1, <2>2, <2>3, <2>4, <2>5 DEF Environment
<1>4. pc = "create" => /\ server'.exists /\ server'.fin
                       /\ server'.ann.pending = server.ann.pending
  BY <1>0, <1>3, BumpKeeps DEF MarkInv, CreateMarked
<1>5. CreateMarked'
  BY <1>1, <1>4 DEF MarkInv, CreateMarked
<1>6. pc' = "act" => managed'.fin
  BY <1>1 DEF MarkInv
<1> QED
  BY <1>2, <1>5, <1>6 DEF MarkInv

\* The only way to Create is a pending stamp that was stored.
LEMMA BeginCreateMarks ==
  ASSUME MarkInv, BeginCreate, TypeOK'
  PROVE  MarkInv'
<1> DEFINE o == [managed EXCEPT !.ann = SetExternalCreatePending(@, now)]
<1>0. /\ managed \in Objects /\ managed.ann \in Annotations /\ managed.fin
      /\ server \in Objects /\ now \in Nat /\ now >= TicksPerSecond /\ now' = now
  BY DEF MarkInv, TypeOK, PassTyped, WorldTyped, Objects, BeginCreate, ToCreate
<1>1. o \in Objects
  BY <1>0, StampsTyped, AnnotatedTyped
<1>2. o.fin /\ o.ann.pending = RFC3339(now) /\ RFC3339(now) # ZeroTime
  BY <1>0, FormattedPositive DEF Objects, Annotations, SetExternalCreatePending
<1>3. \/ /\ MayReply(o, "ok") /\ server' = Stored(o)
         /\ pc' = "create" /\ managed' = Updated(o, "ok")
      \/ pc' \notin {"act", "create"}
  BY DEF BeginCreate, GoOn, Return, ForgetPass, Report, ClientUpdate, Stores, Replies
<1> HIDE DEF o
<1>4. CASE /\ MayReply(o, "ok") /\ server' = Stored(o)
           /\ pc' = "create" /\ managed' = Updated(o, "ok")
  <2>1. server.exists
    BY <1>4 DEF MayReply, Stores
  <2>2. server'.exists /\ server'.fin /\ server'.ann = o.ann /\ managed'.ann = o.ann
    BY <1>0, <1>1, <1>2, <1>4, <2>1, StoredKeeps, UpdatedKeeps
  <2> QED BY <1>0, <1>2, <1>4, <2>2 DEF MarkInv, CreateMarked, ZeroTime
<1>5. CASE pc' \notin {"act", "create"}
  BY <1>0, <1>5 DEF MarkInv, CreateMarked
<1> QED
  BY <1>3, <1>4, <1>5

\* The only way to act is a copy with the finalizer.
LEMMA ActIsFinalized ==
  ASSUME MarkInv, AddFinalizer \/ LateInitialize, TypeOK'
  PROVE  MarkInv'
<1>0. managed \in Objects /\ server \in Objects /\ now' = now
  BY DEF MarkInv, TypeOK, PassTyped, WorldTyped, AddFinalizer, LateInitialize
<1>1. pc' # "create"
  BY DEF AddFinalizer, LateInitialize, GoOn, Return, ForgetPass, Report
<1>2. CASE AddFinalizer
  <2> DEFINE o == [managed EXCEPT !.fin = TRUE]
  <2>1. o \in Objects /\ o.fin
    BY <1>0 DEF Objects
  <2>2. \/ managed.fin /\ managed' = managed
        \/ managed' = Updated(o, "ok")
        \/ pc' # "act"
    BY <1>2 DEF AddFinalizer, GoOn, Return, ForgetPass, Report
  <2> HIDE DEF o
  <2>3. pc' = "act" => managed'.fin
    BY <1>0, <2>1, <2>2, UpdatedKeeps
  <2> QED BY <1>0, <1>1, <2>3 DEF MarkInv, CreateMarked
<1>3. CASE LateInitialize
  <2>1. managed.fin
    BY <1>3 DEF LateInitialize, MarkInv
  <2>2. managed' = Updated(managed, "ok") \/ pc' # "act"
    BY <1>3 DEF LateInitialize, Return, ForgetPass, Report
  <2>3. pc' = "act" => managed'.fin
    BY <1>0, <2>1, <2>2, UpdatedKeeps
  <2> QED BY <1>0, <1>1, <2>3 DEF MarkInv, CreateMarked
<1> QED
  BY <1>2, <1>3

\* No step runs Create without a stored pending stamp: MarkInv is inductive.
LEMMA MarkStep ==
  ASSUME MarkInv, [Next]_vars
  PROVE  MarkInv'
<1>0. TypeOK'
  BY TypeStep DEF MarkInv
<1>1. ASSUME pc' \notin {"act", "create"}, now' = now
      PROVE  MarkInv'
  BY <1>0, <1>1 DEF MarkInv, CreateMarked
<1>2. CASE Reconcile
  <2>1. CASE BeginCreate
    BY <1>0, <2>1, BeginCreateMarks
  <2>2. CASE AddFinalizer \/ LateInitialize
    BY <1>0, <2>2, ActIsFinalized
  <2>3. CASE GetNotFound \/ GetFails \/ GetPaused \/ GetOrphaned \/ Get
    BY <1>1, <2>3 DEF GetNotFound, GetFails, GetPaused, GetOrphaned, Get, BeginPass, Dequeue
  <2>9. CASE DeferReconcile
    <3>1. PICK reason \in Deferrals, d \in DeferDelays : DeferFor(reason, d)
      BY <2>9 DEF DeferReconcile
    <3>2. now' = now
      BY <3>1 DEF DeferFor
    <3>3. pc' \notin {"act", "create"}
      BY <3>1 DEF DeferFor, Return, ForgetPass, Report
    <3> QED BY <1>1, <3>2, <3>3
  <2>4. CASE Connect \/ ObserveMissing \/ ObserveFound \/ ObserveFails
    BY <1>1, <2>4 DEF Connect, ObserveMissing, ObserveFound, ObserveFails,
                      Return, ForgetPass, Report, GoOn
  <2>5. CASE AdoptCreate \/ AwaitRecovery \/ ClearPending \/ ReportMissing \/ AwaitVisibility
    BY <1>1, <2>5 DEF AdoptCreate, AwaitRecovery, ClearPending, ReportMissing, AwaitVisibility,
                      WriteCritical, Return, ForgetPass, Report, GoOn
  <2>6. CASE Delete \/ RemoveFinalizer \/ CreateSucceeds \/ CreateFails
    BY <1>1, <2>6 DEF Delete, RemoveFinalizer, CreateSucceeds, CreateFails, WriteCritical, Return,
                      ForgetPass, Report
  <2>7. CASE UpdateCriticalAnnotations
    <3>1. now' = now
      BY <2>7 DEF UpdateCriticalAnnotations
    <3>2. pc' \notin {"act", "create"}
      BY <2>7 DEF UpdateCriticalAnnotations, AfterCritical, Return, ForgetPass, Report, GoOn
    <3> QED BY <1>1, <3>1, <3>2
  <2>8. CASE NothingToDo \/ Update \/ StatusUpdate
    BY <1>1, <2>8 DEF NothingToDo, Update, StatusUpdate, Return, ForgetPass, Report
  <2> QED BY <1>2, <2>1, <2>2, <2>3, <2>4, <2>5, <2>6, <2>7, <2>8, <2>9 DEF Reconcile
<1>3. CASE Environment
  <2>1. CASE Crash
    BY <1>1, <2>1 DEF Crash, ForgetPass
  <2>2. CASE ~Crash
    BY <1>0, <1>3, <2>2, EditsKeepMark
  <2> QED BY <2>1, <2>2
<1>4. CASE UNCHANGED vars
  BY <1>0, <1>4 DEF vars, passVars, MarkInv, CreateMarked
<1> QED
  BY <1>2, <1>3, <1>4 DEF Next, Horizon

\* At first no pass runs.
LEMMA MarkInit == Init => MarkInv
<1> SUFFICES ASSUME Init PROVE MarkInv
  OBVIOUS
<1>1. TicksPerSecond \in Nat /\ now = TicksPerSecond /\ pc = "idle"
  BY TicksPerSecondAssumption DEF Init
<1>2. now >= TicksPerSecond
  BY <1>1
<1> QED
  BY <1>1, <1>2, TypeInit DEF MarkInv, CreateMarked

\* Create only ever runs for an object that is stored with its finalizer and with the pending
\* stamp of the very pass that runs it, whatever is edited, lost, crashed or stale.
THEOREM CreateIsMarked == Spec => []CreateMarked
<1>1. MarkInv /\ [Next]_vars => MarkInv'
  BY MarkStep
<1>2. MarkInv => CreateMarked
  BY DEF MarkInv
<1> QED
  BY MarkInit, <1>1, <1>2, PTL DEF Spec

-----------------------------------------------------------------------------
\* Conditions are all that SetReady, SetSynced and SetConditions touch.
LEMMA ConditionsKeep ==
  ASSUME NEW o \in Objects, NEW r, NEW s
  PROVE  \A p \in {SetReady(o, r), SetSynced(o, s), SetConditions(o, r, s)} :
           /\ p.ann = o.ann /\ p.fin = o.fin /\ p.spec = o.spec
           /\ p.deleted = o.deleted /\ p.rv = o.rv /\ p.exists = o.exists
BY DEF Objects, SetReady, SetSynced, SetConditions

\* A result is a deferral only where DeferFor returns it.
LEMMA OnlyDeferralsDefer ==
  /\ NoRequeue.kind # "defer" /\ RateLimited.kind # "defer" /\ Errored.kind # "defer"
  /\ Reobserve.kind # "defer" /\ \A res \in Polls : res.kind # "defer"
BY DEF NoRequeue, RateLimited, Errored, Reobserve, Polls

-----------------------------------------------------------------------------
\* Deferrals.  As long as a pass may be deferred, an unresolved handshake on its copy is one
\* that it found when it began.
DeferInv ==
  /\ TypeOK
  /\ pc = "idle" => ret = NoRequeue
  /\ pc # "idle" /\ Deferrals # {} => (unresolved <=> ExternalCreateIncomplete(pristine.ann))
  /\ pc = "resolve" => unresolved
  /\ pc = "critical" /\ crit.for = "adopt" => unresolved
  /\ pc \in {"connect", "observe", "decide", "act"} => (ExternalCreateIncomplete(managed.ann) => unresolved)
  /\ pc = "status" /\ ret.kind = "defer"
       => Deferrals # {} /\ (ExternalCreateIncomplete(managed.ann) => unresolved)

\* No step lets a handshake appear on the copy that goes to the next gate.
LEMMA DeferStep ==
  ASSUME DeferInv, [Next]_vars
  PROVE  DeferInv'
<1>0. /\ TypeOK' /\ managed \in Objects /\ cached \in Objects /\ server \in Objects
      /\ unresolved \in BOOLEAN
  BY TypeStep DEF DeferInv, TypeOK, PassTyped, WorldTyped
<1>1. ASSUME pc' = "idle", ret' = NoRequeue PROVE DeferInv'
  BY <1>0, <1>1 DEF DeferInv
<1>2. ASSUME UNCHANGED <<pristine, unresolved>>, pc # "idle", pc' = "status", ret'.kind # "defer"
      PROVE  DeferInv'
  BY <1>0, <1>2 DEF DeferInv
<1>3. ASSUME UNCHANGED <<pristine, unresolved>>, pc # "idle",
             pc' \in {"connect", "observe", "decide", "act"},
             ExternalCreateIncomplete(managed'.ann) => unresolved
      PROVE  DeferInv'
  BY <1>0, <1>3 DEF DeferInv
<1>4. ASSUME UNCHANGED <<pristine, unresolved>>, pc # "idle",
             pc' = "create" \/ (pc' = "critical" /\ (crit'.for = "adopt" => unresolved))
      PROVE  DeferInv'
  BY <1>0, <1>4 DEF DeferInv
<1>5. ASSUME NEW res, Return(res) PROVE DeferInv'
  BY <1>1, <1>5 DEF Return, ForgetPass
<1>6. ASSUME NEW m, NEW res, Report(m, res), res.kind # "defer", pc # "idle" PROVE DeferInv'
  BY <1>2, <1>6 DEF Report
<1>7. CASE GetNotFound \/ GetFails
  <2>1. pc = "idle" /\ pc' = pc /\ ret' = ret
    BY <1>7 DEF GetNotFound, GetFails, Dequeue, passVars
  <2> QED BY <1>1, <2>1 DEF DeferInv
<1>8. CASE GetPaused \/ GetOrphaned \/ Get
  <2>1. PICK step \in {"status", "release", "connect"}, m \in {cached, SetSynced(cached, "ReconcilePaused")} :
          BeginPass(step, m)
    BY <1>8 DEF GetPaused, GetOrphaned, Get
  <2>2. /\ pc' = step /\ managed' = m /\ (Deferrals # {} => pristine' = m) /\ ret' = ret
        /\ unresolved' = ExternalCreateIncomplete(m.ann)
    BY <2>1 DEF BeginPass
  <2>3. ret.kind # "defer"
    BY <2>1, OnlyDeferralsDefer DEF BeginPass, Dequeue, DeferInv
  <2> QED BY <1>0, <2>1, <2>2, <2>3, Zenon DEF DeferInv
<1>9. CASE DeferReconcile
  <2>1. PICK reason \in Deferrals, d \in DeferDelays : DeferFor(reason, d)
    BY <1>9 DEF DeferReconcile
  <2> DEFINE m == IF reason = "ramping" THEN managed ELSE SetSynced(managed, "ReconcileDeferred")
  <2>2. pc \in {"connect", "observe", "decide", "act"}
    BY <2>1 DEF DeferFor, AtGate, ToDelete, ToCreate, ToUpdate
  <2>3. m.ann = managed.ann
    BY <1>0, ConditionsKeep
  <2>4. Return(DeferredFor(d)) \/ Report(m, DeferredFor(d))
    BY <2>1 DEF DeferFor
  <2> HIDE DEF m
  <2>5. CASE Report(m, DeferredFor(d))
    <3>1. pc' = "status" /\ managed' = m /\ UNCHANGED <<pristine, unresolved>>
      BY <2>5 DEF Report
    <3> QED BY <1>0, <2>2, <2>3, <3>1 DEF DeferInv
  <2> QED BY <1>5, <2>4, <2>5
<1>10. CASE Connect
  <2>1. pc = "connect"
    BY <1>10 DEF Connect
  <2>2. GoOn("observe", managed) => DeferInv'
    BY <1>3, <2>1 DEF GoOn, DeferInv
  <2> QED BY <1>5, <1>6, <1>10, <2>1, <2>2, OnlyDeferralsDefer DEF Connect
<1>11. CASE ObserveMissing \/ ObserveFound
  <2>1. pc = "observe" /\ UNCHANGED <<pristine, unresolved>> /\ managed'.ann = managed.ann
    <3>1. CASE ObserveMissing
      BY <1>0, <3>1, ConditionsKeep DEF ObserveMissing
    <3>2. CASE ObserveFound
      <4>1. PICK late \in BOOLEAN : managed' = [SetReady(managed, "Available") EXCEPT !.late = @ \/ late]
        BY <3>2 DEF ObserveFound, ConstantsAssumption
      <4>2. managed'.ann = SetReady(managed, "Available").ann
        BY <1>0, <4>1 DEF SetReady, Objects
      <4> QED BY <1>0, <3>2, <4>2, ConditionsKeep DEF ObserveFound
    <3> QED BY <1>11, <3>1, <3>2
  <2>2. pc' = "decide" \/ (pc' = "resolve" /\ unresolved)
    BY <1>11 DEF ObserveMissing, ObserveFound
  <2>3. CASE pc' = "decide"
    BY <1>3, <2>1, <2>3 DEF DeferInv
  <2>4. CASE pc' = "resolve" /\ unresolved
    BY <1>0, <2>1, <2>4 DEF DeferInv
  <2> QED BY <2>2, <2>3, <2>4
<1>12. CASE ObserveFails
  BY <1>5, <1>6, <1>12, OnlyDeferralsDefer DEF ObserveFails
<1>13. CASE AdoptCreate
  BY <1>4, <1>13 DEF AdoptCreate, WriteCritical, DeferInv
<1>14. CASE AwaitRecovery \/ ReportMissing \/ AwaitVisibility
  BY <1>5, <1>6, <1>14, OnlyDeferralsDefer DEF AwaitRecovery, ReportMissing, AwaitVisibility
<1>15. CASE ClearPending
  <2>1. pc = "resolve" /\ unresolved
    BY <1>15 DEF ClearPending, DeferInv
  <2>2. \/ \E m : GoOn("decide", m)
        \/ Return(RateLimited) \/ Return(Errored)
    BY <1>15 DEF ClearPending
  <2>3. \A m : GoOn("decide", m) => DeferInv'
    BY <1>3, <2>1 DEF GoOn
  <2> QED BY <1>5, <2>2, <2>3
<1>16. CASE Delete
  BY <1>6, <1>16, OnlyDeferralsDefer DEF Delete, ToDelete
<1>17. CASE RemoveFinalizer
  <2>1. pc # "idle"
    BY <1>17 DEF RemoveFinalizer, ToRelease
  <2> QED BY <1>5, <1>6, <1>17, <2>1, OnlyDeferralsDefer DEF RemoveFinalizer
<1>18. CASE AddFinalizer
  <2> DEFINE o == [managed EXCEPT !.fin = TRUE]
  <2>1. o \in Objects /\ o.ann = managed.ann
    BY <1>0 DEF Objects
  <2>2. pc = "decide"
    BY <1>18 DEF AddFinalizer
  <2>3. \/ GoOn("act", managed) \/ GoOn("act", Updated(o, "ok"))
        \/ Return(RateLimited) \/ Report(SetSynced(o, "ReconcileError"), Errored)
    BY <1>18 DEF AddFinalizer
  <2>4. Updated(o, "ok").ann = managed.ann
    BY <1>0, <2>1, UpdatedKeeps
  <2> HIDE DEF o
  <2>5. GoOn("act", managed) \/ GoOn("act", Updated(o, "ok")) => DeferInv'
    BY <1>3, <2>2, <2>4 DEF GoOn, DeferInv
  <2> QED BY <1>5, <1>6, <2>2, <2>3, <2>5, OnlyDeferralsDefer
<1>19. CASE BeginCreate
  <2>1. pc = "act"
    BY <1>19 DEF BeginCreate, ToCreate
  <2>2. \A m : GoOn("create", m) => DeferInv'
    BY <1>4, <2>1 DEF GoOn
  <2> QED BY <1>5, <1>6, <1>19, <2>1, <2>2, OnlyDeferralsDefer DEF BeginCreate
<1>20. CASE CreateSucceeds \/ CreateFails
  BY <1>4, <1>20 DEF CreateSucceeds, CreateFails, WriteCritical
<1>21. CASE UpdateCriticalAnnotations
  <2>1. pc = "critical"
    BY <1>21 DEF UpdateCriticalAnnotations
  <2>2. \/ \E m \in Objects, written \in BOOLEAN : AfterCritical(m, written)
        \/ pc' = pc /\ crit'.for = crit.for /\ UNCHANGED <<pristine, unresolved>>
    <3> DEFINE o == [cached EXCEPT !.ann = AddAnnotations(@, crit.ann)]
               back(r) == IF cached.exists THEN Updated(o, r) ELSE managed
    <3>1. o \in Objects
      BY <1>0, AddTyped, AnnotatedTyped DEF Objects, DeferInv, TypeOK, PassTyped, CriticalWrites
    <3>2. \A r \in Replies : back(r) \in Objects
      BY <1>0, <3>1, UpdatedTyped
    <3>3. PICK r \in Replies :
            \/ \E written \in BOOLEAN : AfterCritical(back(r), written)
            \/ pc' = pc /\ crit' = [crit EXCEPT !.tries = @ + 1] /\ UNCHANGED <<pristine, unresolved>>
      BY <1>21 DEF UpdateCriticalAnnotations
    <3>4. back(r) \in Objects
      BY <3>2, <3>3
    <3> HIDE DEF back
    <3>5. crit' = [crit EXCEPT !.tries = @ + 1] => crit'.for = crit.for
      BY DEF DeferInv, TypeOK, PassTyped, CriticalWrites
    <3> QED BY <3>3, <3>4, <3>5
  <2>3. ASSUME NEW m \in Objects, NEW written \in BOOLEAN, AfterCritical(m, written) PROVE DeferInv'
    <3>1. crit.for = "adopt" /\ GoOn("decide", m) => DeferInv'
      BY <1>3, <2>1 DEF GoOn, DeferInv
    <3> QED BY <1>5, <1>6, <2>1, <2>3, <3>1, OnlyDeferralsDefer DEF AfterCritical
  <2>4. CASE pc' = pc /\ crit'.for = crit.for /\ UNCHANGED <<pristine, unresolved>>
    BY <1>4, <2>1, <2>4 DEF DeferInv
  <2> QED BY <2>2, <2>3, <2>4
<1>22. CASE LateInitialize
  <2>1. pc = "act" /\ Updated(managed, "ok").ann = managed.ann
    BY <1>0, <1>22, UpdatedKeeps DEF LateInitialize
  <2>2. \/ pc' = "act" /\ managed' = Updated(managed, "ok") /\ UNCHANGED <<pristine, unresolved>>
        \/ Return(RateLimited) \/ Report(SetSynced(managed, "ReconcileError"), Errored)
    BY <1>22 DEF LateInitialize
  <2>3. CASE pc' = "act" /\ managed' = Updated(managed, "ok") /\ UNCHANGED <<pristine, unresolved>>
    BY <1>3, <2>1, <2>3 DEF DeferInv
  <2> QED BY <1>5, <1>6, <2>1, <2>2, <2>3, OnlyDeferralsDefer
<1>23. CASE NothingToDo \/ Update
  BY <1>6, <1>23, OnlyDeferralsDefer DEF NothingToDo, Update, ToUpdate
<1>24. CASE StatusUpdate
  BY <1>5, <1>24 DEF StatusUpdate
<1>25. CASE Crash
  BY <1>1, <1>25 DEF Crash, ForgetPass
<1>26. CASE UNCHANGED <<pc, passVars>>
  BY <1>0, <1>26 DEF DeferInv, passVars
<1>27. CASE Environment /\ ~Crash
  BY <1>26, <1>27 DEF Environment, LandLate, CacheSync, EditSpec, EditPause, EditPolicy, DeleteObject,
     ExternalVanishes, EditObject, Edit, Tick
<1>28. CASE UNCHANGED vars
  BY <1>26, <1>28 DEF vars
<1> QED
  BY <1>7, <1>8, <1>9, <1>10, <1>11, <1>12, <1>13, <1>14, <1>15, <1>16, <1>17, <1>18, <1>19, <1>20,
     <1>21, <1>22, <1>23, <1>24, <1>25, <1>27, <1>28 DEF Next, Horizon, Reconcile

\* A deferral never ends a pass over a handshake that the pass opened itself: the gate is asked
\* before the pending stamp is written, in every mix of deferrals, faults and edits.
THEOREM DeferralsLeaveNoHandshake == Spec => []DeferralLeavesNoHandshake
<1>1. Init => DeferInv
  BY TypeInit DEF Init, DeferInv
<1>2. DeferInv /\ [Next]_vars => DeferInv'
  BY DeferStep
<1>3. DeferInv => DeferralLeavesNoHandshake
  BY DEF DeferInv, DeferralLeavesNoHandshake
<1> QED
  BY <1>1, <1>2, <1>3, PTL DEF Spec

-----------------------------------------------------------------------------
\* Copies.  No step stores what an old copy says: every update carries the resourceVersion of
\* the copy it was made from.

Held(o)      == o.exists /\ o.deleted => o.fin
Tracks(o, s) == o.rv <= s.rv /\ (o.rv = s.rv => o.fin = s.fin)

\* The pass may still send its copy of the object to the API server.
Carries == \/ pc \in {"release", "connect", "observe", "resolve", "decide", "act"}
           \/ pc = "critical" /\ crit.for = "adopt"

CopyInv ==
  /\ TypeOK
  /\ now > 0
  /\ Held(server) /\ Held(cached) /\ Tracks(cached, server)
  /\ Carries => Tracks(managed, server) /\ (managed.deleted => managed.fin)
  /\ pc = "release" => managed.deleted

\* A write is a new version, unless nothing changed; without the finalizer a deleted object goes.
LEMMA BumpMoves ==
  ASSUME NEW new \in Objects, server \in Objects, Held(server)
  PROVE  /\ Bump(new).deleted = new.deleted
         /\ Bump(new) = server \/ Bump(new).rv = server.rv + 1
         /\ Held(Bump(new))
<1>1. CASE new = server
  BY <1>1 DEF Bump
<1>2. CASE new # server
  <2>1. Bump(new) = [new EXCEPT !.rv = server.rv + 1, !.exists = new.fin \/ ~new.deleted]
    BY <1>2 DEF Bump
  <2>2. /\ Bump(new).rv = server.rv + 1 /\ Bump(new).exists = (new.fin \/ ~new.deleted)
        /\ Bump(new).deleted = new.deleted /\ Bump(new).fin = new.fin
    BY <2>1 DEF Objects
  <2> QED BY <2>2 DEF Held
<1> QED
  BY <1>1, <1>2

LEMMA StoredMoves ==
  ASSUME NEW o \in Objects, server \in Objects, Held(server)
  PROVE  /\ Stored(o).deleted = o.deleted
         /\ Stored(o) = server \/ Stored(o).rv = server.rv + 1
         /\ Held(Stored(o))
<1> DEFINE new == SetConditions(o, server.ready, server.synced)
<1>1. new \in Objects
  BY ConditionsTyped DEF Objects
<1>2. new.deleted = o.deleted
  BY DEF SetConditions, Objects
<1>3. Stored(o) = Bump(new)
  BY DEF Stored
<1> HIDE DEF new
<1> QED
  BY <1>1, <1>2, <1>3, BumpMoves

LEMMA StatusMoves ==
  ASSUME NEW o \in Objects, server \in Objects, Held(server)
  PROVE  /\ StatusStored(o).fin = server.fin
         /\ StatusStored(o) = server \/ StatusStored(o).rv = server.rv + 1
         /\ Held(StatusStored(o))
<1> DEFINE new == SetConditions(server, o.ready, o.synced)
<1>1. o.ready \in ReadyReasons /\ o.synced \in SyncedReasons
  BY DEF Objects
<1>2. new \in Objects
  BY <1>1, ConditionsTyped
<1>3. new.fin = server.fin
  BY DEF SetConditions, Objects
<1>4. StatusStored(o) = Bump(new)
  BY DEF StatusStored
<1> HIDE DEF new
<1> QED
  BY <1>2, <1>3, <1>4, BumpMoves, BumpKeeps

\* The reply to an update is the stored object, but for its status.
LEMMA UpdatedTracks ==
  ASSUME NEW o \in Objects, server \in Objects, Held(server)
  PROVE  /\ Updated(o, "ok").deleted = o.deleted
         /\ Updated(o, "ok").fin = o.fin
         /\ Tracks(Updated(o, "ok"), Stored(o))
<1>1. Stored(o) \in Objects /\ Stored(o).fin = o.fin /\ Stored(o).deleted = o.deleted
  BY StoredTyped, StoredKeeps, StoredMoves
<1>2. Updated(o, "ok") = Stored(o) \/ Updated(o, "ok") = SetConditions(Stored(o), o.ready, o.synced)
  BY DEF Updated, Decoded
<1>3. \A p \in Objects : /\ SetConditions(p, o.ready, o.synced).fin = p.fin
                         /\ SetConditions(p, o.ready, o.synced).deleted = p.deleted
                         /\ SetConditions(p, o.ready, o.synced).rv = p.rv
  BY ConditionsKeep
<1>4. Updated(o, "ok").fin = Stored(o).fin /\ Updated(o, "ok").deleted = Stored(o).deleted
      /\ Updated(o, "ok").rv = Stored(o).rv
  BY <1>1, <1>2, <1>3
<1>5. Stored(o).rv \in Nat
  BY <1>1 DEF Objects
<1> QED
  BY <1>1, <1>4, <1>5 DEF Tracks

\* What a step does to the stored object.  ServerMoves: it is a newer version of it, which has
\* lost the finalizer only if it is gone.
ServerMoves == /\ server.exists
               /\ server'.rv = server.rv + 1
               /\ server.fin => server'.fin \/ ~server'.exists
               /\ Held(server')

LEMMA ClientMoves ==
  ASSUME CopyInv, NEW o \in Objects, NEW r \in Replies, ClientUpdate(o, r),
         Tracks(o, server) \/ o.fin \/ o.deleted
  PROVE  server' = server \/ ServerMoves
<1>0. server \in Objects /\ Held(server)
  BY DEF CopyInv, TypeOK, WorldTyped
<1>1. CASE ~Stores(r)
  BY <1>1 DEF ClientUpdate
<1>2. CASE Stores(r)
  <2>1. server' = Stored(o) /\ server.exists /\ o.rv = server.rv
    BY <1>2 DEF ClientUpdate, MayReply
  <2>2. /\ Stored(o).fin = o.fin /\ Stored(o).deleted = o.deleted /\ Held(Stored(o))
        /\ Stored(o) = server \/ Stored(o).rv = server.rv + 1
    BY <1>0, StoredKeeps, StoredMoves
  <2>3. server.fin => Stored(o).fin \/ ~Stored(o).exists
    BY <2>1, <2>2 DEF Tracks, Held
  <2> QED BY <2>1, <2>2, <2>3 DEF ServerMoves
<1> QED
  BY <1>1, <1>2

LEMMA EditMoves ==
  ASSUME CopyInv, EditSpec \/ EditPause \/ EditPolicy \/ DeleteObject
  PROVE  server' = server \/ ServerMoves
<1>0. server \in Objects /\ server.ann \in Annotations /\ Held(server)
  BY DEF CopyInv, TypeOK, WorldTyped, Objects
<1>1. \E new \in Objects : server' = Bump(new) /\ server.exists /\ new.fin = server.fin
  <2>1. CASE EditSpec
    <3>1. [server EXCEPT !.spec = @ + 1] \in Objects
      BY <1>0 DEF Objects
    <3> QED BY <1>0, <2>1, <3>1 DEF EditSpec, EditObject, Objects
  <2>2. CASE EditPause
    <3>1. PICK p \in {"", "true"} : server.exists /\ server' = Bump([server EXCEPT !.ann.paused = p])
      BY <2>2 DEF EditPause, EditObject
    <3>2. [server EXCEPT !.ann.paused = p] \in Objects /\ [server EXCEPT !.ann.paused = p].fin = server.fin
      BY <1>0 DEF Objects, Annotations
    <3> QED BY <3>1, <3>2
  <2>3. CASE EditPolicy
    <3>1. PICK d \in {"delete", "orphan"} : server.exists /\ server' = Bump([server EXCEPT !.ann.del = d])
      BY <2>3 DEF EditPolicy, EditObject
    <3>2. [server EXCEPT !.ann.del = d] \in Objects /\ [server EXCEPT !.ann.del = d].fin = server.fin
      BY <1>0 DEF Objects, Annotations, DeletionPolicies
    <3> QED BY <3>1, <3>2
  <2>4. CASE DeleteObject
    <3>1. [server EXCEPT !.deleted = TRUE] \in Objects
      BY <1>0 DEF Objects
    <3> QED BY <1>0, <2>4, <3>1 DEF DeleteObject, EditObject, Objects
  <2> QED BY <2>1, <2>2, <2>3, <2>4
<1> QED
  BY <1>0, <1>1, BumpMoves, BumpKeeps DEF ServerMoves

LEMMA ServerStep ==
  ASSUME CopyInv, [Next]_vars
  PROVE  server' = server \/ ServerMoves
<1>0. /\ managed \in Objects /\ cached \in Objects /\ server \in Objects /\ Held(server)
      /\ managed.ann \in Annotations /\ cached.ann \in Annotations /\ crit.ann \in Annotations /\ now \in Nat
  BY DEF CopyInv, TypeOK, PassTyped, WorldTyped, Objects, CriticalWrites
<1>1. ASSUME NEW o \in Objects, NEW r \in Replies, ClientUpdate(o, r),
             o.rv = managed.rv /\ o.fin = managed.fin /\ Carries
      PROVE  server' = server \/ ServerMoves
  BY <1>1, ClientMoves DEF CopyInv, Tracks
<1>2. CASE ClearPending
  <2>1. PICK r \in Replies : ClientUpdate([managed EXCEPT !.ann = RemovePending(@)], r)
    BY <1>2 DEF ClearPending
  <2>2. [managed EXCEPT !.ann = RemovePending(@)] \in Objects
    BY <1>0, StampsTyped, AnnotatedTyped
  <2>3. Carries
    BY <1>2 DEF ClearPending, Carries
  <2> QED BY <1>0, <1>1, <2>1, <2>2, <2>3 DEF Objects
<1>3. CASE BeginCreate
  <2>1. PICK r \in Replies : ClientUpdate([managed EXCEPT !.ann = SetExternalCreatePending(@, now)], r)
    BY <1>3 DEF BeginCreate
  <2>2. [managed EXCEPT !.ann = SetExternalCreatePending(@, now)] \in Objects
    BY <1>0, StampsTyped, AnnotatedTyped
  <2>3. Carries
    BY <1>3 DEF BeginCreate, ToCreate, Carries
  <2> QED BY <1>0, <1>1, <2>1, <2>2, <2>3 DEF Objects
<1>4. CASE LateInitialize
  <2>1. PICK r \in Replies : ClientUpdate(managed, r)
    BY <1>4 DEF LateInitialize
  <2>2. Carries
    BY <1>4 DEF LateInitialize, Carries
  <2> QED BY <1>0, <1>1, <2>1, <2>2
<1>5. CASE AddFinalizer
  <2>1. \/ server' = server
        \/ \E r \in Replies : ClientUpdate([managed EXCEPT !.fin = TRUE], r)
    BY <1>5 DEF AddFinalizer
  <2>2. [managed EXCEPT !.fin = TRUE] \in Objects /\ [managed EXCEPT !.fin = TRUE].fin
    BY <1>0 DEF Objects
  <2> QED BY <2>1, <2>2, ClientMoves
<1>6. CASE RemoveFinalizer
  <2>1. \/ server' = server
        \/ \E r \in Replies : ClientUpdate([managed EXCEPT !.fin = FALSE], r)
    BY <1>6 DEF RemoveFinalizer
  <2>2. managed.deleted
    BY <1>6 DEF RemoveFinalizer, ToRelease, CopyInv
  <2>3. [managed EXCEPT !.fin = FALSE] \in Objects /\ [managed EXCEPT !.fin = FALSE].deleted
    BY <1>0, <2>2 DEF Objects
  <2> QED BY <2>1, <2>3, ClientMoves
<1>7. CASE UpdateCriticalAnnotations
  <2> DEFINE o == [cached EXCEPT !.ann = AddAnnotations(@, crit.ann)]
  <2>1. server' = server \/ \E r \in Replies : ClientUpdate(o, r)
    BY <1>7 DEF UpdateCriticalAnnotations
  <2>2. o \in Objects /\ o.rv = cached.rv /\ o.fin = cached.fin
    BY <1>0, AddTyped DEF Objects
  <2>3. Tracks(o, server)
    BY <2>2 DEF CopyInv, Tracks
  <2> HIDE DEF o
  <2> QED BY <2>1, <2>2, <2>3, ClientMoves
<1>8. CASE StatusUpdate
  <2>1. server' = server \/ (server' = StatusStored(managed) /\ server.exists)
    BY <1>8 DEF StatusUpdate, MayReply
  <2> QED BY <1>0, <2>1, StatusMoves DEF ServerMoves
<1>9. CASE EditSpec \/ EditPause \/ EditPolicy \/ DeleteObject
  BY <1>9, EditMoves
<1>10. CASE DeferReconcile
  BY <1>10 DEF DeferReconcile, DeferFor
<1>11. CASE \/ GetNotFound \/ GetFails \/ GetPaused \/ GetOrphaned \/ Get
            \/ Connect \/ ObserveMissing \/ ObserveFound \/ ObserveFails
  BY <1>11 DEF GetNotFound, GetFails, GetPaused, GetOrphaned, Get, BeginPass,
     Connect, ObserveMissing, ObserveFound, ObserveFails
<1>12. CASE \/ AdoptCreate \/ AwaitRecovery \/ ReportMissing \/ AwaitVisibility \/ Delete
            \/ CreateSucceeds \/ CreateFails \/ NothingToDo \/ Update
  BY <1>12 DEF AdoptCreate, AwaitRecovery, ReportMissing, AwaitVisibility, Delete, CreateSucceeds,
     CreateFails, NothingToDo, Update
<1>13. CASE Crash \/ LandLate \/ CacheSync \/ ExternalVanishes \/ Tick \/ UNCHANGED vars
  BY <1>13 DEF Crash, LandLate, CacheSync, ExternalVanishes, Tick, vars
<1> QED
  BY <1>2, <1>3, <1>4, <1>5, <1>6, <1>7, <1>8, <1>9, <1>10, <1>11, <1>12, <1>13
     DEF Next, Horizon, Reconcile, Environment

\* A copy that was current, or that the step did not touch, stays behind the stored object.
LEMMA TracksOn ==
  ASSUME NEW o \in Objects, Tracks(o, server), server \in Objects, server' = server \/ ServerMoves
  PROVE  Tracks(o, server')
BY DEF Tracks, ServerMoves, Objects

\* The clock goes on by one, and the cache holds what it held or what the server holds.
LEMMA ClockAndCache ==
  ASSUME [Next]_vars
  PROVE  /\ now' = now \/ now' = now + 1
         /\ cached' = cached \/ (cached' = server /\ server' = server)
BY DEF Next, Horizon, Reconcile, Environment, vars, GetNotFound, GetFails, GetPaused, GetOrphaned,
   Get, BeginPass, DeferReconcile, DeferFor, Connect, ObserveMissing, ObserveFound, ObserveFails,
   AdoptCreate, AwaitRecovery, ClearPending, ReportMissing, AwaitVisibility, Delete, RemoveFinalizer,
   AddFinalizer, BeginCreate, CreateSucceeds, CreateFails, UpdateCriticalAnnotations, LateInitialize,
   NothingToDo, Update, StatusUpdate, Crash, LandLate, CacheSync, EditSpec, EditPause, EditPolicy,
   DeleteObject, EditObject, Edit, ExternalVanishes, Tick

LEMMA CopyStep ==
  ASSUME CopyInv, [Next]_vars
  PROVE  CopyInv'
<1>0. /\ TypeOK' /\ managed \in Objects /\ cached \in Objects /\ server \in Objects /\ Held(server)
      /\ managed.ann \in Annotations /\ cached.ann \in Annotations /\ crit.ann \in Annotations /\ now \in Nat
      /\ server' \in Objects
  BY TypeStep DEF CopyInv, TypeOK, PassTyped, WorldTyped, Objects, CriticalWrites
<1>1. server' = server \/ ServerMoves
  BY ServerStep
<1>2. Held(server')
  BY <1>0, <1>1 DEF ServerMoves
<1>3. now' > 0 /\ Held(cached') /\ Tracks(cached', server')
  <2>3. Tracks(cached, server')
    BY <1>0, <1>1, TracksOn DEF CopyInv
  <2>4. Tracks(server, server)
    BY <1>0 DEF Tracks, Objects
  <2> QED BY <1>0, <2>3, <2>4, ClockAndCache DEF CopyInv
<1>4. ASSUME ~Carries' PROVE CopyInv'
  BY <1>0, <1>2, <1>3, <1>4 DEF CopyInv, Carries
<1>5. ASSUME NEW o \in Objects, Tracks(o, server), o.deleted => o.fin,
             managed'.rv = o.rv, managed'.fin = o.fin, managed'.deleted = o.deleted,
             pc' = "release" => o.deleted
      PROVE  CopyInv'
  <2>1. Tracks(o, server')
    BY <1>0, <1>1, <1>5, TracksOn
  <2> QED BY <1>0, <1>2, <1>3, <1>5, <2>1 DEF CopyInv, Tracks
<1>6. ASSUME Carries, pc' # "release",
             managed'.rv = managed.rv, managed'.fin = managed.fin, managed'.deleted = managed.deleted
      PROVE  CopyInv'
  BY <1>0, <1>5, <1>6 DEF CopyInv
<1>7. ASSUME NEW o \in Objects, server' = Stored(o), managed' = Updated(o, "ok"), pc' # "release",
             o.deleted => o.fin
      PROVE  CopyInv'
  <2>1. Tracks(managed', server') /\ (managed'.deleted => managed'.fin)
    BY <1>0, <1>7, UpdatedTracks
  <2> QED BY <1>0, <1>2, <1>3, <1>7, <2>1 DEF CopyInv
<1>8. \A m, res : Return(res) \/ Report(m, res) => ~Carries'
  BY DEF Return, ForgetPass, Report, Carries
<1>9. CASE GetNotFound \/ GetFails
  <2>1. ~Carries'
    BY <1>9 DEF GetNotFound, GetFails, Dequeue, passVars, Carries
  <2> QED BY <1>4, <2>1
<1>10. CASE GetPaused \/ GetOrphaned \/ Get
  <2>1. PICK step \in {"status", "release", "connect"}, m \in {cached, SetSynced(cached, "ReconcilePaused")} :
          BeginPass(step, m) /\ (step = "release" => cached.deleted) /\ cached.exists
    BY <1>10 DEF GetPaused, GetOrphaned, Get
  <2>2. m.rv = cached.rv /\ m.fin = cached.fin /\ m.deleted = cached.deleted
    BY <1>0, <2>1, ConditionsKeep
  <2>3. managed' = m /\ pc' = step
    BY <2>1 DEF BeginPass
  <2> QED BY <1>0, <1>5, <2>1, <2>2, <2>3 DEF CopyInv, Held
<1>11. CASE DeferReconcile
  BY <1>4, <1>8, <1>11 DEF DeferReconcile, DeferFor
<1>12. CASE Connect
  <2>1. GoOn("observe", managed) => CopyInv'
    BY <1>6, <1>12 DEF GoOn, Connect, Carries
  <2> QED BY <1>4, <1>8, <1>12, <2>1 DEF Connect
<1>13. CASE ObserveMissing \/ ObserveFound
  <2>1. Carries /\ pc' \in {"resolve", "decide"}
    BY <1>13 DEF ObserveMissing, ObserveFound, Carries
  <2>2. managed'.rv = managed.rv /\ managed'.fin = managed.fin /\ managed'.deleted = managed.deleted
    <3>1. CASE ObserveMissing
      BY <1>0, <3>1, ConditionsKeep DEF ObserveMissing
    <3>2. CASE ObserveFound
      <4>1. PICK late \in BOOLEAN : managed' = [SetReady(managed, "Available") EXCEPT !.late = @ \/ late]
        BY <3>2 DEF ObserveFound, ConstantsAssumption
      <4> QED BY <1>0, <4>1 DEF SetReady, Objects
    <3> QED BY <1>13, <3>1, <3>2
  <2> QED BY <1>6, <2>1, <2>2
<1>14. CASE ObserveFails \/ AwaitRecovery \/ ReportMissing \/ AwaitVisibility \/ Delete \/ RemoveFinalizer
  BY <1>4, <1>8, <1>14 DEF ObserveFails, AwaitRecovery, ReportMissing, AwaitVisibility, Delete, RemoveFinalizer
<1>15. CASE AdoptCreate
  <2>1. Carries /\ pc' # "release" /\ managed' = [managed EXCEPT !.ann = SetExternalCreateSucceeded(@, now)]
    BY <1>15 DEF AdoptCreate, WriteCritical, Carries
  <2> QED BY <1>0, <1>6, <2>1 DEF Objects
<1>16. CASE ClearPending
  <2> DEFINE o == [managed EXCEPT !.ann = RemovePending(@)]
  <2>1. o \in Objects /\ o.deleted = managed.deleted /\ o.fin = managed.fin
    BY <1>0, StampsTyped, AnnotatedTyped DEF Objects
  <2>2. \/ server' = Stored(o) /\ managed' = Updated(o, "ok") /\ pc' = "decide"
        \/ Return(RateLimited) \/ Return(Errored)
    BY <1>16 DEF ClearPending, ClientUpdate, GoOn, Stores
  <2>3. managed.deleted => managed.fin
    BY <1>16 DEF ClearPending, Carries, CopyInv
  <2> HIDE DEF o
  <2> QED BY <1>4, <1>7, <1>8, <2>1, <2>2, <2>3
<1>17. CASE AddFinalizer
  <2> DEFINE o == [managed EXCEPT !.fin = TRUE]
  <2>1. o \in Objects /\ o.fin
    BY <1>0 DEF Objects
  <2>2. \/ managed' = managed /\ pc' = "act"
        \/ server' = Stored(o) /\ managed' = Updated(o, "ok") /\ pc' = "act"
        \/ Return(RateLimited) \/ Report(SetSynced(o, "ReconcileError"), Errored)
    BY <1>17 DEF AddFinalizer, ClientUpdate, GoOn, Stores
  <2>3. Carries
    BY <1>17 DEF AddFinalizer, Carries
  <2> HIDE DEF o
  <2> QED BY <1>4, <1>6, <1>7, <1>8, <2>1, <2>2, <2>3
<1>18. CASE BeginCreate
  <2>1. pc' \in {"create", "idle", "status"}
    BY <1>18 DEF BeginCreate, GoOn, Return, ForgetPass, Report
  <2> QED BY <1>4, <2>1 DEF Carries
<1>19. CASE CreateSucceeds \/ CreateFails
  <2>1. pc' = "critical" /\ crit'.for # "adopt"
    BY <1>19 DEF CreateSucceeds, CreateFails, WriteCritical
  <2> QED BY <1>4, <2>1 DEF Carries
<1>20. CASE UpdateCriticalAnnotations
  <2> DEFINE o == [cached EXCEPT !.ann = AddAnnotations(@, crit.ann)]
  <2>1. /\ o \in Objects /\ o.rv = cached.rv /\ o.fin = cached.fin /\ o.deleted = cached.deleted
        /\ o.exists = cached.exists
    BY <1>0, AddTyped DEF Objects
  <2>2. pc = "critical"
    BY <1>20 DEF UpdateCriticalAnnotations
  <2>3. CASE crit.for # "adopt"
    <3>1. pc' \in {"idle", "status"} \/ (pc' = "critical" /\ crit' = [crit EXCEPT !.tries = @ + 1])
      BY <1>20, <2>3 DEF UpdateCriticalAnnotations, AfterCritical, Return, ForgetPass, Report
    <3>2. crit' = [crit EXCEPT !.tries = @ + 1] => crit'.for = crit.for
      BY DEF CopyInv, TypeOK, PassTyped, CriticalWrites
    <3> QED BY <1>4, <2>3, <3>1, <3>2 DEF Carries
  <2>4. CASE crit.for = "adopt"
    <3>1. PICK r \in Replies :
            /\ IF cached.exists THEN ClientUpdate(o, r) ELSE r = "notfound"
            /\ LET m == IF cached.exists THEN Updated(o, r) ELSE managed
               IN  \/ r = "ok" /\ AfterCritical(m, TRUE)
                   \/ r # "ok" /\ AfterCritical(m, FALSE)
                   \/ r # "ok" /\ managed' = m /\ pc' = pc
      BY <1>20 DEF UpdateCriticalAnnotations
    <3>2. CASE r = "ok"
      <4>1. /\ server' = Stored(o) /\ cached.exists
            /\ AfterCritical(Updated(o, "ok"), TRUE)
        BY <3>1, <3>2 DEF ClientUpdate, Stores
      <4>2. managed' = Updated(o, "ok") /\ pc' = "decide"
        BY <2>4, <4>1 DEF AfterCritical, GoOn
      <4>3. o.deleted => o.fin
        BY <2>1, <4>1 DEF CopyInv, Held
      <4> HIDE DEF o
      <4> QED BY <1>7, <2>1, <4>1, <4>2, <4>3
    <3>3. CASE r # "ok" /\ pc' = pc /\ ~cached.exists /\ managed' = managed
      BY <1>6, <2>2, <2>4, <3>3 DEF Carries
    <3>4. CASE r # "ok" /\ pc' = pc /\ cached.exists /\ managed' = Updated(o, r)
      <4>1. managed' = o
        BY <3>4 DEF Updated
      <4>2. Tracks(o, server) /\ (o.deleted => o.fin)
        BY <2>1, <3>4 DEF CopyInv, Tracks, Held
      <4> HIDE DEF o
      <4> QED BY <1>5, <2>1, <2>2, <3>4, <4>1, <4>2
    <3>5. CASE r # "ok" /\ \E m : AfterCritical(m, FALSE)
      <4>1. Return(Errored)
        BY <2>4, <3>5 DEF AfterCritical
      <4> QED BY <1>4, <1>8, <4>1
    <3> QED BY <3>1, <3>2, <3>3, <3>4, <3>5
  <2> QED BY <2>3, <2>4
<1>21. CASE LateInitialize
  <2>1. Carries /\ pc = "act" /\ (managed.deleted => managed.fin)
    BY <1>21 DEF LateInitialize, Carries, CopyInv
  <2>2. \/ server' = Stored(managed) /\ managed' = Updated(managed, "ok") /\ pc' = "act"
        \/ Return(RateLimited) \/ Report(SetSynced(managed, "ReconcileError"), Errored)
    BY <1>21 DEF LateInitialize, ClientUpdate, Stores
  <2> QED BY <1>0, <1>4, <1>7, <1>8, <2>1, <2>2
<1>22. CASE NothingToDo \/ Update \/ StatusUpdate
  BY <1>4, <1>8, <1>22 DEF NothingToDo, Update, StatusUpdate
<1>23. CASE Crash
  BY <1>4, <1>23 DEF Crash, ForgetPass, Carries
<1>24. CASE UNCHANGED <<pc, passVars>>
  <2>1. CASE Carries
    BY <1>0, <1>5, <1>24, <2>1 DEF CopyInv, passVars
  <2>2. CASE ~Carries
    BY <1>4, <1>24, <2>2 DEF passVars, Carries
  <2> QED BY <2>1, <2>2
<1>25. CASE Environment /\ ~Crash
  BY <1>24, <1>25 DEF Environment, LandLate, CacheSync, EditSpec, EditPause, EditPolicy, DeleteObject,
     ExternalVanishes, EditObject, Edit, Tick
<1>26. CASE UNCHANGED vars
  BY <1>24, <1>26 DEF vars
<1> QED
  BY <1>9, <1>10, <1>11, <1>12, <1>13, <1>14, <1>15, <1>16, <1>17, <1>18, <1>19, <1>20, <1>21, <1>22,
     <1>23, <1>25, <1>26 DEF Next, Horizon, Reconcile

LEMMA CopyInit == Init => CopyInv
<1> SUFFICES ASSUME Init PROVE CopyInv
  OBVIOUS
<1>1. TicksPerSecond \in Nat /\ TicksPerSecond > 0 /\ now = TicksPerSecond /\ pc = "idle" /\ cached = server
  BY TicksPerSecondAssumption DEF Init
<1>2. server \in Objects /\ ~server.deleted
  BY TypeInit DEF TypeOK, WorldTyped, Init, NoObject
<1>3. server.rv \in Nat
  BY <1>2 DEF Objects
<1> QED
  BY <1>1, <1>2, <1>3, TypeInit DEF CopyInv, Held, Tracks, Carries

-----------------------------------------------------------------------------
\* Finalizers.  Whoever may still make a resource works for an object that holds the finalizer,
\* and only an object that is gone loses it again.
OwnedInv ==
  /\ CopyInv
  /\ MarkInv
  /\ created > 0 \/ inflight # {} => (server.exists => server.fin)

\* Requests reach the external system from Create, or from a Create that outlives its process.
LEMMA RequestsFromCreate ==
  ASSUME TypeOK, [Next]_vars
  PROVE  (created' > 0 \/ inflight' # {}) => (created > 0 \/ inflight # {} \/ pc = "create")
<1>0. created \in Nat
  BY DEF TypeOK, WorldTyped
<1>1. CASE CreateSucceeds \/ CreateFails
  BY <1>1 DEF CreateSucceeds, CreateFails
<1>2. CASE LandLate
  BY <1>2 DEF LandLate
<1>3. CASE Crash
  BY <1>3 DEF Crash
<1>4. CASE Tick
  BY <1>4 DEF Tick
<1>5. CASE UNCHANGED <<inflight, created>>
  BY <1>5
<1>6. CASE DeferReconcile
  BY <1>5, <1>6 DEF DeferReconcile, DeferFor, externalVars
<1>7. CASE \/ GetNotFound \/ GetFails \/ GetPaused \/ GetOrphaned \/ Get
           \/ Connect \/ ObserveMissing \/ ObserveFound \/ ObserveFails
           \/ AdoptCreate \/ AwaitRecovery \/ ClearPending \/ ReportMissing \/ AwaitVisibility
           \/ Delete \/ RemoveFinalizer \/ AddFinalizer
  BY <1>5, <1>7 DEF GetNotFound, GetFails, GetPaused, GetOrphaned, Get, BeginPass, Connect, ObserveMissing,
     ObserveFound, ObserveFails, AdoptCreate, AwaitRecovery, ClearPending, ReportMissing, AwaitVisibility,
     Delete, RemoveFinalizer, AddFinalizer, externalVars
<1>8. CASE \/ BeginCreate \/ UpdateCriticalAnnotations \/ LateInitialize \/ NothingToDo \/ Update
           \/ StatusUpdate \/ CacheSync \/ EditSpec \/ EditPause \/ EditPolicy \/ DeleteObject
           \/ ExternalVanishes \/ UNCHANGED vars
  BY <1>5, <1>8 DEF BeginCreate, UpdateCriticalAnnotations, LateInitialize, NothingToDo, Update, StatusUpdate,
     CacheSync, EditSpec, EditPause, EditPolicy, DeleteObject, EditObject, ExternalVanishes, Edit,
     externalVars, vars
<1> QED
  BY <1>1, <1>2, <1>3, <1>4, <1>6, <1>7, <1>8 DEF Next, Horizon, Reconcile, Environment

LEMMA OwnedStep ==
  ASSUME OwnedInv, [Next]_vars
  PROVE  OwnedInv'
<1>1. CopyInv' /\ MarkInv'
  BY CopyStep, MarkStep DEF OwnedInv
<1>2. server' = server \/ ServerMoves
  BY ServerStep DEF OwnedInv
<1>3. ASSUME created' > 0 \/ inflight' # {}, server'.exists PROVE server'.fin
  <2>1. created > 0 \/ inflight # {} \/ pc = "create"
    BY <1>3, RequestsFromCreate DEF OwnedInv, CopyInv
  <2>2. server.exists => server.fin
    BY <2>1 DEF OwnedInv, MarkInv, CreateMarked
  <2> QED BY <1>2, <1>3, <2>2 DEF ServerMoves
<1> QED
  BY <1>1, <1>3 DEF OwnedInv

\* Where an object starts without external resources, a stored object for which one was ever
\* created holds the finalizer, so that a delete waits for the reconciler: whatever is lost,
\* stale, edited or crashed in between, and even when a request of a dead process lands late.
THEOREM OwnersAreFinalized ==
  ASSUME InitialExternals \subseteq {0}
  PROVE  Spec => []OwnedIsFinalized
<1>1. Init => OwnedInv
  <2> SUFFICES ASSUME Init PROVE OwnedInv
    OBVIOUS
  <2>1. created = 0 /\ inflight = {}
    BY DEF Init
  <2> QED BY <2>1, CopyInit, MarkInit DEF OwnedInv
<1>2. OwnedInv /\ [Next]_vars => OwnedInv'
  BY OwnedStep
<1>3. OwnedInv => OwnedIsFinalized
  BY DEF OwnedInv, OwnedIsFinalized
<1> QED
  BY <1>1, <1>2, <1>3, PTL DEF Spec

-----------------------------------------------------------------------------
\* Requeues.  An object that no pass is due for is gone or paused, if every requeue that is
\* asked for falls due.

PositiveDelays == ReobserveInterval > 0 /\ PollJitter < PollInterval /\ 0 \notin DeferDelays

Rested == ~server.exists \/ ~cached.exists \/ IsPaused(cached.ann)

StrandInv ==
  /\ CopyInv
  /\ pc = "idle" => ret = NoRequeue
  /\ pc = "status" /\ ret.kind = "none" => queued \/ IsPaused(cached.ann)
  /\ pc = "idle" /\ ~queued /\ delayed = 0 => Rested

\* With positive delays only NoRequeue schedules nothing.
LEMMA KeptDelays ==
  ASSUME PositiveDelays, NEW res \in Results, res.kind # "none"
  PROVE  ~Dropped(res) /\ res.after \in Nat
<1> SUFFICES ~Dropped(res)
  BY KeptResult
<1>1. CASE res \in {NoRequeue, RateLimited, Errored, Reobserve}
  <2>1. ReobserveInterval \in Nat /\ ReobserveInterval > 0 /\ res # NoRequeue
    BY ConstantTypes DEF PositiveDelays, NoRequeue
  <2>2. ~Dropped(RateLimited) /\ ~Dropped(Errored)
    BY DEF RateLimited, Errored, Dropped
  <2>3. ~Dropped(Reobserve)
    <3>1. Reobserve.after = ReobserveInterval /\ Reobserve.kind # "none"
      BY DEF Reobserve
    <3>2. ~(ReobserveInterval <= 0)
      BY <2>1
    <3> QED BY <3>1, <3>2 DEF Dropped
  <2> QED BY <1>1, <2>1, <2>2, <2>3
<1>2. CASE res \in Polls
  <2>1. PICK j \in -PollJitter..PollJitter : res = [kind |-> "poll", after |-> PollInterval + j]
    BY <1>2 DEF Polls
  <2>2. res.kind = "poll" /\ res.after > 0
    BY <2>1, ConstantTypes DEF PositiveDelays
  <2>3. res.after \in Int
    BY <2>1, ConstantTypes
  <2> QED BY <2>2, <2>3 DEF Dropped
<1>3. CASE res \in {DeferredFor(d) : d \in DeferDelays}
  <2>1. PICK d \in DeferDelays : res = [kind |-> "defer", after |-> d]
    BY <1>3 DEF DeferredFor
  <2>2. res.kind = "defer" /\ res.after \in Nat /\ res.after # 0
    BY <2>1, ConstantTypes DEF PositiveDelays
  <2> QED BY <2>2 DEF Dropped
<1> QED
  BY <1>1, <1>2, <1>3 DEF Results

\* What each result but NoRequeue is not.
LEMMA OnlyNoRequeueRests ==
  /\ RateLimited.kind # "none" /\ Errored.kind # "none" /\ Reobserve.kind # "none"
  /\ \A res \in Polls : res.kind # "none"
  /\ \A d : DeferredFor(d).kind # "none"
BY DEF RateLimited, Errored, Reobserve, Polls, DeferredFor

LEMMA StrandStep ==
  ASSUME PositiveDelays, StrandInv, [Next]_vars
  PROVE  StrandInv'
<1>0. /\ CopyInv' /\ CopyInv /\ managed \in Objects /\ server \in Objects /\ now \in Nat /\ now > 0
      /\ RetryDelay \in Nat /\ delayed \in Nat /\ ret \in Results
  BY CopyStep, ConstantTypes DEF StrandInv, CopyInv, TypeOK, PassTyped, QueueTyped, WorldTyped
<1>1. server' = server \/ ServerMoves
  BY <1>0, ServerStep
<1>2. ASSUME pc' \notin {"idle", "status"} PROVE StrandInv'
  BY <1>0, <1>2 DEF StrandInv
<1>3. ASSUME NEW res \in Results, res.kind # "none", Return(res) PROVE StrandInv'
  <2>1. ~Dropped(res) /\ res.after \in Nat
    BY <1>3, KeptDelays
  <2>2. AddAfter(now + res.after) # 0
    BY <1>0, <2>1 DEF AddAfter
  <2>3. pc' = "idle" /\ ret' = NoRequeue /\ delayed' # 0
    BY <1>3, <2>1, <2>2 DEF Return, ForgetPass
  <2> QED BY <1>0, <2>3 DEF StrandInv
<1>4. ASSUME NEW m, NEW res, res.kind # "none", Report(m, res) PROVE StrandInv'
  <2>1. pc' = "status" /\ ret' = res
    BY <1>4 DEF Report
  <2> QED BY <1>0, <1>4, <2>1 DEF StrandInv
<1>5. ASSUME UNCHANGED <<pc, ret, queued, delayed, cached>> PROVE StrandInv'
  BY <1>0, <1>1, <1>5 DEF StrandInv, Rested, ServerMoves
<1>6. CASE GetNotFound
  <2>1. pc = "idle" /\ pc' = "idle" /\ ret' = ret /\ cached' = cached /\ ~cached.exists
    BY <1>6 DEF GetNotFound, Dequeue, passVars
  <2> QED BY <1>0, <2>1 DEF StrandInv, Rested
<1>7. CASE GetFails
  <2>1. /\ pc = "idle" /\ pc' = "idle" /\ ret' = ret
        /\ \/ delayed' = now + RetryDelay
           \/ delayed' # 0
    BY <1>7 DEF GetFails, passVars
  <2>2. delayed' # 0
    BY <1>0, <2>1
  <2> QED BY <1>0, <2>1, <2>2 DEF StrandInv
<1>8. CASE GetPaused
  <2>1. IsPaused(cached.ann) /\ pc' = "status" /\ cached' = cached
    BY <1>8 DEF GetPaused, BeginPass
  <2> QED BY <1>0, <2>1 DEF StrandInv
<1>9. CASE GetOrphaned \/ Get
  BY <1>2, <1>9 DEF GetOrphaned, Get, BeginPass
<1>10. CASE DeferReconcile
  <2>1. PICK reason \in Deferrals, d \in DeferDelays : DeferFor(reason, d)
    BY <1>10 DEF DeferReconcile
  <2>2. Return(DeferredFor(d)) \/ \E m : Report(m, DeferredFor(d))
    BY <2>1 DEF DeferFor
  <2> QED BY <1>3, <1>4, <2>2, OnlyNoRequeueRests, ResultsTyped
<1>11. CASE Connect
  <2>1. (\E m : GoOn("observe", m)) \/ Return(RateLimited) \/ \E m : Report(m, Errored)
    BY <1>11 DEF Connect
  <2>2. (\E m : GoOn("observe", m)) => StrandInv'
    BY <1>2 DEF GoOn
  <2> QED BY <1>3, <1>4, <2>1, <2>2, OnlyNoRequeueRests, ResultsTyped
<1>12. CASE ObserveMissing \/ ObserveFound \/ AdoptCreate \/ CreateSucceeds \/ CreateFails
  BY <1>2, <1>12 DEF ObserveMissing, ObserveFound, AdoptCreate, CreateSucceeds, CreateFails, WriteCritical
<1>13. CASE ObserveFails \/ AwaitRecovery \/ ReportMissing \/ AwaitVisibility \/ Delete
  BY <1>3, <1>4, <1>13, OnlyNoRequeueRests, ResultsTyped
     DEF ObserveFails, AwaitRecovery, ReportMissing, AwaitVisibility, Delete
<1>14. CASE ClearPending
  <2>1. (\E m : GoOn("decide", m)) \/ Return(RateLimited) \/ Return(Errored)
    BY <1>14 DEF ClearPending
  <2>2. (\E m : GoOn("decide", m)) => StrandInv'
    BY <1>2 DEF GoOn
  <2> QED BY <1>3, <2>1, <2>2, OnlyNoRequeueRests, ResultsTyped
<1>15. CASE RemoveFinalizer
  <2> DEFINE o == [managed EXCEPT !.fin = FALSE]
  <2>1. managed.deleted /\ managed.fin
    BY <1>15 DEF RemoveFinalizer, ToRelease, StrandInv, CopyInv, Carries
  <2>2. o \in Objects /\ o.deleted /\ ~o.fin
    BY <1>0, <2>1 DEF Objects
  <2>3. \/ Return(NoRequeue) /\ server' = Stored(o)
        \/ Return(NoRequeue) /\ ~server.exists
        \/ Return(RateLimited) \/ Report(SetConditions(o, "Deleting", "ReconcileError"), Errored)
    BY <1>15, <2>1 DEF RemoveFinalizer, ClientUpdate, MayReply, Stores
  <2>4. Stored(o).deleted /\ ~Stored(o).fin /\ Held(Stored(o))
    BY <1>0, <2>2, StoredKeeps, StoredMoves DEF CopyInv
  <2>5. Return(NoRequeue) => pc' = "idle" /\ ret' = NoRequeue
    BY DEF Return, ForgetPass
  <2> HIDE DEF o
  <2>6. CASE Return(NoRequeue) /\ server' = Stored(o)
    BY <1>0, <2>4, <2>5, <2>6 DEF StrandInv, Rested, Held
  <2>7. CASE Return(NoRequeue) /\ ~server.exists
    BY <1>0, <1>1, <2>5, <2>7 DEF StrandInv, Rested, ServerMoves
  <2> QED BY <1>3, <1>4, <2>3, <2>6, <2>7, OnlyNoRequeueRests, ResultsTyped
<1>16. CASE AddFinalizer
  <2>1. (\E m : GoOn("act", m)) \/ Return(RateLimited) \/ \E m : Report(m, Errored)
    BY <1>16 DEF AddFinalizer
  <2>2. (\E m : GoOn("act", m)) => StrandInv'
    BY <1>2 DEF GoOn
  <2> QED BY <1>3, <1>4, <2>1, <2>2, OnlyNoRequeueRests, ResultsTyped
<1>17. CASE BeginCreate
  <2>1. (\E m : GoOn("create", m)) \/ Return(RateLimited) \/ \E m : Report(m, Errored)
    BY <1>17 DEF BeginCreate
  <2>2. (\E m : GoOn("create", m)) => StrandInv'
    BY <1>2 DEF GoOn
  <2> QED BY <1>3, <1>4, <2>1, <2>2, OnlyNoRequeueRests, ResultsTyped
<1>18. CASE UpdateCriticalAnnotations
  <2>1. (\E m, written : AfterCritical(m, written)) \/ pc' = "critical"
    BY <1>18 DEF UpdateCriticalAnnotations
  <2>2. ASSUME NEW m, NEW written, AfterCritical(m, written) PROVE StrandInv'
    <3>1. \/ GoOn("decide", m)
          \/ Return(Errored) \/ Return(RateLimited)
          \/ \E p : Report(p, Errored) \/ Report(p, RateLimited)
      BY <2>2 DEF AfterCritical
    <3>2. GoOn("decide", m) => StrandInv'
      BY <1>2 DEF GoOn
    <3> QED BY <1>3, <1>4, <3>1, <3>2, OnlyNoRequeueRests, ResultsTyped
  <2> QED BY <1>2, <2>1, <2>2
<1>19. CASE LateInitialize
  <2>1. pc' = "act" \/ Return(RateLimited) \/ \E m : Report(m, Errored)
    BY <1>19 DEF LateInitialize
  <2> QED BY <1>2, <1>3, <1>4, <2>1, OnlyNoRequeueRests, ResultsTyped
<1>20. CASE NothingToDo \/ Update
  BY <1>4, <1>20, OnlyNoRequeueRests DEF NothingToDo, Update
<1>21. CASE StatusUpdate
  <2>1. Return(ret) \/ Return(Errored)
    BY <1>21 DEF StatusUpdate
  <2>2. CASE Return(ret) /\ ret.kind = "none"
    <3>1. pc = "status" /\ cached' = cached
      BY <1>21 DEF StatusUpdate
    <3>2. queued \/ IsPaused(cached.ann)
      BY <2>2, <3>1 DEF StrandInv
    <3>3. pc' = "idle" /\ ret' = NoRequeue /\ queued' = queued
      BY <2>2 DEF Return, ForgetPass
    <3> QED BY <1>0, <3>1, <3>2, <3>3 DEF StrandInv, Rested
  <2> QED BY <1>0, <1>3, <2>1, <2>2, OnlyNoRequeueRests, ResultsTyped
<1>22. CASE Crash
  <2>1. pc' = "idle" /\ ret' = NoRequeue /\ queued'
    BY <1>22 DEF Crash, ForgetPass
  <2> QED BY <1>0, <2>1 DEF StrandInv
<1>23. CASE CacheSync
  <2>1. pc' = pc /\ ret' = ret /\ queued'
    BY <1>23 DEF CacheSync, passVars
  <2> QED BY <1>0, <2>1 DEF StrandInv
<1>24. CASE Environment /\ ~Crash /\ ~CacheSync
  BY <1>5, <1>24 DEF Environment, LandLate, EditSpec, EditPause, EditPolicy, DeleteObject,
     ExternalVanishes, EditObject, Edit, Tick, passVars, queueVars
<1>25. CASE UNCHANGED vars
  BY <1>5, <1>25 DEF vars, passVars, queueVars
<1> QED
  BY <1>6, <1>7, <1>8, <1>9, <1>10, <1>11, <1>12, <1>13, <1>14, <1>15, <1>16, <1>17, <1>18, <1>19, <1>20,
     <1>21, <1>22, <1>23, <1>24, <1>25 DEF Next, Horizon, Reconcile

\* With positive delays no early return, fault or crash leaves an object behind that nothing
\* will reconcile again: where no pass is due and the cache is current, it is gone or paused.
THEOREM NothingIsStranded ==
  ASSUME PositiveDelays
  PROVE  Spec => []NeverStranded
<1>1. Init => StrandInv
  BY CopyInit DEF Init, StrandInv
<1>2. StrandInv /\ [Next]_vars => StrandInv'
  BY StrandStep
<1>3. StrandInv => NeverStranded
  BY DEF StrandInv, NeverStranded, Rested
<1> QED
  BY <1>1, <1>2, <1>3, PTL DEF Spec
===============================================================================
