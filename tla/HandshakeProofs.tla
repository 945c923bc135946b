---------------------------- MODULE HandshakeProofs ----------------------------
(***************************************************************************)
(* Proofs about the create handshake of Reconciler: while Create runs the  *)
(* API server shows it; with grace periods long enough for the lag, the    *)
(* length of a pass and the resolution of the stamps no second resource is *)
(* made, and Reconciler implements CreateHandshake; where a created        *)
(* resource is observable at once, no object goes before its resource;     *)
(* success is only stored beside a spec that was observed or applied; and  *)
(* no write of a pass sets an edit of the spec back.                       *)
(***************************************************************************)
EXTENDS ReconcilerProofs, FiniteSetTheorems

-----------------------------------------------------------------------------
\* Stamps: what RFC3339 makes of the times until t.

Stamps(t) == {RFC3339(u) : u \in 0..t}

\* All stamps of the annotations a were made until t.
Stamped(a, t) == {a.pending, a.succeeded, a.failed} \subseteq Stamps(t)

\* No create was stamped as over within the second before t.
Before(a, t) == \A s \in {a.succeeded, a.failed} : s = ZeroTime \/ s + TicksPerSecond <= t

\* Formatting loses less than a second, and keeps the order of times.
LEMMA FormattedTimes ==
  ASSUME NEW t \in Nat
  PROVE  /\ RFC3339(t) \in Nat /\ RFC3339(t) <= t /\ t < RFC3339(t) + TicksPerSecond
         /\ \A u \in 0..t : RFC3339(u) <= RFC3339(t)
<1> DEFINE S == TicksPerSecond
<1>1. S \in Nat /\ S > 0
  BY TicksPerSecondAssumption
<1>2. \A u \in Nat : RFC3339(u) = u - (u % S)
  BY DEF RFC3339
<1> HIDE DEF S
<1>3. t % S \in 0..(S - 1) /\ t % S <= t
  BY <1>1
<1>4. ASSUME NEW u \in 0..t PROVE u - (u % S) <= t - (t % S)
  BY <1>1
<1>5. RFC3339(t) \in Nat /\ RFC3339(t) <= t /\ t < RFC3339(t) + S
  BY <1>1, <1>2, <1>3
<1>6. \A u \in 0..t : RFC3339(u) <= RFC3339(t)
  BY <1>2, <1>4
<1> QED
  BY <1>5, <1>6 DEF S

LEMMA StampsAreTimes ==
  ASSUME NEW t \in Nat
  PROVE  /\ RFC3339(t) \in Stamps(t) /\ ZeroTime \in Stamps(t)
         /\ \A s \in Stamps(t) : s \in Nat /\ s <= t /\ s <= RFC3339(t)
         /\ Stamps(t) \subseteq Stamps(t + 1)
<1>1. RFC3339(0) = 0
  BY FormattedTimes
<1>2. \A u \in 0..t : u \in Nat /\ RFC3339(u) \in Nat /\ RFC3339(u) <= RFC3339(t)
  BY FormattedTimes
<1>3. RFC3339(t) <= t /\ RFC3339(t) \in Nat
  BY FormattedTimes
<1>4. 0 \in 0..t /\ t \in 0..t /\ \A u \in 0..t : u \in 0..(t + 1)
  OBVIOUS
<1> QED
  BY <1>1, <1>2, <1>3, <1>4 DEF Stamps, ZeroTime

\* A pending stamp that is written a second after the last create was over opens a handshake.
LEMMA PendingOpens ==
  ASSUME NEW a \in Annotations, NEW t \in Nat, t >= TicksPerSecond, Before(a, t)
  PROVE  ExternalCreateIncomplete(SetExternalCreatePending(a, t))
<1> DEFINE b == SetExternalCreatePending(a, t)
<1>1. b.pending = RFC3339(t) /\ b.succeeded = a.succeeded /\ b.failed = a.failed
  BY DEF SetExternalCreatePending, Annotations
<1>2. TicksPerSecond \in Nat /\ a.succeeded \in Nat /\ a.failed \in Nat
  BY TicksPerSecondAssumption DEF Annotations
<1>3. RFC3339(t) \in Nat /\ t < RFC3339(t) + TicksPerSecond /\ RFC3339(t) # ZeroTime
  BY FormattedTimes, FormattedPositive
<1>4. a.succeeded < RFC3339(t) /\ a.failed < RFC3339(t)
  BY <1>2, <1>3 DEF Before, ZeroTime
<1> HIDE DEF b
<1>5. ExternalCreateIncomplete(b)
  BY <1>1, <1>2, <1>3, <1>4 DEF ExternalCreateIncomplete, ZeroTime
<1> QED
  BY <1>5 DEF b

\* What UpdateCriticalAnnotations writes: set stamps are those of the pass.
LEMMA AddedStamps ==
  ASSUME NEW a \in Annotations, NEW b \in Annotations, b.pending # ZeroTime, ~ExternalCreateIncomplete(b)
  PROVE  /\ ~ExternalCreateIncomplete(AddAnnotations(a, b))
         /\ b.succeeded # ZeroTime => AddAnnotations(a, b).succeeded = b.succeeded
<1> DEFINE c == AddAnnotations(a, b)
<1>1. /\ c.pending = b.pending
      /\ c.succeeded = IF b.succeeded # ZeroTime THEN b.succeeded ELSE a.succeeded
      /\ c.failed = IF b.failed # ZeroTime THEN b.failed ELSE a.failed
  BY DEF AddAnnotations
<1>2. b.pending \in Nat /\ b.succeeded \in Nat /\ b.failed \in Nat /\ a.succeeded \in Nat /\ a.failed \in Nat
  BY DEF Annotations
<1> HIDE DEF c
<1>3. ~ExternalCreateIncomplete(c) /\ (b.succeeded # ZeroTime => c.succeeded = b.succeeded)
  BY <1>1, <1>2 DEF ExternalCreateIncomplete, ZeroTime
<1> QED
  BY <1>3 DEF c

-----------------------------------------------------------------------------
\* Passes end by their deadlines.

Timely == pc # "idle" => Timeout <= deadline /\ deadline - Timeout <= now /\ now <= deadline

LEMMA TimelyStep ==
  ASSUME TypeOK, Timely, [Next]_vars
  PROVE  Timely'
<1>0. now \in Nat /\ deadline \in Nat /\ Timeout \in Nat
  BY ConstantTypes DEF TypeOK, PassTyped, WorldTyped
<1>1. ASSUME now' = now, pc' = "idle" \/ (pc # "idle" /\ deadline' = deadline)
      PROVE  Timely'
  BY <1>0, <1>1 DEF Timely
<1>2. \A m, res : Return(res) => pc' = "idle"
  BY DEF Return, ForgetPass
<1>3. CASE GetPaused \/ GetOrphaned \/ Get
  <2>1. now' = now /\ deadline' = now + Timeout
    BY <1>3 DEF GetPaused, GetOrphaned, Get, BeginPass
  <2> QED BY <1>0, <2>1 DEF Timely
<1>4. CASE GetNotFound \/ GetFails
  BY <1>1, <1>4 DEF GetNotFound, GetFails, Dequeue
<1>5. CASE Tick
  BY <1>0, <1>5 DEF Tick, Timely, passVars
<1>6. CASE DeferReconcile
  <2>1. pc # "idle"
    BY <1>6 DEF DeferReconcile, DeferFor, AtGate, ToDelete, ToCreate, ToUpdate
  <2> QED BY <1>1, <1>2, <1>6, <2>1 DEF DeferReconcile, DeferFor, Report
<1>7. CASE Connect \/ ObserveMissing \/ ObserveFound \/ ObserveFails \/ AdoptCreate \/ AwaitRecovery \/ ClearPending
  BY <1>1, <1>2, <1>7 DEF Connect, ObserveMissing, ObserveFound, ObserveFails, AdoptCreate, AwaitRecovery,
     ClearPending, GoOn, Report, WriteCritical
<1>8. CASE ReportMissing \/ AwaitVisibility \/ Delete \/ RemoveFinalizer \/ AddFinalizer
  BY <1>1, <1>2, <1>8 DEF ReportMissing, AwaitVisibility, Delete, ToDelete, RemoveFinalizer, ToRelease,
     AddFinalizer, GoOn, Report
<1>9. CASE BeginCreate \/ CreateSucceeds \/ CreateFails
  BY <1>1, <1>2, <1>9 DEF BeginCreate, ToCreate, CreateSucceeds, CreateFails, GoOn, Report, WriteCritical
<1>10. CASE UpdateCriticalAnnotations
  <2>1. now' = now /\ pc # "idle"
    BY <1>10 DEF UpdateCriticalAnnotations
  <2>2. deadline' = deadline \/ \E m, written : AfterCritical(m, written)
    BY <1>10 DEF UpdateCriticalAnnotations
  <2>3. deadline' = deadline \/ pc' = "idle"
    BY <1>2, <2>2 DEF AfterCritical, GoOn, Report
  <2> QED BY <1>1, <2>1, <2>3
<1>11. CASE LateInitialize \/ NothingToDo \/ Update \/ StatusUpdate
  BY <1>1, <1>2, <1>11 DEF LateInitialize, NothingToDo, Update, ToUpdate, StatusUpdate, Report
<1>12. CASE Crash
  BY <1>1, <1>12 DEF Crash, ForgetPass
<1>13. CASE UNCHANGED <<now, pc, deadline>>
  BY <1>13 DEF Timely
<1>14. CASE LandLate \/ CacheSync \/ EditSpec \/ EditPause \/ EditPolicy \/ DeleteObject \/ ExternalVanishes
            \/ UNCHANGED vars
  BY <1>13, <1>14 DEF LandLate, CacheSync, EditSpec, EditPause, EditPolicy, DeleteObject, ExternalVanishes,
     EditObject, Edit, vars, passVars
<1> QED
  BY <1>3, <1>4, <1>5, <1>6, <1>7, <1>8, <1>9, <1>10, <1>11, <1>12, <1>14
     DEF Next, Horizon, Reconcile, Environment
-----------------------------------------------------------------------------
\* Copies.  A copy of the current version has its annotations and its spec, so what a pass decided
\* from its copy it decided from what is stored, if its next write is accepted.

Agrees(o, s) == o.rv <= s.rv /\ (o.rv = s.rv => o.ann = s.ann /\ o.spec = s.spec)

\* The pass has a copy of the object as it was read or last written.
Reading == pc \in {"release", "connect", "observe", "resolve", "decide", "act"}

AgreeInv ==
  /\ CopyInv
  /\ Agrees(cached, server)
  /\ Reading => Agrees(managed, server)
  /\ pc \in {"connect", "observe", "resolve"} => (unresolved <=> ExternalCreateIncomplete(managed.ann))
  /\ pc = "resolve" => unresolved
  /\ pc = "critical" /\ crit.for = "adopt" => obs.exists
  /\ pc \in {"decide", "act"} /\ ~obs.exists /\ ~managed.deleted => ~ExternalCreateIncomplete(managed.ann)
  /\ pc = "act" => ~managed.deleted

\* The reply to an update agrees with what is stored.
LEMMA UpdatedAgrees ==
  ASSUME NEW o \in Objects, server \in Objects, Held(server)
  PROVE  /\ Agrees(Updated(o, "ok"), Stored(o))
         /\ Updated(o, "ok").ann = o.ann
         /\ Updated(o, "ok").deleted = o.deleted
         /\ Updated(o, "ok").spec = o.spec /\ Stored(o).spec = o.spec
<1>1. Updated(o, "ok").ann = o.ann /\ Stored(o).ann = o.ann /\ Updated(o, "ok").deleted = o.deleted
  BY UpdatedKeeps, StoredKeeps, UpdatedTracks
<1>2. Updated(o, "ok").rv <= Stored(o).rv
  BY UpdatedTracks DEF Tracks
<1>3. Stored(o) \in Objects /\ Stored(o).spec = o.spec
  BY StoredTyped, StoredKeeps
<1>4. Updated(o, "ok") = Stored(o) \/ Updated(o, "ok") = SetConditions(Stored(o), o.ready, o.synced)
  BY DEF Updated, Decoded
<1>5. Updated(o, "ok").spec = o.spec
  BY <1>3, <1>4, ConditionsKeep
<1> QED
  BY <1>1, <1>2, <1>3, <1>5 DEF Agrees

\* What Observe tells sets the conditions of the copy, and may late-initialize a field of it.
LEMMA ObservedKeeps ==
  ASSUME managed \in Objects, ObserveMissing \/ ObserveFound
  PROVE  /\ managed'.ann = managed.ann /\ managed'.rv = managed.rv /\ managed'.deleted = managed.deleted
         /\ managed'.fin = managed.fin /\ managed'.spec = managed.spec
<1>1. CASE ObserveMissing
  BY <1>1, ConditionsKeep DEF ObserveMissing, SetReady, Objects
<1>2. CASE ObserveFound
  <2>1. PICK late \in BOOLEAN : managed' = [SetReady(managed, "Available") EXCEPT !.late = @ \/ late]
    BY <1>2 DEF ObserveFound, ConstantsAssumption
  <2> QED BY <2>1 DEF SetReady, Objects
<1> QED
  BY <1>1, <1>2

LEMMA AgreesOn ==
  ASSUME NEW o \in Objects, Agrees(o, server), server \in Objects, server' = server \/ ServerMoves
  PROVE  Agrees(o, server')
BY DEF Agrees, ServerMoves, Objects

LEMMA AgreeStep ==
  ASSUME AgreeInv, [Next]_vars
  PROVE  AgreeInv'
<1>0. /\ CopyInv /\ CopyInv' /\ managed \in Objects /\ cached \in Objects /\ server \in Objects /\ Held(server)
      /\ managed.ann \in Annotations /\ cached.ann \in Annotations /\ crit.ann \in Annotations /\ now \in Nat
      /\ server' \in Objects
  BY CopyStep, TypeStep DEF AgreeInv, CopyInv, TypeOK, PassTyped, WorldTyped, Objects, CriticalWrites
<1>1. server' = server \/ ServerMoves
  BY <1>0, ServerStep
<1>2. Agrees(cached', server')
  <2>1. Agrees(cached, server') /\ Agrees(server, server)
    BY <1>0, <1>1, AgreesOn DEF AgreeInv, Agrees, Objects
  <2> QED BY <2>1, ClockAndCache
<1>3. ASSUME pc' \notin {"release", "connect", "observe", "resolve", "decide", "act"},
             pc' = "critical" /\ crit'.for = "adopt" => obs'.exists
      PROVE  AgreeInv'
  BY <1>0, <1>2, <1>3 DEF AgreeInv, Reading
<1>4. ASSUME NEW o \in Objects, Agrees(o, server), managed'.rv = o.rv, managed'.ann = o.ann, managed'.spec = o.spec
      PROVE  Agrees(managed', server')
  <2>1. Agrees(o, server')
    BY <1>0, <1>1, <1>4, AgreesOn
  <2> QED BY <1>4, <2>1 DEF Agrees
<1>5. \A m, res : Return(res) \/ Report(m, res) => AgreeInv'
  <2>1. \A m, res : Return(res) \/ Report(m, res) => pc' \in {"idle", "status"}
    BY DEF Return, ForgetPass, Report
  <2> QED BY <1>3, <2>1
<1>6. CASE GetNotFound \/ GetFails
  <2>1. pc' = "idle"
    BY <1>6 DEF GetNotFound, GetFails, Dequeue, passVars
  <2> QED BY <1>3, <2>1
<1>7. CASE GetPaused
  <2>1. pc' = "status"
    BY <1>7 DEF GetPaused, BeginPass
  <2> QED BY <1>3, <2>1
<1>8. CASE GetOrphaned \/ Get
  <2>1. pc' \in {"release", "connect"} /\ managed' = cached /\ unresolved' = ExternalCreateIncomplete(cached.ann)
    BY <1>8 DEF GetOrphaned, Get, BeginPass
  <2>2. Agrees(managed', server')
    BY <1>0, <1>4, <2>1 DEF AgreeInv
  <2> QED BY <1>0, <1>2, <2>1, <2>2, Zenon DEF AgreeInv, Reading
<1>9. CASE DeferReconcile
  BY <1>5, <1>9 DEF DeferReconcile, DeferFor
<1>10. CASE Connect
  <2>1. GoOn("observe", managed) => AgreeInv'
    <3> SUFFICES ASSUME GoOn("observe", managed) PROVE AgreeInv'
      OBVIOUS
    <3>1. pc = "connect" /\ pc' = "observe" /\ managed' = managed /\ unresolved' = unresolved
      BY <1>10 DEF GoOn, Connect
    <3>2. Agrees(managed', server')
      BY <1>0, <1>4, <3>1 DEF AgreeInv, Reading
    <3> QED BY <1>0, <1>2, <3>1, <3>2, Zenon DEF AgreeInv
  <2> QED BY <1>5, <1>10, <2>1 DEF Connect
<1>11. CASE ObserveMissing \/ ObserveFound
  <2>1. pc = "observe" /\ unresolved' = unresolved /\ managed'.ann = managed.ann /\ managed'.rv = managed.rv
        /\ managed'.deleted = managed.deleted /\ managed'.spec = managed.spec
    BY <1>0, <1>11, ObservedKeeps DEF ObserveMissing, ObserveFound
  <2>2. \/ pc' = "resolve" /\ unresolved
        \/ pc' = "decide" /\ (~unresolved \/ managed.deleted \/ obs'.exists)
    BY <1>11 DEF ObserveMissing, ObserveFound
  <2>3. Agrees(managed', server') /\ (unresolved <=> ExternalCreateIncomplete(managed.ann))
    BY <1>0, <1>4, <2>1 DEF AgreeInv, Reading
  <2> QED BY <1>0, <1>2, <2>1, <2>2, <2>3, Zenon DEF AgreeInv
<1>12. CASE ObserveFails \/ AwaitRecovery \/ ReportMissing \/ AwaitVisibility \/ Delete \/ RemoveFinalizer
  BY <1>5, <1>12 DEF ObserveFails, AwaitRecovery, ReportMissing, AwaitVisibility, Delete, RemoveFinalizer
<1>13. CASE AdoptCreate \/ CreateSucceeds \/ CreateFails
  <2>1. pc' = "critical" /\ (crit'.for = "adopt" => obs'.exists)
    BY <1>13 DEF AdoptCreate, CreateSucceeds, CreateFails, WriteCritical
  <2> QED BY <1>3, <2>1
<1>14. CASE ClearPending
  <2> DEFINE o == [managed EXCEPT !.ann = RemovePending(@)]
  <2>1. o \in Objects /\ ~ExternalCreateIncomplete(o.ann)
    BY <1>0, StampsTyped, AnnotatedTyped DEF Objects, RemovePending, ExternalCreateIncomplete, Annotations
  <2>2. \/ server' = Stored(o) /\ managed' = Updated(o, "ok") /\ pc' = "decide"
        \/ Return(RateLimited) \/ Return(Errored)
    BY <1>14 DEF ClearPending, ClientUpdate, GoOn, Stores
  <2> HIDE DEF o
  <2>3. CASE server' = Stored(o) /\ managed' = Updated(o, "ok") /\ pc' = "decide"
    <3>1. Agrees(managed', server') /\ managed'.ann = o.ann
      BY <1>0, <2>1, <2>3, UpdatedAgrees
    <3> QED BY <1>0, <1>2, <2>1, <2>3, <3>1, Zenon DEF AgreeInv
  <2> QED BY <1>5, <2>2, <2>3
<1>15. ASSUME NEW o \in Objects, pc \in {"decide", "act"}, pc' = "act", obs'.exists = obs.exists,
             ~managed.deleted, o.deleted = managed.deleted, o.ann = managed.ann, o.spec = managed.spec,
             \/ managed' = o /\ o.rv = managed.rv
             \/ managed' = Updated(o, "ok") /\ server' = Stored(o)
       PROVE  AgreeInv'
  <2>1. Agrees(managed', server') /\ managed'.ann = managed.ann /\ managed'.deleted = managed.deleted
    <3>1. Agrees(managed, server)
      BY <1>15 DEF AgreeInv, Reading
    <3>2. CASE managed' = o /\ o.rv = managed.rv
      BY <1>0, <1>4, <1>15, <3>1, <3>2
    <3>3. CASE managed' = Updated(o, "ok") /\ server' = Stored(o)
      BY <1>0, <1>15, <3>3, UpdatedAgrees
    <3> QED BY <1>15, <3>2, <3>3
  <2>2. ~obs.exists => ~ExternalCreateIncomplete(managed.ann)
    BY <1>15 DEF AgreeInv
  <2> QED BY <1>0, <1>2, <1>15, <2>1, <2>2, Zenon DEF AgreeInv
<1>16. CASE AddFinalizer
  <2> DEFINE o == [managed EXCEPT !.fin = TRUE]
  <2>1. o \in Objects /\ o.ann = managed.ann /\ o.deleted = managed.deleted /\ o.spec = managed.spec
    BY <1>0 DEF Objects
  <2>2. pc = "decide" /\ ~managed.deleted
    BY <1>16 DEF AddFinalizer
  <2>3. \/ managed' = managed /\ pc' = "act" /\ obs' = obs
        \/ server' = Stored(o) /\ managed' = Updated(o, "ok") /\ pc' = "act" /\ obs' = obs
        \/ Return(RateLimited) \/ Report(SetSynced(o, "ReconcileError"), Errored)
    BY <1>16 DEF AddFinalizer, ClientUpdate, GoOn, Stores
  <2> HIDE DEF o
  <2> QED BY <1>0, <1>5, <1>15, <2>1, <2>2, <2>3
<1>17. CASE BeginCreate
  <2>1. pc' \in {"create", "idle", "status"}
    BY <1>17 DEF BeginCreate, GoOn, Return, ForgetPass, Report
  <2> QED BY <1>3, <2>1
<1>18. CASE UpdateCriticalAnnotations
  <2> DEFINE o == [cached EXCEPT !.ann = AddAnnotations(@, crit.ann)]
             back(r) == IF cached.exists THEN Updated(o, r) ELSE managed
  <2>1. o \in Objects /\ pc = "critical"
    BY <1>0, <1>18, AddTyped, AnnotatedTyped DEF UpdateCriticalAnnotations
  <2>2. PICK r \in Replies :
          \/ AfterCritical(back(r), FALSE)
          \/ r = "ok" /\ AfterCritical(back(r), TRUE) /\ cached.exists /\ server' = Stored(o)
          \/ pc' = "critical" /\ crit' = [crit EXCEPT !.tries = @ + 1] /\ obs' = obs
    BY <1>18 DEF UpdateCriticalAnnotations, ClientUpdate, Stores
  <2> HIDE DEF o
  <2>3. CASE pc' = "critical" /\ crit' = [crit EXCEPT !.tries = @ + 1] /\ obs' = obs
    <3>1. crit'.for = crit.for
      BY <2>3 DEF AgreeInv, CopyInv, TypeOK, PassTyped, CriticalWrites
    <3> QED BY <1>3, <2>1, <2>3, <3>1 DEF AgreeInv
  <2>4. CASE r = "ok" /\ crit.for = "adopt" /\ GoOn("decide", Updated(o, "ok")) /\ server' = Stored(o)
    <3>1. pc' = "decide" /\ managed' = Updated(o, "ok") /\ obs' = obs
      BY <2>4 DEF GoOn
    <3>2. obs'.exists /\ Agrees(managed', server')
      BY <1>0, <2>1, <2>4, <3>1, UpdatedAgrees DEF AgreeInv
    <3> QED BY <1>0, <1>2, <3>1, <3>2, Zenon DEF AgreeInv
  <2> QED BY <1>5, <2>2, <2>3, <2>4 DEF AfterCritical
<1>19. CASE LateInitialize
  <2>1. pc = "act" /\ ~managed.deleted
    BY <1>19 DEF LateInitialize, AgreeInv
  <2>2. \/ /\ server' = Stored(managed) /\ managed' = Updated(managed, "ok") /\ pc' = "act"
           /\ obs' = [obs EXCEPT !.late = FALSE]
        \/ Return(RateLimited) \/ Report(SetSynced(managed, "ReconcileError"), Errored)
    BY <1>19 DEF LateInitialize, ClientUpdate, Stores
  <2>3. [obs EXCEPT !.late = FALSE].exists = obs.exists
    BY DEF AgreeInv, CopyInv, TypeOK, PassTyped, Observations
  <2> QED BY <1>0, <1>5, <1>15, <2>1, <2>2, <2>3
<1>20. CASE NothingToDo \/ Update \/ StatusUpdate
  BY <1>5, <1>20 DEF NothingToDo, Update, StatusUpdate
<1>21. CASE Crash
  BY <1>3, <1>21 DEF Crash, ForgetPass
<1>22. CASE UNCHANGED <<pc, passVars>>
  <2>1. Reading => Agrees(managed', server')
    BY <1>0, <1>4, <1>22 DEF AgreeInv, passVars
  <2> QED BY <1>0, <1>2, <1>22, <2>1 DEF AgreeInv, Reading, passVars
<1>23. CASE Environment /\ ~Crash
  BY <1>22, <1>23 DEF Environment, LandLate, CacheSync, EditSpec, EditPause, EditPolicy, DeleteObject,
     ExternalVanishes, EditObject, Edit, Tick
<1>24. CASE UNCHANGED vars
  BY <1>22, <1>24 DEF vars
<1> QED
  BY <1>6, <1>7, <1>8, <1>9, <1>10, <1>11, <1>12, <1>13, <1>14, <1>16, <1>17, <1>18, <1>19, <1>20,
     <1>21, <1>23, <1>24 DEF Next, Horizon, Reconcile

LEMMA AgreeInit == Init => AgreeInv
<1> SUFFICES ASSUME Init PROVE AgreeInv
  OBVIOUS
<1>1. CopyInv /\ cached = server /\ pc = "idle"
  BY CopyInit DEF Init
<1>2. server.rv \in Nat
  BY <1>1 DEF CopyInv, TypeOK, WorldTyped, Objects
<1> QED
  BY <1>1, <1>2 DEF AgreeInv, Agrees, Reading
-----------------------------------------------------------------------------
\* Stamps on the objects.

SameStamps(a, b) == a.pending = b.pending /\ a.succeeded = b.succeeded /\ a.failed = b.failed

\* The three writes that touch the stored stamps, by a pass whose copy is current.
Cleared == ClearPending /\ managed.rv = server.rv /\ server'.ann = RemovePending(server.ann)
Begun   == BeginCreate /\ managed.rv = server.rv /\ server'.ann = SetExternalCreatePending(server.ann, now)
Added   == UpdateCriticalAnnotations /\ server'.ann = AddAnnotations(server.ann, crit.ann)

LEMMA ServerStamps ==
  ASSUME AgreeInv, [Next]_vars
  PROVE  SameStamps(server'.ann, server.ann) \/ Cleared \/ Begun \/ Added
<1>0. /\ managed \in Objects /\ cached \in Objects /\ server \in Objects
      /\ managed.ann \in Annotations /\ cached.ann \in Annotations /\ crit.ann \in Annotations /\ now \in Nat
      /\ server.ann \in Annotations
  BY DEF AgreeInv, CopyInv, TypeOK, PassTyped, WorldTyped, Objects, CriticalWrites
<1>1. CASE server' = server
  BY <1>1 DEF SameStamps
<1>2. ASSUME NEW o \in Objects, NEW r \in Replies, ClientUpdate(o, r), o.rv = managed.rv, Reading
      PROVE  server' = server \/ (managed.rv = server.rv /\ managed.ann = server.ann /\ server'.ann = o.ann)
  <2>1. server' = server \/ (server' = Stored(o) /\ o.rv = server.rv)
    BY <1>2 DEF ClientUpdate, MayReply
  <2> QED BY <1>0, <1>2, <2>1, StoredKeeps DEF AgreeInv, Agrees
<1>3. ASSUME NEW o \in Objects, NEW r \in Replies, ClientUpdate(o, r), o.rv = managed.rv, Reading,
             o.ann = managed.ann
      PROVE  SameStamps(server'.ann, server.ann)
  BY <1>1, <1>2, <1>3 DEF SameStamps
<1>4. CASE ClearPending
  <2>1. PICK r \in Replies : ClientUpdate([managed EXCEPT !.ann = RemovePending(@)], r)
    BY <1>4 DEF ClearPending
  <2>2. [managed EXCEPT !.ann = RemovePending(@)] \in Objects
    BY <1>0, StampsTyped, AnnotatedTyped
  <2>3. Reading
    BY <1>4 DEF ClearPending, Reading
  <2> QED BY <1>0, <1>1, <1>2, <1>4, <2>1, <2>2, <2>3 DEF Objects, Cleared
<1>5. CASE BeginCreate
  <2>1. PICK r \in Replies : ClientUpdate([managed EXCEPT !.ann = SetExternalCreatePending(@, now)], r)
    BY <1>5 DEF BeginCreate
  <2>2. [managed EXCEPT !.ann = SetExternalCreatePending(@, now)] \in Objects
    BY <1>0, StampsTyped, AnnotatedTyped
  <2>3. Reading
    BY <1>5 DEF BeginCreate, ToCreate, Reading
  <2> QED BY <1>0, <1>1, <1>2, <1>5, <2>1, <2>2, <2>3 DEF Objects, Begun
<1>6. CASE UpdateCriticalAnnotations
  <2> DEFINE o == [cached EXCEPT !.ann = AddAnnotations(@, crit.ann)]
  <2>1. o \in Objects /\ o.rv = cached.rv /\ o.ann = AddAnnotations(cached.ann, crit.ann)
    BY <1>0, AddTyped, AnnotatedTyped DEF Objects
  <2>2. server' = server \/ (server' = Stored(o) /\ o.rv = server.rv)
    BY <1>6 DEF UpdateCriticalAnnotations, ClientUpdate, MayReply
  <2> HIDE DEF o
  <2>3. server' = Stored(o) => server'.ann = o.ann
    BY <1>0, <2>1, StoredKeeps
  <2> QED BY <1>0, <1>1, <1>6, <2>1, <2>2, <2>3 DEF AgreeInv, Agrees, Added
<1>7. CASE LateInitialize
  <2>1. PICK r \in Replies : ClientUpdate(managed, r)
    BY <1>7 DEF LateInitialize
  <2> QED BY <1>0, <1>3, <1>7, <2>1 DEF LateInitialize, Reading
<1>8. CASE AddFinalizer
  <2>1. \/ server' = server
        \/ \E r \in Replies : ClientUpdate([managed EXCEPT !.fin = TRUE], r)
    BY <1>8 DEF AddFinalizer
  <2>2. [managed EXCEPT !.fin = TRUE] \in Objects
    BY <1>0 DEF Objects
  <2> QED BY <1>0, <1>1, <1>3, <1>8, <2>1, <2>2 DEF AddFinalizer, Reading, Objects
<1>9. CASE RemoveFinalizer
  <2>1. \/ server' = server
        \/ \E r \in Replies : ClientUpdate([managed EXCEPT !.fin = FALSE], r)
    BY <1>9 DEF RemoveFinalizer
  <2>2. [managed EXCEPT !.fin = FALSE] \in Objects
    BY <1>0 DEF Objects
  <2>3. Reading
    BY <1>9 DEF RemoveFinalizer, ToRelease, Reading
  <2> QED BY <1>0, <1>1, <1>3, <2>1, <2>2, <2>3 DEF Objects
<1>10. CASE StatusUpdate
  <2>1. server' = server \/ server' = Bump(SetConditions(server, managed.ready, managed.synced))
    BY <1>10 DEF StatusUpdate, StatusStored
  <2>2. SetConditions(server, managed.ready, managed.synced) \in Objects
    BY <1>0, ConditionsTyped DEF Objects
  <2>3. SetConditions(server, managed.ready, managed.synced).ann = server.ann
    BY <1>0, ConditionsKeep
  <2> QED BY <1>0, <2>1, <2>2, <2>3, BumpKeeps DEF SameStamps
<1>11. ASSUME NEW new \in Objects, server' = Bump(new), SameStamps(new.ann, server.ann)
       PROVE  SameStamps(server'.ann, server.ann)
  BY <1>0, <1>11, BumpKeeps
<1>12. CASE EditSpec
  <2>1. [server EXCEPT !.spec = @ + 1] \in Objects
    BY <1>0 DEF Objects
  <2> QED BY <1>0, <1>11, <1>12, <2>1 DEF EditSpec, EditObject, Objects, SameStamps
<1>13. CASE EditPause
  <2>1. PICK p \in {"", "true"} : server' = Bump([server EXCEPT !.ann.paused = p])
    BY <1>13 DEF EditPause, EditObject
  <2>2. [server EXCEPT !.ann.paused = p] \in Objects
        /\ SameStamps([server EXCEPT !.ann.paused = p].ann, server.ann)
    BY <1>0 DEF Objects, Annotations, SameStamps
  <2> QED BY <1>11, <2>1, <2>2
<1>14. CASE EditPolicy
  <2>1. PICK d \in {"delete", "orphan"} : server' = Bump([server EXCEPT !.ann.del = d])
    BY <1>14 DEF EditPolicy, EditObject
  <2>2. [server EXCEPT !.ann.del = d] \in Objects
        /\ SameStamps([server EXCEPT !.ann.del = d].ann, server.ann)
    BY <1>0 DEF Objects, Annotations, DeletionPolicies, SameStamps
  <2> QED BY <1>11, <2>1, <2>2
<1>15. CASE DeleteObject
  <2>1. [server EXCEPT !.deleted = TRUE] \in Objects
    BY <1>0 DEF Objects
  <2> QED BY <1>0, <1>11, <1>15, <2>1 DEF DeleteObject, EditObject, Objects, SameStamps
<1>16. CASE DeferReconcile
  BY <1>1, <1>16 DEF DeferReconcile, DeferFor
<1>17. CASE \/ GetNotFound \/ GetFails \/ GetPaused \/ GetOrphaned \/ Get
            \/ Connect \/ ObserveMissing \/ ObserveFound \/ ObserveFails
  BY <1>1, <1>17 DEF GetNotFound, GetFails, GetPaused, GetOrphaned, Get, BeginPass,
     Connect, ObserveMissing, ObserveFound, ObserveFails
<1>18. CASE \/ AdoptCreate \/ AwaitRecovery \/ ReportMissing \/ AwaitVisibility \/ Delete
            \/ CreateSucceeds \/ CreateFails \/ NothingToDo \/ Update
  BY <1>1, <1>18 DEF AdoptCreate, AwaitRecovery, ReportMissing, AwaitVisibility, Delete, CreateSucceeds,
     CreateFails, NothingToDo, Update
<1>19. CASE Crash \/ LandLate \/ CacheSync \/ ExternalVanishes \/ Tick \/ UNCHANGED vars
  BY <1>1, <1>19 DEF Crash, LandLate, CacheSync, ExternalVanishes, Tick, vars
<1> QED
  BY <1>4, <1>5, <1>6, <1>7, <1>8, <1>9, <1>10, <1>12, <1>13, <1>14, <1>15, <1>16, <1>17, <1>18, <1>19
     DEF Next, Horizon, Reconcile, Environment
-----------------------------------------------------------------------------
\* Every stamp was made until now, and those of creates that are over are a second old when a
\* pass reads them: passes are apart, and so is the pass after a crash.

PassesAreApart == PassGap >= TicksPerSecond /\ RestartDelay >= TicksPerSecond

\* The pass has not seen the resource, and may come to create it.
Unopened == \/ pc \in {"connect", "observe"}
            \/ pc \in {"resolve", "decide", "act"} /\ ~obs.exists

StampInv ==
  /\ AgreeInv
  /\ MarkInv
  /\ Stamped(server.ann, now) /\ Stamped(cached.ann, now)
  /\ pc = "idle" => Before(server.ann, notBefore) /\ Before(cached.ann, notBefore)
  /\ pc # "idle" => Stamped(managed.ann, now)
  /\ pc = "critical" => Stamped(crit.ann, now)
  /\ Unopened => Before(managed.ann, now)
  /\ CreateDetectable

LEMMA StampedOn ==
  ASSUME NEW a \in Annotations, NEW b, SameStamps(b, a), NEW t \in Nat, NEW u, u = t \/ u = t + 1
  PROVE  /\ Stamped(a, t) => Stamped(b, u)
         /\ Before(a, t) => Before(b, u)
<1>1. Stamps(t) \subseteq Stamps(u)
  BY StampsAreTimes
<1>2. TicksPerSecond \in Nat /\ a.succeeded \in Nat /\ a.failed \in Nat
  BY TicksPerSecondAssumption DEF Annotations
<1> QED
  BY <1>1, <1>2 DEF SameStamps, Stamped, Before

\* What was stamped until t is before the passes from a second after t on.
LEMMA StampedBefore ==
  ASSUME NEW a \in Annotations, NEW t \in Nat, NEW gap \in Nat, gap >= TicksPerSecond, Stamped(a, t)
  PROVE  Before(a, t + gap)
<1>1. TicksPerSecond \in Nat
  BY TicksPerSecondAssumption
<1>2. \A s \in {a.succeeded, a.failed} : s \in Nat /\ s <= t
  BY StampsAreTimes DEF Stamped
<1> QED
  BY <1>1, <1>2 DEF Before

LEMMA BeforeLater ==
  ASSUME NEW a \in Annotations, NEW t \in Nat, NEW u \in Nat, t <= u, Before(a, t)
  PROVE  Before(a, u)
<1>1. TicksPerSecond \in Nat /\ a.succeeded \in Nat /\ a.failed \in Nat
  BY TicksPerSecondAssumption DEF Annotations
<1> QED
  BY <1>1 DEF Before

LEMMA StampsMade ==
  ASSUME NEW a \in Annotations, NEW t \in Nat, Stamped(a, t)
  PROVE  /\ Stamped(SetExternalCreatePending(a, t), t)
         /\ Stamped(SetExternalCreateSucceeded(a, t), t)
         /\ Stamped(SetExternalCreateFailed(a, t), t)
         /\ Stamped(RemovePending(a), t)
         /\ \A n : Stamped(SetExternalCreateSucceeded(SetExternalName(a, n), t), t)
         /\ \A b \in Annotations : Stamped(b, t) => Stamped(AddAnnotations(a, b), t)
BY StampsAreTimes DEF Stamped, SetExternalCreatePending, SetExternalCreateSucceeded,
   SetExternalCreateFailed, RemovePending, SetExternalName, AddAnnotations, Annotations

LEMMA NotObservedKeeps ==
  ASSUME NEW o \in Objects
  PROVE  MarkNotObserved(o) \in Objects /\ MarkNotObserved(o).ann = o.ann
<1>1. MarkNotObserved(o) \in {SetReady(o, "Deleting"), SetReady(o, "NotObserved")}
  BY DEF MarkNotObserved
<1>2. \A r \in {"Deleting", "NotObserved"} : SetReady(o, r) \in Objects /\ SetReady(o, r).ann = o.ann
  BY ReportedTyped, ConditionsKeep DEF ReadyReasons
<1> QED
  BY <1>1, <1>2

LEMMA StampStep ==
  ASSUME PassesAreApart, StampInv, [Next]_vars
  PROVE  StampInv'
<1>0. /\ AgreeInv /\ AgreeInv' /\ MarkInv /\ MarkInv' /\ TypeOK /\ TypeOK'
      /\ managed \in Objects /\ cached \in Objects /\ server \in Objects
      /\ managed.ann \in Annotations /\ cached.ann \in Annotations /\ crit.ann \in Annotations /\ now \in Nat
      /\ server.ann \in Annotations /\ server'.ann \in Annotations /\ cached'.ann \in Annotations
      /\ managed'.ann \in Annotations /\ Held(server)
      /\ now' \in Nat /\ notBefore \in Nat /\ PassGap \in Nat /\ RestartDelay \in Nat
  BY AgreeStep, MarkStep, ConstantTypes
     DEF StampInv, AgreeInv, CopyInv, TypeOK, PassTyped, QueueTyped, WorldTyped, Objects, CriticalWrites
<1>1. SameStamps(server'.ann, server.ann) \/ Cleared \/ Begun \/ Added
  BY <1>0, ServerStamps
<1>2. (now' = now \/ now' = now + 1) /\ (cached' = cached \/ (cached' = server /\ server' = server))
  BY ClockAndCache
<1>3. \A a \in Annotations : \A b : SameStamps(b, a) =>
        (Stamped(a, now) => Stamped(b, now')) /\ (Before(a, now) => Before(b, now'))
  BY <1>0, <1>2, StampedOn
<1>4. \A a : SameStamps(a, a)
  BY DEF SameStamps
<1>5. Stamped(server'.ann, now') /\ Stamped(cached'.ann, now')
  <2>1. Stamped(server.ann, now') /\ Stamped(cached.ann, now')
    BY <1>0, <1>3, <1>4 DEF StampInv
  <2>2. Stamped(server'.ann, now')
    <3>1. CASE SameStamps(server'.ann, server.ann)
      BY <1>0, <1>3, <3>1 DEF StampInv
    <3>2. CASE Cleared \/ Begun \/ Added
      <4>1. Stamped(server'.ann, now)
        <5>1. Added => pc = "critical"
          BY DEF Added, UpdateCriticalAnnotations
        <5> QED BY <1>0, <3>2, <5>1, StampsMade DEF Cleared, Begun, Added, StampInv
      <4> QED BY <1>0, <1>3, <1>4, <4>1
    <3> QED BY <1>1, <3>1, <3>2
  <2> QED BY <1>2, <2>1, <2>2
<1>6. ASSUME pc' # "idle" => Stamped(managed'.ann, now'),
             pc' = "critical" => Stamped(crit'.ann, now'),
             Unopened' => Before(managed'.ann, now'),
             pc' = "create" => ExternalCreateIncomplete(server'.ann),
             pc' = "idle" => Before(server'.ann, notBefore') /\ Before(cached'.ann, notBefore')
      PROVE  StampInv'
  BY <1>0, <1>5, <1>6 DEF StampInv, CreateDetectable
<1>7. ASSUME pc' = "idle", now' = now, notBefore' = now + PassGap \/ notBefore' = now + RestartDelay
      PROVE  StampInv'
  <2>1. Before(server'.ann, notBefore') /\ Before(cached'.ann, notBefore')
    BY <1>0, <1>5, <1>7, StampedBefore DEF PassesAreApart
  <2> QED BY <1>6, <1>7, <2>1 DEF Unopened
<1>8. ASSUME NEW res, Return(res), now' = now PROVE StampInv'
  BY <1>7, <1>8 DEF Return, ForgetPass
<1>9. ASSUME NEW m \in Objects, NEW res, Report(m, res), m.ann = managed.ann, pc # "idle" PROVE StampInv'
  <2>1. pc' = "status" /\ managed' = m
    BY <1>9 DEF Report
  <2>2. Stamped(managed'.ann, now')
    BY <1>0, <1>3, <1>4, <1>9, <2>1 DEF StampInv
  <2> QED BY <1>6, <2>1, <2>2 DEF Unopened
<1>10. ASSUME NEW m \in Objects, NEW for, NEW conflict, WriteCritical(m, for, conflict), Stamped(m.ann, now)
       PROVE  StampInv'
  <2>1. pc' = "critical" /\ managed' = m /\ crit'.ann = m.ann
    BY <1>10 DEF WriteCritical
  <2>2. Stamped(m.ann, now')
    BY <1>0, <1>3, <1>4, <1>10, <2>1
  <2> QED BY <1>6, <2>1, <2>2 DEF Unopened
<1>11. ASSUME pc # "idle", pc' \notin {"idle", "critical", "create"}, Unopened' => Unopened,
              managed'.ann = managed.ann
       PROVE  StampInv'
  <2>1. Stamped(managed'.ann, now') /\ (Unopened' => Before(managed'.ann, now'))
    BY <1>0, <1>3, <1>4, <1>11 DEF StampInv
  <2> QED BY <1>6, <1>11, <2>1
<1>12. \A r, s, t : /\ SetReady(managed, r).ann = managed.ann
                    /\ SetSynced(managed, s).ann = managed.ann
                    /\ SetConditions(managed, r, s).ann = managed.ann
  BY <1>0, ConditionsKeep
<1>13. CASE GetNotFound
  <2>1. /\ pc = "idle" /\ pc' = "idle" /\ notBefore' = notBefore /\ server' = server /\ cached' = cached
        /\ now' = now
    BY <1>13 DEF GetNotFound, Dequeue, passVars
  <2> QED BY <1>6, <2>1 DEF StampInv, Unopened
<1>14. CASE GetFails
  <2>1. pc' = "idle" /\ now' = now /\ notBefore' = now + PassGap
    BY <1>14 DEF GetFails
  <2> QED BY <1>7, <2>1
<1>15. CASE GetPaused \/ GetOrphaned \/ Get
  <2>1. PICK step \in {"status", "release", "connect"}, m \in {cached, SetSynced(cached, "ReconcilePaused")} :
          BeginPass(step, m)
    BY <1>15 DEF GetPaused, GetOrphaned, Get
  <2>2. pc' = step /\ managed' = m /\ m.ann = cached.ann /\ pc = "idle" /\ notBefore <= now
    BY <1>0, <2>1, ConditionsKeep DEF BeginPass, Dequeue
  <2>3. Before(cached.ann, now) /\ Stamped(cached.ann, now)
    BY <1>0, <2>2, BeforeLater DEF StampInv
  <2>4. Before(managed'.ann, now') /\ Stamped(managed'.ann, now')
    BY <1>0, <1>3, <1>4, <2>2, <2>3
  <2> QED BY <1>6, <2>1, <2>2, <2>4
<1>16. CASE DeferReconcile
  <2>1. PICK reason \in Deferrals, d \in DeferDelays : DeferFor(reason, d)
    BY <1>16 DEF DeferReconcile
  <2> DEFINE m == IF reason = "ramping" THEN managed ELSE SetSynced(managed, "ReconcileDeferred")
  <2>2. m \in Objects /\ m.ann = managed.ann
    BY <1>0, <1>12, ReportedTyped DEF SyncedReasons
  <2>3. (Return(DeferredFor(d)) \/ Report(m, DeferredFor(d))) /\ now' = now /\ pc # "idle"
    BY <2>1 DEF DeferFor, AtGate, ToDelete, ToCreate, ToUpdate
  <2> HIDE DEF m
  <2> QED BY <1>8, <1>9, <2>2, <2>3
<1>17. \A m, res : Report(m, res) => pc' = "status" /\ managed' = m
  BY DEF Report
<1>18. ASSUME NEW m, NEW res, Report(m, res), m.ann = managed.ann, pc # "idle" PROVE StampInv'
  BY <1>11, <1>17, <1>18 DEF Unopened
<1>19. CASE Connect \/ ObserveFails
  <2>1. GoOn("observe", managed) /\ Connect => StampInv'
    BY <1>11 DEF GoOn, Connect, Unopened
  <2>2. \A m \in {MarkNotObserved(managed), SetReady(managed, "Unavailable")} :
          SetSynced(m, "ReconcileError").ann = managed.ann
    <3>1. \A m \in {MarkNotObserved(managed), SetReady(managed, "Unavailable")} :
            m \in Objects /\ m.ann = managed.ann
      BY <1>0, <1>12, NotObservedKeeps, ReportedTyped DEF ReadyReasons
    <3> QED BY <3>1, ConditionsKeep
  <2> QED BY <1>8, <1>18, <1>19, <2>1, <2>2 DEF Connect, ObserveFails
<1>20. CASE ObserveMissing \/ ObserveFound
  <2>1. pc = "observe" /\ managed'.ann = managed.ann /\ pc' \in {"resolve", "decide"}
    BY <1>0, <1>20, ObservedKeeps DEF ObserveMissing, ObserveFound
  <2> QED BY <1>11, <2>1 DEF Unopened
<1>22. CASE AwaitRecovery \/ ReportMissing \/ AwaitVisibility \/ Delete \/ NothingToDo \/ Update
  BY <1>8, <1>12, <1>18, <1>22 DEF AwaitRecovery, ReportMissing, AwaitVisibility, Delete, ToDelete,
     NothingToDo, Update, ToUpdate
<1>23. CASE AdoptCreate
  <2>1. WriteCritical([managed EXCEPT !.ann = SetExternalCreateSucceeded(@, now)], "adopt", FALSE) /\ pc # "idle"
    BY <1>23 DEF AdoptCreate
  <2>2. /\ [managed EXCEPT !.ann = SetExternalCreateSucceeded(@, now)] \in Objects
        /\ Stamped([managed EXCEPT !.ann = SetExternalCreateSucceeded(@, now)].ann, now)
    BY <1>0, <2>1, StampsTyped, AnnotatedTyped, StampsMade DEF StampInv, Objects
  <2> QED BY <1>10, <2>1, <2>2
<1>24. CASE ClearPending
  <2> DEFINE o == [managed EXCEPT !.ann = RemovePending(@)]
  <2>1. o \in Objects /\ o.ann = RemovePending(managed.ann)
    BY <1>0, StampsTyped, AnnotatedTyped DEF Objects
  <2>2. pc = "resolve" /\ ~obs.exists /\ now' = now
    BY <1>24 DEF ClearPending
  <2>3. \/ managed' = Updated(o, "ok") /\ pc' = "decide"
        \/ Return(RateLimited)
        \/ Return(Errored)
    BY <1>24 DEF ClearPending, GoOn
  <2> HIDE DEF o
  <2>4. CASE managed' = Updated(o, "ok") /\ pc' = "decide"
    <3>1. managed'.ann = RemovePending(managed.ann)
      BY <1>0, <2>1, <2>4, UpdatedKeeps
    <3>2. Before(managed.ann, now) /\ Stamped(managed.ann, now)
      BY <2>2 DEF StampInv, Unopened
    <3>3. Before(RemovePending(managed.ann), now) /\ Stamped(RemovePending(managed.ann), now)
      BY <1>0, <3>2, StampsMade DEF RemovePending, Annotations, Before
    <3> QED BY <1>6, <2>2, <2>4, <3>1, <3>3
  <2> QED BY <1>8, <2>2, <2>3, <2>4
<1>25. CASE RemoveFinalizer
  <2> DEFINE o == [managed EXCEPT !.fin = FALSE]
  <2>1. o \in Objects /\ o.ann = managed.ann
    BY <1>0 DEF Objects
  <2>2. /\ pc # "idle" /\ now' = now
        /\ \/ \E res : Return(res)
           \/ Report(SetConditions(o, "Deleting", "ReconcileError"), Errored)
    BY <1>25 DEF RemoveFinalizer, ToRelease
  <2> HIDE DEF o
  <2>3. SetConditions(o, "Deleting", "ReconcileError").ann = managed.ann
    BY <2>1, ConditionsKeep
  <2> QED BY <1>8, <1>18, <2>2, <2>3
<1>26. CASE AddFinalizer
  <2> DEFINE o == [managed EXCEPT !.fin = TRUE]
  <2>1. o \in Objects /\ o.ann = managed.ann
    BY <1>0 DEF Objects
  <2>2. pc = "decide" /\ now' = now
    BY <1>26 DEF AddFinalizer
  <2>3. \/ (managed' = managed \/ managed' = Updated(o, "ok")) /\ pc' = "act" /\ obs' = obs
        \/ Return(RateLimited) \/ Report(SetSynced(o, "ReconcileError"), Errored)
    BY <1>26 DEF AddFinalizer, GoOn
  <2>4. Updated(o, "ok").ann = managed.ann /\ SetSynced(o, "ReconcileError").ann = managed.ann
    BY <1>0, <2>1, UpdatedKeeps, ConditionsKeep
  <2> HIDE DEF o
  <2>5. CASE (managed' = managed \/ managed' = Updated(o, "ok")) /\ pc' = "act" /\ obs' = obs
    BY <1>11, <2>2, <2>4, <2>5 DEF Unopened
  <2> QED BY <1>8, <1>18, <2>2, <2>3, <2>4, <2>5
<1>27. CASE BeginCreate
  <2> DEFINE o == [managed EXCEPT !.ann = SetExternalCreatePending(@, now)]
  <2>1. o \in Objects /\ o.ann = SetExternalCreatePending(managed.ann, now)
    BY <1>0, StampsTyped, AnnotatedTyped DEF Objects
  <2>2. pc = "act" /\ ~obs.exists /\ now' = now
    BY <1>27 DEF BeginCreate, ToCreate
  <2>3. \/ server' = Stored(o) /\ managed' = Updated(o, "ok") /\ pc' = "create"
        \/ Return(RateLimited) \/ Report(SetConditions(o, "Creating", "ReconcileError"), Errored)
    BY <1>27 DEF BeginCreate, ClientUpdate, GoOn, Stores
  <2> HIDE DEF o
  <2>4. Before(managed.ann, now) /\ Stamped(o.ann, now)
    BY <1>0, <2>1, <2>2, StampsMade DEF StampInv, Unopened
  <2>5. CASE server' = Stored(o) /\ managed' = Updated(o, "ok") /\ pc' = "create"
    <3>1. server'.ann = o.ann /\ managed'.ann = o.ann
      BY <1>0, <2>1, <2>5, StoredKeeps, UpdatedKeeps
    <3>2. ExternalCreateIncomplete(server'.ann)
      BY <1>0, <2>1, <2>4, <3>1, PendingOpens DEF MarkInv
    <3> QED BY <1>6, <2>2, <2>4, <2>5, <3>1, <3>2 DEF Unopened
  <2>6. CASE Report(SetConditions(o, "Creating", "ReconcileError"), Errored)
    <3>1. pc' = "status" /\ managed'.ann = o.ann
      BY <2>1, <2>6, <1>17, ConditionsKeep
    <3> QED BY <1>6, <2>2, <2>4, <3>1 DEF Unopened
  <2> QED BY <1>8, <2>2, <2>3, <2>5, <2>6
<1>28. CASE CreateSucceeds
  <2> DEFINE named == IF NamedByServer THEN SetExternalName(managed.ann, created + 1) ELSE managed.ann
             o == [managed EXCEPT !.ann = SetExternalCreateSucceeded(named, now)]
  <2>1. pc = "create" /\ WriteCritical(o, "succeeded", FALSE)
    BY <1>28 DEF CreateSucceeds
  <2>2. Stamped(SetExternalCreateSucceeded(named, now), now)
    BY <1>0, <2>1, StampsMade DEF StampInv
  <2>3. created + 1 \in Nat
    BY <1>0 DEF TypeOK, WorldTyped
  <2>4. named \in Annotations
    BY <1>0, <2>3 DEF SetExternalName, Annotations
  <2> HIDE DEF named
  <2>5. o \in Objects /\ o.ann = SetExternalCreateSucceeded(named, now)
    BY <1>0, <2>4, StampsTyped, AnnotatedTyped DEF Objects
  <2> HIDE DEF o
  <2> QED BY <1>10, <2>1, <2>2, <2>5
<1>29. CASE CreateFails
  <2>1. pc = "create" /\ \E conflict \in BOOLEAN :
          WriteCritical([managed EXCEPT !.ann = SetExternalCreateFailed(@, now)], "failed", conflict)
    BY <1>29 DEF CreateFails
  <2>2. /\ [managed EXCEPT !.ann = SetExternalCreateFailed(@, now)] \in Objects
        /\ Stamped([managed EXCEPT !.ann = SetExternalCreateFailed(@, now)].ann, now)
    BY <1>0, <2>1, StampsTyped, AnnotatedTyped, StampsMade DEF StampInv, Objects
  <2> QED BY <1>10, <2>1, <2>2
<1>30. CASE UpdateCriticalAnnotations
  <2> DEFINE o == [cached EXCEPT !.ann = AddAnnotations(@, crit.ann)]
             back(r) == IF cached.exists THEN Updated(o, r) ELSE managed
  <2>1. o \in Objects /\ o.ann = AddAnnotations(cached.ann, crit.ann) /\ pc = "critical" /\ now' = now
    BY <1>0, <1>30, AddTyped, AnnotatedTyped DEF UpdateCriticalAnnotations, Objects
  <2>2. PICK r \in Replies :
          \/ \E written \in BOOLEAN : AfterCritical(back(r), written)
          \/ pc' = "critical" /\ crit' = [crit EXCEPT !.tries = @ + 1] /\ managed' = back(r)
    BY <1>30 DEF UpdateCriticalAnnotations
  <2>3. Stamped(managed.ann, now) /\ Stamped(o.ann, now) /\ Stamped(crit.ann, now)
    BY <1>0, <2>1, StampsMade DEF StampInv
  <2>4. back(r) \in Objects /\ Stamped(back(r).ann, now)
    <3>1. Updated(o, r).ann = o.ann
      BY <1>0, <2>1, UpdatedKeeps DEF Updated
    <3> QED BY <1>0, <2>1, <2>3, <3>1, UpdatedTyped
  <2> HIDE DEF o, back
  <2>5. CASE pc' = "critical" /\ crit' = [crit EXCEPT !.tries = @ + 1] /\ managed' = back(r)
    <3>1. crit'.ann = crit.ann
      BY <1>0, <2>5 DEF TypeOK, PassTyped, CriticalWrites
    <3> QED BY <1>6, <2>1, <2>3, <2>4, <2>5, <3>1 DEF Unopened
  <2>6. CASE crit.for = "adopt" /\ GoOn("decide", back(r))
    <3>1. pc' = "decide" /\ managed' = back(r) /\ obs' = obs /\ obs.exists
      BY <1>0, <2>1, <2>6 DEF GoOn, AgreeInv
    <3> QED BY <1>6, <2>1, <2>4, <3>1 DEF Unopened
  <2>7. ASSUME NEW s, NEW res, Report(SetConditions(back(r), "Creating", s), res) PROVE StampInv'
    <3>1. pc' = "status" /\ managed'.ann = back(r).ann
      BY <2>4, <2>7, <1>17, ConditionsKeep
    <3> QED BY <1>6, <2>1, <2>4, <3>1 DEF Unopened
  <2> QED BY <1>8, <2>1, <2>2, <2>5, <2>6, <2>7 DEF AfterCritical
<1>31. CASE LateInitialize
  <2>1. pc = "act" /\ now' = now /\ Updated(managed, "ok").ann = managed.ann
    BY <1>0, <1>31, UpdatedKeeps DEF LateInitialize
  <2>2. \/ managed' = Updated(managed, "ok") /\ pc' = "act" /\ obs' = [obs EXCEPT !.late = FALSE]
        \/ Return(RateLimited) \/ Report(SetSynced(managed, "ReconcileError"), Errored)
    BY <1>31 DEF LateInitialize
  <2>3. [obs EXCEPT !.late = FALSE].exists = obs.exists
    BY <1>0 DEF TypeOK, PassTyped, Observations
  <2>4. CASE managed' = Updated(managed, "ok") /\ pc' = "act" /\ obs' = [obs EXCEPT !.late = FALSE]
    BY <1>11, <2>1, <2>3, <2>4 DEF Unopened
  <2> QED BY <1>8, <1>12, <1>18, <2>1, <2>2, <2>4
<1>32. CASE StatusUpdate
  BY <1>8, <1>32 DEF StatusUpdate
<1>33. CASE Crash
  BY <1>7, <1>33 DEF Crash, ForgetPass
<1>34. CASE UNCHANGED <<pc, passVars, notBefore>>
  <2>1. pc # "idle" => Stamped(managed'.ann, now')
    BY <1>0, <1>3, <1>4, <1>34 DEF StampInv, passVars
  <2>2. pc = "critical" => Stamped(crit'.ann, now')
    BY <1>0, <1>3, <1>4, <1>34 DEF StampInv, passVars
  <2>3. Unopened' => Before(managed'.ann, now')
    BY <1>0, <1>3, <1>4, <1>34 DEF StampInv, Unopened, passVars
  <2>4. SameStamps(server'.ann, server.ann) \/ pc \in {"resolve", "act", "critical"}
    BY <1>1 DEF Cleared, Begun, Added, ClearPending, BeginCreate, ToCreate, UpdateCriticalAnnotations
  <2>5. pc = "create" => ExternalCreateIncomplete(server'.ann)
    BY <2>4 DEF SameStamps, ExternalCreateIncomplete, StampInv, CreateDetectable
  <2>6. pc = "idle" => Before(server'.ann, notBefore) /\ Before(cached'.ann, notBefore)
    BY <1>2, <2>4 DEF SameStamps, Before, StampInv
  <2> QED BY <1>6, <1>34, <2>1, <2>2, <2>3, <2>5, <2>6
<1>35. CASE Environment /\ ~Crash
  BY <1>34, <1>35 DEF Environment, LandLate, CacheSync, EditSpec, EditPause, EditPolicy, DeleteObject,
     ExternalVanishes, EditObject, Edit, Tick, queueVars
<1>36. CASE UNCHANGED vars
  BY <1>34, <1>36 DEF vars, queueVars
<1> QED
  BY <1>13, <1>14, <1>15, <1>16, <1>19, <1>20, <1>22, <1>23, <1>24, <1>25, <1>26, <1>27, <1>28,
     <1>29, <1>30, <1>31, <1>32, <1>33, <1>35, <1>36 DEF Next, Horizon, Reconcile

LEMMA StampInit == Init => StampInv
<1> SUFFICES ASSUME Init PROVE StampInv
  OBVIOUS
<1>1. AgreeInv /\ MarkInv /\ pc = "idle" /\ cached = server
  BY AgreeInit, MarkInit DEF Init
<1>2. server.ann.pending = ZeroTime /\ server.ann.succeeded = ZeroTime /\ server.ann.failed = ZeroTime
  <2>1. PICK mgmt \in InitialManagement, del \in InitialDeletion :
          server.ann = [NoAnnotations EXCEPT !.mgmt = mgmt, !.del = del,
                          !.name = IF NamedByServer THEN created ELSE 0]
    BY DEF Init, NoObject
  <2> QED BY <2>1 DEF NoAnnotations, ZeroTime
<1>3. ZeroTime \in Stamps(now)
  BY <1>1, StampsAreTimes DEF MarkInv, TypeOK, WorldTyped
<1> QED
  BY <1>1, <1>2, <1>3 DEF StampInv, Stamped, Before, Unopened, CreateDetectable

\* Where passes, and the pass after a crash, are at least a second apart, no pending stamp is
\* hidden by an older stamp of the same second: while Create runs, whatever becomes of it, the
\* stored object shows an unresolved handshake.
THEOREM CreatesAreDetectable ==
  ASSUME PassesAreApart
  PROVE  Spec => []CreateDetectable
<1>1. StampInv /\ [Next]_vars => StampInv'
  BY StampStep
<1>2. StampInv => CreateDetectable
  BY DEF StampInv
<1> QED
  BY StampInit, <1>1, <1>2, PTL DEF Spec
-----------------------------------------------------------------------------
\* Requests and resources.

\* When the last request sent under the pending stamp of a lands, if it does.
LandsBy(a) == a.pending + TicksPerSecond - 1 + Timeout

\* The resource e is observable a lag after the create that a stamps as succeeded.
Closes(a, e) == a.succeeded # ZeroTime /\ e.visibleAt <= a.succeeded + TicksPerSecond - 1 + VisibilityLag

\* e was always there, or a says by when it is observable.
Awaited(a, e) == \/ e.visibleAt = 0
                 \/ ExternalCreateIncomplete(a) /\ e.visibleAt <= LandsBy(a) + VisibilityLag
                 \/ Closes(a, e)

\* A pass that began at start may have missed e: it was not observable, or had not landed.
Missed(a, start, e) == \/ e.visibleAt > start
                       \/ ExternalCreateIncomplete(a) /\ LandsBy(a) >= start

Single(S) == \A x, y \in S : x = y

\* One resource or one late request, of which the stored stamps tell.
Requests ==
  /\ Single(ext) /\ Single(inflight)
  /\ ext # {} => inflight = {}
  /\ \A c \in inflight : ExternalCreateIncomplete(server.ann) /\ now <= c.until /\ c.until <= LandsBy(server.ann)
  /\ \A e \in ext : Awaited(server.ann, e)

\* What a pass knows of them, from its observation and its copy.
Knowledge ==
  /\ pc = "create" => ext = {} /\ inflight = {} /\ deadline <= LandsBy(server.ann)
  /\ pc = "critical" => /\ inflight = {}
                        /\ crit.ann.pending # ZeroTime /\ ~ExternalCreateIncomplete(crit.ann)
                        /\ \A e \in ext : Closes(crit.ann, e)
  /\ pc = "resolve" /\ obs.exists => inflight = {} /\ \A e \in ext : e.visibleAt <= now
  /\ pc \in {"resolve", "decide", "act"} /\ ~obs.exists =>
       \A e \in ext : Missed(server.ann, deadline - Timeout, e)
  /\ pc = "act" /\ ~obs.exists /\ managed.rv = server.rv => ext = {} /\ inflight = {}

HandInv == StampInv /\ Timely /\ Requests /\ Knowledge

\* The periods outlast what they wait for: a resource lags, a request outlives its process until
\* the deadline of its pass, and a stamp is up to a second older than it reads.
HandshakeTiming ==
  /\ PassesAreApart
  /\ CreationGrace >= Timeout + VisibilityLag + TicksPerSecond - 1
  /\ RecoveryGrace >= 2 * Timeout + VisibilityLag + TicksPerSecond - 1
  /\ RecoveryGrace >= 2 * Timeout + TicksPerSecond
  /\ ~AmbiguousCreate /\ ~NamedByServer

LEMMA SameKnowledge ==
  ASSUME NEW a, NEW b, SameStamps(b, a)
  PROVE  /\ ExternalCreateIncomplete(b) <=> ExternalCreateIncomplete(a)
         /\ LandsBy(b) = LandsBy(a)
         /\ \A e : Closes(b, e) <=> Closes(a, e)
         /\ \A e : Awaited(b, e) <=> Awaited(a, e)
         /\ \A e, t : Missed(b, t, e) <=> Missed(a, t, e)
<1>1. a.pending = b.pending /\ a.succeeded = b.succeeded /\ a.failed = b.failed
  BY DEF SameStamps
<1>2. (ExternalCreateIncomplete(b) <=> ExternalCreateIncomplete(a)) /\ LandsBy(b) = LandsBy(a)
  BY <1>1 DEF ExternalCreateIncomplete, LandsBy
<1>3. \A e : Closes(b, e) <=> Closes(a, e)
  BY <1>1 DEF Closes
<1> QED
  BY <1>2, <1>3 DEF Awaited, Missed

LEMMA TimingTypes ==
  /\ TicksPerSecond \in Nat /\ TicksPerSecond > 0 /\ Timeout \in Nat /\ VisibilityLag \in Nat
  /\ CreationGrace \in Nat /\ RecoveryGrace \in Nat
BY TicksPerSecondAssumption, ConstantTypes

LEMMA LandsByTyped ==
  ASSUME NEW a \in Annotations
  PROVE  LandsBy(a) \in Int
<1>1. a.pending \in Nat
  BY DEF Annotations
<1> QED
  BY <1>1, TimingTypes DEF LandsBy

\* A pass that waited out the recovery period and missed every resource knows that none exists,
\* and that no request is left.
LEMMA RecoveryWaits ==
  ASSUME HandshakeTiming, TypeOK, NEW a \in Annotations, ExternalCreateIncomplete(a),
         ~ExternalCreatePendingDuring(a, now, RecoveryGrace),
         NEW start \in Int, start <= now, now <= start + Timeout, 0 <= start
  PROVE  /\ \A e \in Externals : ~(Awaited(a, e) /\ Missed(a, start, e))
         /\ LandsBy(a) < now
<1>1. a.pending \in Nat /\ a.succeeded \in Nat /\ a.failed \in Nat /\ now \in Nat
  BY DEF Annotations, TypeOK, WorldTyped
<1>2. a.pending # ZeroTime /\ a.succeeded < a.pending
  BY <1>1 DEF ExternalCreateIncomplete
<1>3. now >= a.pending + RecoveryGrace
  BY <1>1, <1>2, TimingTypes DEF ExternalCreatePendingDuring
<1>4. LandsBy(a) \in Int /\ LandsBy(a) < start /\ LandsBy(a) + VisibilityLag <= start
  BY <1>1, <1>3, TimingTypes DEF HandshakeTiming, LandsBy
<1>5. ASSUME NEW e \in Externals, Awaited(a, e) PROVE ~Missed(a, start, e)
  <2>1. e.visibleAt \in Nat
    BY DEF Externals
  <2>2. e.visibleAt <= start
    <3>1. CASE Closes(a, e)
      <4>1. e.visibleAt <= a.succeeded + TicksPerSecond - 1 + VisibilityLag
        BY <3>1 DEF Closes
      <4>2. a.succeeded + TicksPerSecond - 1 + VisibilityLag <= LandsBy(a) + VisibilityLag
        BY <1>1, <1>2, TimingTypes DEF LandsBy
      <4> QED BY <1>1, <1>4, <2>1, <4>1, <4>2, TimingTypes
    <3> QED BY <1>4, <1>5, <2>1, <3>1, TimingTypes DEF Awaited
  <2> QED BY <1>4, <2>1, <2>2 DEF Missed
<1>6. LandsBy(a) < now
  BY <1>1, <1>4
<1> QED
  BY <1>5, <1>6

\* So does a pass that waited out the creation grace period.
LEMMA CreationWaits ==
  ASSUME HandshakeTiming, TypeOK, NEW a \in Annotations, ~ExternalCreateIncomplete(a),
         ~ExternalCreateSucceededDuring(a, now, CreationGrace),
         NEW start \in Int, start <= now, now <= start + Timeout, 0 <= start
  PROVE  \A e \in Externals : ~(Awaited(a, e) /\ Missed(a, start, e))
<1>1. a.succeeded \in Nat /\ now \in Nat
  BY DEF Annotations, TypeOK, WorldTyped
<1>2. ASSUME NEW e \in Externals, Awaited(a, e) PROVE e.visibleAt <= start
  <2>1. e.visibleAt \in Nat
    BY DEF Externals
  <2>2. CASE Closes(a, e)
    <3>1. now >= a.succeeded + CreationGrace
      BY <1>1, <2>2, TimingTypes DEF Closes, ExternalCreateSucceededDuring
    <3>2. e.visibleAt <= a.succeeded + TicksPerSecond - 1 + VisibilityLag
      BY <2>2 DEF Closes
    <3> QED BY <1>1, <2>1, <3>1, <3>2, TimingTypes DEF HandshakeTiming
  <2> QED BY <1>2, <2>1, <2>2 DEF Awaited
<1> QED
  BY <1>2 DEF Missed, Externals

\* The types that the step of HandInv needs.
LEMMA HandTypes ==
  ASSUME TypeOK
  PROVE  /\ managed \in Objects /\ cached \in Objects /\ server \in Objects
         /\ managed.ann \in Annotations /\ cached.ann \in Annotations /\ crit.ann \in Annotations
         /\ server.ann \in Annotations /\ now \in Nat /\ deadline \in Nat /\ managed.spec \in Nat
         /\ ext \subseteq Externals /\ inflight \subseteq [until : Nat, spec : Nat] /\ created \in Nat
BY DEF TypeOK, PassTyped, WorldTyped, Objects, CriticalWrites

\* A step that leaves the stored stamps alone, creates nothing and sends no request.
LEMMA RequestsOn ==
  ASSUME Requests, TypeOK, TypeOK', SameStamps(server'.ann, server.ann),
         inflight' \subseteq inflight, \A c \in inflight' : now' <= c.until,
         Single(ext'), \A f \in ext' : \E e \in ext : f.visibleAt = e.visibleAt
  PROVE  Requests'
<1>1. /\ ExternalCreateIncomplete(server'.ann) <=> ExternalCreateIncomplete(server.ann)
      /\ LandsBy(server'.ann) = LandsBy(server.ann)
      /\ \A e : Awaited(server'.ann, e) <=> Awaited(server.ann, e)
  BY SameKnowledge
<1>2. \A f \in ext' : Awaited(server'.ann, f)
  <2>1. \A f \in ext' : Awaited(server.ann, f)
    <3> SUFFICES ASSUME NEW f \in ext' PROVE Awaited(server.ann, f)
      OBVIOUS
    <3>1. PICK e \in ext : f.visibleAt = e.visibleAt
      OBVIOUS
    <3>2. Awaited(server.ann, e)
      BY DEF Requests
    <3> QED BY <3>1, <3>2 DEF Awaited, Closes
  <2> QED BY <1>1, <2>1
<1>3. Single(inflight') /\ (ext' # {} => inflight' = {})
  BY DEF Requests, Single
<1> QED
  BY <1>1, <1>2, <1>3 DEF Requests

\* In a pass that goes on, a step of the others neither shows nor hides what the pass may miss.
LEMMA MissedOn ==
  ASSUME NEW start, SameStamps(server'.ann, server.ann),
         \A e \in ext : Missed(server.ann, start, e),
         \A f \in ext' : \E e \in ext : f.visibleAt = e.visibleAt
  PROVE  \A f \in ext' : Missed(server'.ann, start, f)
<1>1. \A e : Missed(server'.ann, start, e) <=> Missed(server.ann, start, e)
  BY SameKnowledge
<1>2. ASSUME NEW f \in ext' PROVE Missed(server.ann, start, f)
  <2>1. PICK e \in ext : f.visibleAt = e.visibleAt
    OBVIOUS
  <2>2. Missed(server.ann, start, e)
    OBVIOUS
  <2> QED BY <2>1, <2>2 DEF Missed
<1> QED
  BY <1>1, <1>2

\* A late request lands where no resource is, under the handshake it was sent under.
LEMMA LateLands ==
  ASSUME HandInv, LandLate, TypeOK'
  PROVE  Requests' /\ Knowledge'
<1>0. TypeOK /\ Requests /\ Knowledge /\ Timely
  BY DEF HandInv, StampInv, MarkInv
<1> USE HandTypes, TimingTypes
<1>1. PICK c \in inflight, lag \in 0..VisibilityLag :
        /\ ext' = ext \cup {[id |-> created + 1, visibleAt |-> now + lag, spec |-> c.spec]}
        /\ inflight' = inflight \ {c}
  BY DEF LandLate, Land
<1>2. UNCHANGED <<now, server, pc, obs, managed, crit, deadline>>
  BY DEF LandLate, passVars
<1> DEFINE e == [id |-> created + 1, visibleAt |-> now + lag, spec |-> c.spec]
<1>3. ext = {} /\ inflight = {c} /\ ext' = {e} /\ inflight' = {}
  BY <1>0, <1>1 DEF Requests, Single
<1>4. ExternalCreateIncomplete(server.ann) /\ now <= c.until /\ c.until <= LandsBy(server.ann)
  BY <1>0 DEF Requests
<1>5. e.visibleAt = now + lag /\ lag \in Nat /\ lag <= VisibilityLag /\ c.until \in Nat
  BY <1>0
<1> HIDE DEF e
<1>6. LandsBy(server.ann) \in Int
  BY <1>0, LandsByTyped
<1>7. Awaited(server.ann, e)
  BY <1>0, <1>4, <1>5, <1>6 DEF Awaited
<1>8. pc # "idle" => Missed(server.ann, deadline - Timeout, e)
  <2>1. pc # "idle" => deadline - Timeout <= now
    BY <1>0 DEF Timely
  <2> QED BY <1>0, <1>4, <1>5, <1>6, <2>1 DEF Missed
<1>9. Requests'
  BY <1>2, <1>3, <1>7 DEF Requests, Single
<1>10. Knowledge'
  <2>1. /\ pc \notin {"create", "critical"} /\ ~(pc = "resolve" /\ obs.exists)
        /\ ~(pc = "act" /\ ~obs.exists /\ managed.rv = server.rv)
    BY <1>0, <1>3 DEF Knowledge
  <2>2. pc \in {"resolve", "decide", "act"} => \A f \in ext' : Missed(server.ann, deadline - Timeout, f)
    BY <1>3, <1>8
  <2> QED BY <1>2, <2>1, <2>2 DEF Knowledge
<1> QED
  BY <1>9, <1>10

\* A conclusion of the stamps of the pass: what it stamps as over is not an open handshake.
LEMMA StampedOver ==
  ASSUME TypeOK, NEW a \in Annotations, Stamped(a, now)
  PROVE  /\ ~ExternalCreateIncomplete(SetExternalCreateSucceeded(a, now))
         /\ ~ExternalCreateIncomplete(SetExternalCreateFailed(a, now))
         /\ SetExternalCreateSucceeded(a, now).pending = a.pending
         /\ SetExternalCreateSucceeded(a, now).succeeded = RFC3339(now)
         /\ SetExternalCreateFailed(a, now).pending = a.pending
<1>1. now \in Nat /\ a.pending \in Nat /\ a.succeeded \in Nat /\ a.failed \in Nat
  BY HandTypes DEF Annotations
<1>2. a.pending <= RFC3339(now) /\ RFC3339(now) \in Nat
  BY <1>1, StampsAreTimes, FormattedTimes DEF Stamped
<1>3. /\ SetExternalCreateSucceeded(a, now).pending = a.pending
      /\ SetExternalCreateSucceeded(a, now).succeeded = RFC3339(now)
      /\ SetExternalCreateSucceeded(a, now).failed = a.failed
  BY DEF SetExternalCreateSucceeded, Annotations
<1>4. /\ SetExternalCreateFailed(a, now).pending = a.pending
      /\ SetExternalCreateFailed(a, now).succeeded = a.succeeded
      /\ SetExternalCreateFailed(a, now).failed = RFC3339(now)
  BY DEF SetExternalCreateFailed, Annotations
<1> QED
  BY <1>1, <1>2, <1>3, <1>4 DEF ExternalCreateIncomplete

\* The stamp of a create that is over tells by when what is there, or is about to be, is observable.
LEMMA StampCloses ==
  ASSUME MarkInv, NEW a, a.succeeded = RFC3339(now), NEW e, e.visibleAt \in Nat,
         e.visibleAt <= now + VisibilityLag
  PROVE  Closes(a, e)
<1>1. now \in Nat /\ now >= TicksPerSecond
  BY HandTypes DEF MarkInv
<1>2. RFC3339(now) \in Nat /\ now < RFC3339(now) + TicksPerSecond /\ RFC3339(now) # ZeroTime
  BY <1>1, FormattedTimes, FormattedPositive
<1> QED
  BY <1>1, <1>2, TimingTypes DEF Closes

\* What others do while the pass waits: the clock goes on, users edit, the cache catches up.
LEMMA HandOn ==
  ASSUME HandInv, StampInv', Timely', UNCHANGED <<pc, obs, crit, managed, deadline>>,
         server' = server \/ ServerMoves, SameStamps(server'.ann, server.ann), now' \in {now, now + 1},
         ext' \subseteq ext, inflight' \subseteq inflight, \A c \in inflight' : now' <= c.until
  PROVE  HandInv'
<1> USE HandTypes
<1>0. TypeOK /\ TypeOK' /\ Requests /\ Knowledge /\ AgreeInv
  BY DEF HandInv, StampInv, MarkInv
<1>1. Single(ext') /\ \A f \in ext' : \E e \in ext : f.visibleAt = e.visibleAt
  BY <1>0 DEF Requests, Single
<1>2. Requests'
  BY <1>0, <1>1, RequestsOn
<1>3. LandsBy(server'.ann) = LandsBy(server.ann)
  BY SameKnowledge
<1>4. pc \in {"resolve", "decide", "act"} /\ ~obs.exists =>
        \A f \in ext' : Missed(server'.ann, deadline - Timeout, f)
  BY <1>0, <1>1, MissedOn DEF Knowledge
<1>5. pc = "act" /\ managed.rv = server'.rv => managed.rv = server.rv
  <2>1. pc = "act" => managed.rv <= server.rv
    BY <1>0 DEF AgreeInv, Agrees, Reading
  <2>2. managed.rv \in Nat /\ server.rv \in Nat
    BY <1>0 DEF Objects
  <2> QED BY <2>1, <2>2 DEF ServerMoves
<1>6. \A e \in ext' : e.visibleAt <= now => e.visibleAt <= now'
  <2>1. \A e \in ext' : e.visibleAt \in Nat
    BY <1>0 DEF Externals
  <2> QED BY <1>0, <2>1
<1>7. ext' \subseteq ext /\ inflight' \subseteq inflight
  OBVIOUS
<1>8. Knowledge'
  <2>1. CASE pc = "create"
    BY <1>0, <1>3, <1>7, <2>1 DEF Knowledge
  <2>2. CASE pc = "critical"
    BY <1>0, <1>7, <2>2 DEF Knowledge
  <2>3. CASE pc = "resolve"
    BY <1>0, <1>4, <1>6, <1>7, <2>3 DEF Knowledge
  <2>4. CASE pc \in {"decide", "act"}
    BY <1>0, <1>4, <1>5, <1>7, <2>4 DEF Knowledge
  <2>5. CASE pc \notin {"create", "critical", "resolve", "decide", "act"}
    BY <2>5 DEF Knowledge
  <2> QED BY <2>1, <2>2, <2>3, <2>4, <2>5
<1> QED
  BY <1>2, <1>8 DEF HandInv

\* A write of stamps is a step of the pass.
LEMMA WritersMove ==
  ASSUME TypeOK, Cleared \/ Begun \/ Added
  PROVE  pc' # pc \/ crit' # crit
<1>1. \A m, res : Return(res) \/ Report(m, res) => pc' \in {"idle", "status"}
  BY DEF Return, ForgetPass, Report
<1>2. CASE Cleared
  BY <1>1, <1>2 DEF Cleared, ClearPending, GoOn
<1>3. CASE Begun
  BY <1>1, <1>3 DEF Begun, BeginCreate, ToCreate, GoOn
<1>4. CASE Added
  <2>1. \/ crit' = [crit EXCEPT !.tries = @ + 1]
        \/ \E m, written : AfterCritical(m, written)
    BY <1>4 DEF Added, UpdateCriticalAnnotations
  <2>2. crit' = [crit EXCEPT !.tries = @ + 1] => crit' # crit
    <3> DEFINE c == [crit EXCEPT !.tries = @ + 1]
    <3>1. crit.tries \in Nat /\ c.tries = crit.tries + 1
      BY DEF TypeOK, PassTyped, CriticalWrites
    <3> HIDE DEF c
    <3>2. c # crit
      BY <3>1
    <3> QED BY <3>2 DEF c
  <2>3. ASSUME NEW m, NEW written, AfterCritical(m, written) PROVE pc' # "critical"
    BY <1>1, <2>3 DEF AfterCritical, GoOn
  <2> QED BY <1>4, <2>1, <2>2, <2>3 DEF Added, UpdateCriticalAnnotations
<1> QED
  BY <1>2, <1>3, <1>4

LEMMA HandStep ==
  ASSUME HandshakeTiming, HandInv, [Next]_vars
  PROVE  HandInv'
<1> USE TimingTypes
<1>0. /\ StampInv /\ AgreeInv /\ MarkInv /\ TypeOK /\ Timely /\ Requests /\ Knowledge /\ CopyInv
      /\ StampInv' /\ Timely' /\ TypeOK' /\ Held(server)
  BY StampStep, TimelyStep DEF HandInv, StampInv, MarkInv, AgreeInv, CopyInv, HandshakeTiming
<1>1. /\ managed \in Objects /\ cached \in Objects /\ server \in Objects
      /\ managed.ann \in Annotations /\ cached.ann \in Annotations /\ crit.ann \in Annotations
      /\ server.ann \in Annotations /\ now \in Nat /\ deadline \in Nat
      /\ ext \subseteq Externals /\ created \in Nat
  BY <1>0, HandTypes
<1>2. SameStamps(server'.ann, server.ann) \/ Cleared \/ Begun \/ Added
  BY <1>0, ServerStamps
<1>3. pc \notin {"resolve", "act", "critical"} => SameStamps(server'.ann, server.ann)
  BY <1>2 DEF Cleared, Begun, Added, ClearPending, BeginCreate, ToCreate, UpdateCriticalAnnotations
<1>4. server' = server => SameStamps(server'.ann, server.ann)
  BY DEF SameStamps
<1>5. ASSUME Requests', Knowledge' PROVE HandInv'
  BY <1>0, <1>5 DEF HandInv
<1>6. ASSUME pc' \in {"idle", "release", "connect", "observe", "status"} PROVE Knowledge'
  BY <1>6 DEF Knowledge
<1>7. ASSUME SameStamps(server'.ann, server.ann), UNCHANGED <<now, inflight>>,
             Single(ext'), \A f \in ext' : \E e \in ext : f.visibleAt = e.visibleAt
      PROVE  Requests'
  <2>1. \A c \in inflight' : now' <= c.until
    BY <1>0, <1>7 DEF Requests
  <2> QED BY <1>0, <1>7, <2>1, RequestsOn
<1>8. ASSUME SameStamps(server'.ann, server.ann), UNCHANGED <<now, inflight, ext>> PROVE Requests'
  <2>1. Single(ext') /\ \A f \in ext' : \E e \in ext : f.visibleAt = e.visibleAt
    BY <1>0, <1>8 DEF Requests
  <2> QED BY <1>7, <1>8, <2>1
<1>9. ASSUME pc' \in {"idle", "release", "connect", "observe", "status"},
             SameStamps(server'.ann, server.ann), UNCHANGED <<now, inflight, ext>>
      PROVE  HandInv'
  BY <1>5, <1>6, <1>8, <1>9
<1>10. \A m, res : Return(res) \/ Report(m, res) => pc' \in {"idle", "status"}
  BY DEF Return, ForgetPass, Report
<1>11. CASE GetNotFound \/ GetFails \/ GetPaused \/ GetOrphaned \/ Get
  BY <1>4, <1>9, <1>11 DEF GetNotFound, GetFails, GetPaused, GetOrphaned, Get, BeginPass, Dequeue,
     passVars, externalVars
<1>12. CASE DeferReconcile
  BY <1>4, <1>9, <1>10, <1>12 DEF DeferReconcile, DeferFor, externalVars
<1>13. CASE Connect
  <2>1. GoOn("observe", managed) => pc' = "observe"
    BY DEF GoOn
  <2> QED BY <1>4, <1>9, <1>10, <1>13, <2>1 DEF Connect, externalVars
<1>14. CASE ObserveFails \/ AwaitRecovery \/ ReportMissing \/ AwaitVisibility \/ NothingToDo
  BY <1>4, <1>9, <1>10, <1>14 DEF ObserveFails, AwaitRecovery, ReportMissing, AwaitVisibility, NothingToDo,
     externalVars
<1>15. CASE RemoveFinalizer \/ StatusUpdate
  <2>1. pc \in {"release", "decide", "status"} /\ UNCHANGED <<now, inflight, ext>>
    BY <1>15 DEF RemoveFinalizer, ToRelease, StatusUpdate, externalVars
  <2>2. pc' \in {"idle", "status"}
    BY <1>10, <1>15 DEF RemoveFinalizer, StatusUpdate
  <2> QED BY <1>3, <1>9, <2>1, <2>2
<1>16. CASE Delete \/ Update
  <2>1. pc' = "status" /\ UNCHANGED <<now, inflight, server>>
    BY <1>16 DEF Delete, Update, Report
  <2>2. Single(ext') /\ \A f \in ext' : \E e \in ext : f.visibleAt = e.visibleAt
    <3>1. CASE ext' \subseteq ext
      BY <1>0, <3>1 DEF Requests, Single
    <3> DEFINE new(e) == IF e.id = obs.id THEN [e EXCEPT !.spec = managed.spec] ELSE e
    <3>2. CASE ext' = {new(e) : e \in ext}
      <4>1. \A e \in ext : new(e).visibleAt = e.visibleAt
        BY <1>1 DEF Externals
      <4>2. \A x, y \in ext : x = y
        BY <1>0 DEF Requests, Single
      <4> HIDE DEF new
      <4> QED BY <3>2, <4>1, <4>2 DEF Single
    <3> QED BY <1>16, <3>1, <3>2 DEF Delete, Update
  <2> QED BY <1>4, <1>5, <1>6, <1>7, <2>1, <2>2
<1>17. CASE ObserveMissing
  <2>1. /\ pc = "observe" /\ pc' \in {"resolve", "decide"} /\ ~obs'.exists
        /\ UNCHANGED <<now, server, inflight, ext, deadline>> /\ Observable(managed) = {}
    BY <1>17 DEF ObserveMissing, externalVars, NoObservation
  <2>2. \A e \in ext : ~(e.visibleAt <= now)
    BY <2>1 DEF Observable, HandshakeTiming
  <2>3. \A e \in ext : Missed(server.ann, deadline - Timeout, e)
    <3>1. deadline - Timeout <= now
      BY <1>0, <2>1 DEF Timely
    <3>2. \A e \in ext : e.visibleAt > deadline - Timeout
      BY <1>1, <2>2, <3>1 DEF Externals
    <3> QED BY <3>2 DEF Missed
  <2>4. Knowledge'
    BY <2>1, <2>3 DEF Knowledge
  <2> QED BY <1>4, <1>5, <1>8, <2>1, <2>4
<1>18. CASE ObserveFound
  <2>1. /\ pc = "observe" /\ pc' \in {"resolve", "decide"} /\ obs'.exists
        /\ UNCHANGED <<now, server, inflight, ext, deadline>> /\ Observable(managed) # {}
    BY <1>18 DEF ObserveFound, externalVars
  <2>2. inflight = {} /\ \A e \in ext : e.visibleAt <= now
    BY <1>0, <2>1 DEF Observable, Requests, Single
  <2>3. Knowledge'
    BY <2>1, <2>2 DEF Knowledge
  <2> QED BY <1>4, <1>5, <1>8, <2>1, <2>3
<1>19. CASE AdoptCreate
  <2> DEFINE a == SetExternalCreateSucceeded(managed.ann, now)
  <2>1. /\ pc = "resolve" /\ obs.exists /\ pc' = "critical" /\ crit'.ann = a
        /\ UNCHANGED <<now, server, inflight, ext>>
    BY <1>1, <1>19 DEF AdoptCreate, WriteCritical, externalVars, Objects
  <2>2. managed.ann.pending # ZeroTime /\ Stamped(managed.ann, now)
    BY <1>0, <2>1 DEF AgreeInv, ExternalCreateIncomplete, StampInv
  <2>3. a.pending # ZeroTime /\ ~ExternalCreateIncomplete(a) /\ a.succeeded = RFC3339(now)
    BY <1>0, <1>1, <2>2, StampedOver
  <2> HIDE DEF a
  <2>4. inflight = {} /\ \A e \in ext : e.visibleAt <= now
    BY <1>0, <2>1 DEF Knowledge
  <2>5. \A e \in ext : Closes(a, e)
    <3>1. \A e \in ext : e.visibleAt \in Nat /\ e.visibleAt <= now + VisibilityLag
      BY <1>1, <2>4 DEF Externals
    <3> QED BY <1>0, <2>3, <3>1, StampCloses
  <2>6. Knowledge'
    BY <2>1, <2>3, <2>4, <2>5 DEF Knowledge
  <2> QED BY <1>4, <1>5, <1>8, <2>1, <2>6
<1>20. CASE ClearPending
  <2>1. pc = "resolve" /\ ~obs.exists /\ unresolved /\ UNCHANGED <<now, inflight, ext>>
        /\ ~ExternalCreatePendingDuring(managed.ann, now, RecoveryGrace)
        /\ ExternalCreateIncomplete(managed.ann)
    BY <1>0, <1>20 DEF ClearPending, externalVars, AgreeInv
  <2>2. (pc' = "decide" /\ obs' = obs /\ deadline' = deadline) \/ pc' = "idle"
    BY <1>10, <1>20 DEF ClearPending, GoOn, Return, ForgetPass
  <2>3. CASE Cleared
    <3>1. managed.ann = server.ann
      BY <1>0, <2>1, <2>3 DEF Cleared, AgreeInv, Agrees, Reading
    <3>2. deadline - Timeout \in Int /\ deadline - Timeout <= now /\ now <= deadline - Timeout + Timeout
          /\ 0 <= deadline - Timeout
      BY <1>0, <1>1, <2>1 DEF Timely
    <3>3. /\ \A e \in Externals : ~(Awaited(server.ann, e) /\ Missed(server.ann, deadline - Timeout, e))
          /\ LandsBy(server.ann) < now
      BY <1>0, <1>1, <2>1, <3>1, <3>2, RecoveryWaits
    <3>4. ext = {}
      BY <1>0, <1>1, <2>1, <3>3 DEF Requests, Knowledge
    <3>5. inflight = {}
      <4>1. \A c \in inflight : now <= c.until /\ c.until <= LandsBy(server.ann) /\ c.until \in Nat
        BY <1>0, HandTypes DEF Requests
      <4>2. LandsBy(server.ann) \in Int
        BY <1>1, LandsByTyped
      <4> QED BY <1>1, <3>3, <4>1, <4>2
    <3>6. Requests' /\ Knowledge'
      BY <2>1, <2>2, <3>4, <3>5 DEF Requests, Knowledge, Single
    <3> QED BY <1>5, <3>6
  <2>4. CASE SameStamps(server'.ann, server.ann)
    <3>1. Knowledge'
      <4>1. pc' = "decide" /\ obs' = obs /\ deadline' = deadline
              => \A e \in ext' : Missed(server'.ann, deadline' - Timeout, e)
        BY <1>0, <2>1, <2>4, MissedOn DEF Knowledge
      <4> QED BY <2>2, <4>1 DEF Knowledge
    <3> QED BY <1>5, <1>8, <2>1, <2>4, <3>1
  <2> QED BY <1>2, <2>1, <2>3, <2>4 DEF Begun, Added, BeginCreate, ToCreate, UpdateCriticalAnnotations
<1>21. CASE AddFinalizer
  <2> DEFINE o == [managed EXCEPT !.fin = TRUE]
  <2>1. /\ pc = "decide" /\ ~managed.deleted /\ ~MissingOnlyObserved /\ ~AwaitingVisibility
        /\ UNCHANGED <<now, inflight, ext>>
    BY <1>21 DEF AddFinalizer, externalVars
  <2>2. \/ /\ pc' = "act" /\ obs' = obs /\ deadline' = deadline
           /\ (managed' = managed /\ server' = server) \/ managed.rv = server.rv
        \/ pc' \in {"idle", "status"}
    <3>1. o.rv = managed.rv
      BY <1>1 DEF Objects
    <3>2. \/ managed' = managed /\ server' = server /\ GoOn("act", managed)
          \/ o.rv = server.rv /\ \E m : GoOn("act", m)
          \/ \E res : Return(res)
          \/ \E m, res : Report(m, res)
      BY <1>21 DEF AddFinalizer, ClientUpdate, MayReply, Stores, GoOn
    <3> HIDE DEF o
    <3> QED BY <1>10, <3>1, <3>2 DEF GoOn
  <2>3. SameStamps(server'.ann, server.ann)
    BY <1>3, <2>1
  <2>4. ~obs.exists /\ managed.rv = server.rv => ext = {} /\ inflight = {}
    <3> SUFFICES ASSUME ~obs.exists, managed.rv = server.rv PROVE ext = {} /\ inflight = {}
      OBVIOUS
    <3>1. managed.ann = server.ann /\ ~ExternalCreateIncomplete(server.ann)
      BY <1>0, <2>1 DEF AgreeInv, Agrees, Reading
    <3>2. ~ExternalCreateSucceededDuring(server.ann, now, CreationGrace)
      BY <2>1, <3>1 DEF AwaitingVisibility
    <3>3. deadline - Timeout \in Int /\ deadline - Timeout <= now /\ now <= deadline - Timeout + Timeout
          /\ 0 <= deadline - Timeout
      BY <1>0, <1>1, <2>1 DEF Timely
    <3>4. \A e \in Externals : ~(Awaited(server.ann, e) /\ Missed(server.ann, deadline - Timeout, e))
      BY <1>0, <1>1, <3>1, <3>2, <3>3, CreationWaits
    <3> QED BY <1>0, <1>1, <2>1, <3>1, <3>4 DEF Requests, Knowledge
  <2>5. CASE pc' = "act" /\ obs' = obs /\ deadline' = deadline
    <3>1. managed'.rv = server'.rv => (managed' = managed /\ server' = server) \/ managed.rv = server.rv
      BY <2>2, <2>5
    <3>2. ~obs.exists /\ managed'.rv = server'.rv => ext' = {} /\ inflight' = {}
      BY <2>1, <2>4, <3>1
    <3>3. ~obs.exists => \A f \in ext' : Missed(server'.ann, deadline - Timeout, f)
      BY <1>0, <2>1, <2>3, MissedOn DEF Knowledge
    <3>4. Knowledge'
      BY <2>5, <3>2, <3>3 DEF Knowledge
    <3> QED BY <1>5, <1>8, <2>1, <2>3, <3>4
  <2> QED BY <1>9, <2>1, <2>2, <2>3, <2>5
<1>22. CASE LateInitialize
  <2>1. pc = "act" /\ UNCHANGED <<now, inflight, ext>>
    BY <1>22 DEF LateInitialize, externalVars
  <2>2. \/ /\ pc' = "act" /\ obs' = [obs EXCEPT !.late = FALSE] /\ deadline' = deadline
           /\ managed.rv = server.rv
        \/ pc' \in {"idle", "status"}
    BY <1>10, <1>22 DEF LateInitialize, ClientUpdate, MayReply, Stores
  <2>3. [obs EXCEPT !.late = FALSE].exists = obs.exists
    BY <1>0 DEF TypeOK, PassTyped, Observations
  <2>4. SameStamps(server'.ann, server.ann)
    <3>1. ~Begun
      BY <1>22 DEF LateInitialize, Begun, BeginCreate
    <3> QED BY <1>2, <2>1, <3>1 DEF Cleared, Added, ClearPending, UpdateCriticalAnnotations
  <2>5. CASE pc' = "act" /\ obs' = [obs EXCEPT !.late = FALSE] /\ deadline' = deadline /\ managed.rv = server.rv
    <3>1. ~obs.exists => ext' = {} /\ inflight' = {}
      BY <1>0, <2>1, <2>5 DEF Knowledge
    <3>2. Knowledge'
      BY <2>3, <2>5, <3>1 DEF Knowledge
    <3> QED BY <1>5, <1>8, <2>1, <2>4, <3>2
  <2> QED BY <1>9, <2>1, <2>2, <2>4, <2>5
<1>23. CASE BeginCreate
  <2>1. pc = "act" /\ ~obs.exists /\ UNCHANGED <<now, inflight, ext>>
    BY <1>23 DEF BeginCreate, ToCreate, externalVars
  <2>2. (pc' = "create" /\ deadline' = deadline /\ managed.rv = server.rv) \/ pc' \in {"idle", "status"}
    <3> DEFINE o == [managed EXCEPT !.ann = SetExternalCreatePending(@, now)]
    <3>1. o.rv = managed.rv
      BY <1>1 DEF Objects
    <3>2. (GoOn("create", Updated(o, "ok")) /\ o.rv = server.rv) \/ (\E res : Return(res)) \/ \E m, res : Report(m, res)
      BY <1>23 DEF BeginCreate, ClientUpdate, MayReply, Stores
    <3> HIDE DEF o
    <3> QED BY <1>10, <3>1, <3>2 DEF GoOn
  <2>3. managed.rv = server.rv => ext = {} /\ inflight = {}
    BY <1>0, <2>1 DEF Knowledge
  <2>4. CASE SameStamps(server'.ann, server.ann) /\ pc' \in {"idle", "status"}
    BY <1>9, <2>1, <2>4
  <2>5. CASE managed.rv = server.rv
    <3>1. Requests'
      BY <2>1, <2>3, <2>5 DEF Requests, Single
    <3>2. pc' = "create" => deadline' <= LandsBy(server'.ann)
      <4> SUFFICES ASSUME pc' = "create" PROVE deadline' <= LandsBy(server'.ann)
        OBVIOUS
      <4> DEFINE o == [managed EXCEPT !.ann = SetExternalCreatePending(@, now)]
      <4>1. server' = Stored(o)
        BY <1>23 DEF BeginCreate, ClientUpdate, Stores, Return, ForgetPass, Report
      <4>2. o \in Objects /\ o.ann.pending = RFC3339(now)
        BY <1>1, StampsTyped, AnnotatedTyped DEF Objects, SetExternalCreatePending, Annotations
      <4> HIDE DEF o
      <4>3. server'.ann.pending = RFC3339(now)
        BY <1>1, <4>1, <4>2, StoredKeeps
      <4>4. RFC3339(now) \in Nat /\ now <= RFC3339(now) + TicksPerSecond - 1
        BY <1>1, FormattedTimes
      <4>5. deadline <= now + Timeout
        BY <1>0, <1>1, <2>1 DEF Timely
      <4> QED BY <1>1, <2>2, <4>3, <4>4, <4>5 DEF LandsBy
    <3>3. Knowledge'
      BY <2>1, <2>2, <2>3, <2>5, <3>2 DEF Knowledge
    <3> QED BY <1>5, <3>1, <3>3
  <2> QED BY <1>2, <2>1, <2>2, <2>4, <2>5 DEF Begun, Cleared, Added, ClearPending, UpdateCriticalAnnotations
<1>24. CASE CreateSucceeds
  <2> DEFINE named == IF NamedByServer THEN SetExternalName(managed.ann, created + 1) ELSE managed.ann
             a == SetExternalCreateSucceeded(named, now)
  <2>1. /\ pc = "create" /\ pc' = "critical" /\ UNCHANGED <<now, server, inflight>>
        /\ WriteCritical([managed EXCEPT !.ann = a], "succeeded", FALSE)
    BY <1>24 DEF CreateSucceeds, WriteCritical
  <2>2. crit'.ann = a /\ named = managed.ann
    BY <1>1, <2>1 DEF WriteCritical, Objects, HandshakeTiming
  <2>3. PICK lag \in 0..VisibilityLag :
          ext' = ext \cup {[id |-> created + 1, visibleAt |-> now + lag, spec |-> managed.spec]}
    BY <1>24 DEF CreateSucceeds, Land
  <2> DEFINE e == [id |-> created + 1, visibleAt |-> now + lag, spec |-> managed.spec]
  <2>4. ext = {} /\ inflight = {} /\ deadline <= LandsBy(server.ann) /\ ExternalCreateIncomplete(server.ann)
    BY <1>0, <2>1 DEF Knowledge, StampInv, CreateDetectable
  <2>5. ext' = {e} /\ e.visibleAt = now + lag /\ lag \in Nat /\ lag <= VisibilityLag
    BY <2>3, <2>4
  <2> HIDE DEF e
  <2>6. managed.ann.pending # ZeroTime /\ Stamped(managed.ann, now) /\ now <= deadline
    BY <1>0, <2>1 DEF MarkInv, CreateMarked, StampInv, Timely
  <2>7. a.pending # ZeroTime /\ ~ExternalCreateIncomplete(a) /\ a.succeeded = RFC3339(now)
    BY <1>0, <1>1, <2>2, <2>6, StampedOver
  <2> HIDE DEF a, named
  <2>8. Closes(a, e)
    <3>1. e.visibleAt \in Nat /\ e.visibleAt <= now + VisibilityLag
      BY <1>1, <2>5
    <3> QED BY <1>0, <2>7, <3>1, StampCloses
  <2>9. Awaited(server.ann, e)
    <3>1. LandsBy(server.ann) \in Int
      BY <1>1, LandsByTyped
    <3>2. e.visibleAt <= LandsBy(server.ann) + VisibilityLag
      BY <1>1, <2>4, <2>5, <2>6, <3>1
    <3> QED BY <2>4, <3>2 DEF Awaited
  <2>10. Requests'
    BY <2>1, <2>4, <2>5, <2>9 DEF Requests, Single
  <2>11. Knowledge'
    BY <2>1, <2>2, <2>4, <2>5, <2>7, <2>8 DEF Knowledge
  <2> QED BY <1>5, <2>10, <2>11
<1>25. CASE CreateFails
  <2> DEFINE a == SetExternalCreateFailed(managed.ann, now)
  <2>1. /\ pc = "create" /\ UNCHANGED <<now, server, inflight, ext>>
        /\ \E conflict \in BOOLEAN : WriteCritical([managed EXCEPT !.ann = a], "failed", conflict)
    BY <1>25 DEF CreateFails, HandshakeTiming
  <2>2. pc' = "critical" /\ crit'.ann = a
    BY <1>1, <2>1 DEF WriteCritical, Objects
  <2>3. ext = {} /\ inflight = {}
    BY <1>0, <2>1 DEF Knowledge
  <2>4. managed.ann.pending # ZeroTime /\ Stamped(managed.ann, now)
    BY <1>0, <2>1 DEF MarkInv, CreateMarked, StampInv
  <2>5. a.pending # ZeroTime /\ ~ExternalCreateIncomplete(a)
    BY <1>0, <1>1, <2>4, StampedOver
  <2> HIDE DEF a
  <2>6. Knowledge'
    BY <2>1, <2>2, <2>3, <2>5 DEF Knowledge
  <2> QED BY <1>4, <1>5, <1>8, <2>1, <2>6
<1>26. CASE UpdateCriticalAnnotations
  <2>1. /\ pc = "critical" /\ UNCHANGED <<now, inflight, ext>>
        /\ inflight = {} /\ crit.ann.pending # ZeroTime /\ ~ExternalCreateIncomplete(crit.ann)
        /\ \A e \in ext : Closes(crit.ann, e)
    BY <1>0, <1>26 DEF UpdateCriticalAnnotations, externalVars, Knowledge
  <2>2. \/ pc' = "critical" /\ crit'.ann = crit.ann
        \/ pc' = "decide" /\ obs'.exists
        \/ pc' \in {"idle", "status"}
    <3>1. \/ pc' = "critical" /\ crit' = [crit EXCEPT !.tries = @ + 1]
          \/ \E m, written : AfterCritical(m, written)
      BY <1>26 DEF UpdateCriticalAnnotations
    <3>2. crit' = [crit EXCEPT !.tries = @ + 1] => crit'.ann = crit.ann
      BY <1>0 DEF TypeOK, PassTyped, CriticalWrites
    <3>3. ASSUME NEW m, NEW written, AfterCritical(m, written)
          PROVE  (pc' = "decide" /\ obs'.exists) \/ pc' \in {"idle", "status"}
      <4>1. GoOn("decide", m) /\ crit.for = "adopt" => pc' = "decide" /\ obs'.exists
        BY <1>0, <2>1 DEF GoOn, AgreeInv
      <4> QED BY <1>10, <3>3, <4>1 DEF AfterCritical
    <3> QED BY <2>1, <3>1, <3>2, <3>3
  <2>3. Knowledge'
    BY <2>1, <2>2 DEF Knowledge
  <2>4. CASE SameStamps(server'.ann, server.ann)
    BY <1>5, <1>8, <2>1, <2>3, <2>4
  <2>5. CASE Added
    <3>1. crit.ann.succeeded # ZeroTime => server'.ann.succeeded = crit.ann.succeeded
      BY <1>1, <2>1, <2>5, AddedStamps DEF Added
    <3>2. \A e \in ext : Closes(server'.ann, e)
      BY <2>1, <3>1 DEF Closes
    <3>3. Requests'
      BY <1>0, <2>1, <3>2 DEF Requests, Awaited
    <3> QED BY <1>5, <2>3, <3>3
  <2> QED BY <1>2, <2>1, <2>4, <2>5 DEF Begun, Cleared, ClearPending, BeginCreate, ToCreate
<1>27. CASE Crash
  <2>1. pc' = "idle" /\ UNCHANGED <<now, server, ext>>
    BY <1>27 DEF Crash, ForgetPass
  <2>2. CASE inflight' = inflight
    BY <1>4, <1>9, <2>1, <2>2
  <2>3. CASE pc = "create" /\ inflight' = inflight \cup {[until |-> deadline, spec |-> managed.spec]}
    <3>1. /\ ext = {} /\ inflight = {} /\ deadline <= LandsBy(server.ann) /\ now <= deadline
          /\ ExternalCreateIncomplete(server.ann)
      BY <1>0, <2>3 DEF Knowledge, Timely, StampInv, CreateDetectable
    <3>2. inflight' = {[until |-> deadline, spec |-> managed.spec]}
      BY <2>3, <3>1
    <3>3. Requests'
      BY <2>1, <3>1, <3>2 DEF Requests, Single
    <3> QED BY <1>5, <1>6, <2>1, <3>3
  <2> QED BY <1>27, <2>2, <2>3 DEF Crash
<1>28. CASE LandLate
  BY <1>0, <1>5, <1>28, LateLands DEF HandInv
<1>29. CASE CacheSync \/ EditSpec \/ EditPause \/ EditPolicy \/ DeleteObject \/ ExternalVanishes \/ UNCHANGED vars
  <2>1. UNCHANGED <<now, pc, obs, crit, managed, deadline, inflight>> /\ ext' \subseteq ext
    BY <1>29 DEF CacheSync, EditSpec, EditPause, EditPolicy, DeleteObject, ExternalVanishes, EditObject, Edit,
       vars, passVars, externalVars
  <2>2. SameStamps(server'.ann, server.ann)
    BY <1>0, <1>2, <2>1, WritersMove
  <2>3. server' = server \/ ServerMoves
    BY <1>0, ServerStep
  <2>4. \A c \in inflight' : now' <= c.until
    BY <1>0, <2>1 DEF Requests
  <2> QED BY <1>0, <1>1, <2>1, <2>2, <2>3, <2>4, HandOn
<1>30. CASE Tick
  <2>1. /\ UNCHANGED <<server, pc, obs, crit, managed, deadline, ext>> /\ now' = now + 1
        /\ inflight' = {c \in inflight : now < c.until}
    BY <1>30 DEF Tick, passVars
  <2>2. \A c \in inflight' : now' <= c.until
    BY <1>0, <1>1, <2>1, HandTypes
  <2> QED BY <1>0, <1>4, <2>1, <2>2, HandOn
<1> QED
  BY <1>11, <1>12, <1>13, <1>14, <1>15, <1>16, <1>17, <1>18, <1>19, <1>20, <1>21, <1>22, <1>23, <1>24,
     <1>25, <1>26, <1>27, <1>28, <1>29, <1>30 DEF Next, Horizon, Reconcile, Environment

LEMMA HandInit == Init => HandInv
<1> SUFFICES ASSUME Init PROVE HandInv
  OBVIOUS
<1>1. StampInv /\ pc = "idle" /\ inflight = {}
  BY StampInit DEF Init
<1>2. ext \subseteq {[id |-> 1, visibleAt |-> 0, spec |-> 0]}
  BY DEF Init
<1>3. Requests
  BY <1>1, <1>2 DEF Requests, Single, Awaited
<1> QED
  BY <1>1, <1>3 DEF HandInv, Timely, Knowledge

LEMMA SingleCounts ==
  ASSUME NEW S, Single(S)
  PROVE  (S = {} /\ Cardinality(S) = 0) \/ (S # {} /\ Cardinality(S) = 1)
<1>1. CASE S = {}
  BY <1>1, FS_EmptySet
<1>2. CASE S # {}
  <2>1. PICK x : x \in S
    BY <1>2
  <2>2. S = {x}
    BY <2>1 DEF Single
  <2> QED BY <2>2, FS_Singleton
<1> QED
  BY <1>1, <1>2

\* With grace periods that outlast the lag of the external system, the length of a pass and the
\* resolution of the stamps, no resource is ever made twice: not around a crash in Create, not
\* after a lost reply, not from a stale cache, not while the first is not observable yet.
THEOREM NothingIsMadeTwice ==
  ASSUME HandshakeTiming
  PROVE  Spec => []NoDuplicate
<1>1. HandInv /\ [Next]_vars => HandInv'
  BY HandStep
<1>2. HandInv => NoDuplicate
  <2> SUFFICES ASSUME HandInv PROVE NoDuplicate
    OBVIOUS
  <2>1. Single(ext)
    BY DEF HandInv, Requests
  <2> QED BY <2>1, SingleCounts DEF NoDuplicate
<1> QED
  BY HandInit, <1>1, <1>2, PTL DEF Spec

-----------------------------------------------------------------------------
\* Reconciler implements CreateHandshake.

\* A BeginCreate that is stored opens a handshake where none was open; another leaves the pass.
LEMMA BeginOpens ==
  ASSUME StampInv, BeginCreate
  PROVE  \/ server' = server /\ pc' \in {"idle", "status"}
         \/ /\ managed.rv = server.rv /\ pc' \in {"idle", "status", "create"}
            /\ ~ExternalCreateIncomplete(server.ann) /\ ExternalCreateIncomplete(server'.ann)
<1> USE HandTypes
<1>0. TypeOK /\ AgreeInv /\ MarkInv
  BY DEF StampInv, MarkInv
<1> DEFINE o == [managed EXCEPT !.ann = SetExternalCreatePending(@, now)]
<1>1. o \in Objects /\ o.rv = managed.rv /\ o.ann = SetExternalCreatePending(managed.ann, now)
  BY <1>0, StampsTyped, AnnotatedTyped DEF Objects
<1>2. /\ pc = "act" /\ ~obs.exists
      /\ \/ server' = server /\ ((\E res : Return(res)) \/ \E m, res : Report(m, res))
         \/ server' = Stored(o) /\ o.rv = server.rv
            /\ ((\E m : GoOn("create", m)) \/ (\E res : Return(res)) \/ \E m, res : Report(m, res))
  BY DEF BeginCreate, ToCreate, ClientUpdate, MayReply, Stores
<1> HIDE DEF o
<1>3. \A m, res : Return(res) \/ Report(m, res) => pc' \in {"idle", "status"}
  BY DEF Return, ForgetPass, Report
<1>4. CASE server' = Stored(o) /\ o.rv = server.rv
  <2>1. managed.ann = server.ann /\ ~managed.deleted
    BY <1>0, <1>1, <1>2, <1>4 DEF AgreeInv, Agrees, Reading
  <2>2. ~ExternalCreateIncomplete(server.ann)
    BY <1>0, <1>2, <2>1 DEF AgreeInv
  <2>3. Before(managed.ann, now)
    BY <1>2 DEF StampInv, Unopened
  <2>4. ExternalCreateIncomplete(o.ann)
    BY <1>0, <1>1, <2>3, PendingOpens DEF MarkInv
  <2>5. server'.ann = o.ann
    BY <1>0, <1>1, <1>4, StoredKeeps
  <2>6. pc' \in {"idle", "status", "create"}
    BY <1>2, <1>3 DEF GoOn
  <2> QED BY <1>1, <1>4, <2>2, <2>4, <2>5, <2>6
<1> QED
  BY <1>2, <1>3, <1>4

LEMMA HandshakeInit == Init => Handshake!Init
<1> SUFFICES ASSUME Init PROVE Handshake!Init
  OBVIOUS
<1>1. HandInv /\ pc = "idle" /\ inflight = {}
  BY HandInit DEF Init
<1>2. PICK mgmt \in InitialManagement, del \in InitialDeletion :
        server.ann = [NoAnnotations EXCEPT !.mgmt = mgmt, !.del = del,
                        !.name = IF NamedByServer THEN created ELSE 0]
  BY DEF Init, NoObject
<1>3. ExternalCreateIncomplete(server.ann) = FALSE
  BY <1>2 DEF NoAnnotations, ExternalCreateIncomplete, ZeroTime
<1>4. Cardinality(ext) \in {0, 1}
  BY <1>1, SingleCounts DEF HandInv, Requests
<1> QED
  BY <1>1, <1>3, <1>4 DEF Handshake!Init

\* Every step is one of the handshake, or none of its variables changes.
LEMMA HandshakeStep ==
  ASSUME HandshakeTiming, HandInv, [Next]_vars
  PROVE  [Handshake!Next]_(Handshake!vars)
<1> USE HandTypes
<1> DEFINE open == ExternalCreateIncomplete(server.ann)
           wire == pc = "create" \/ inflight # {}
           resources == Cardinality(ext)
<1>0. /\ StampInv /\ AgreeInv /\ MarkInv /\ TypeOK /\ Requests /\ Knowledge
      /\ HandInv' /\ Requests' /\ Knowledge'
  BY HandStep DEF HandInv, StampInv, MarkInv
<1>1. SameStamps(server'.ann, server.ann) \/ Cleared \/ Begun \/ Added
  BY <1>0, ServerStamps
<1>2. open \in BOOLEAN /\ open' \in BOOLEAN /\ wire \in BOOLEAN /\ wire' \in BOOLEAN
  BY DEF ExternalCreateIncomplete
<1>3. /\ (ext = {} /\ resources = 0) \/ (ext # {} /\ resources = 1)
      /\ (ext' = {} /\ resources' = 0) \/ (ext' # {} /\ resources' = 1)
  BY <1>0, SingleCounts DEF Requests
<1>4. SameStamps(server'.ann, server.ann) => open' = open
  BY <1>2, SameKnowledge
<1>5. \A m, res : Return(res) \/ Report(m, res) => pc' \in {"idle", "status"}
  BY DEF Return, ForgetPass, Report
<1>6. ASSUME open' = open, wire' = wire, resources' = resources PROVE UNCHANGED Handshake!vars
  BY <1>6 DEF Handshake!vars
<1>7. ASSUME SameStamps(server'.ann, server.ann), UNCHANGED <<ext, inflight>>, pc # "create", pc' # "create"
      PROVE  UNCHANGED Handshake!vars
  BY <1>4, <1>6, <1>7
<1>8. ASSUME open = TRUE, open' = FALSE, wire = FALSE, wire' = FALSE, ext' = ext PROVE Handshake!Close
  BY <1>8 DEF Handshake!Close
<1>9. ASSUME open' = open, wire = TRUE, wire' = FALSE, ext = {}, ext' # {} PROVE Handshake!Land
  BY <1>3, <1>9 DEF Handshake!Land
<1>10. ASSUME open' = open, wire = TRUE, wire' = FALSE, ext' = ext PROVE Handshake!Drop
  BY <1>10 DEF Handshake!Drop
<1>11. ASSUME open' = open, wire' = wire, ext' \subseteq ext PROVE Handshake!Remove \/ UNCHANGED Handshake!vars
  <2>1. CASE resources' = resources
    BY <1>6, <1>11, <2>1
  <2>2. CASE resources' # resources
    <3>1. resources = 1 /\ resources' = 0
      BY <1>3, <1>11, <2>2
    <3> QED BY <1>11, <3>1 DEF Handshake!Remove
  <2> QED BY <2>1, <2>2
<1>12. /\ open <=> ExternalCreateIncomplete(server.ann)
       /\ open' <=> ExternalCreateIncomplete(server'.ann)
       /\ wire <=> (pc = "create" \/ inflight # {})
       /\ wire' <=> (pc' = "create" \/ inflight' # {})
  OBVIOUS
<1> HIDE DEF open, wire, resources
<1>13. CASE BeginCreate
  <2>1. pc = "act" /\ ~obs.exists /\ UNCHANGED <<ext, inflight>>
    BY <1>13 DEF BeginCreate, ToCreate, externalVars
  <2>2. CASE server' = server /\ pc' \in {"idle", "status"}
    BY <1>7, <2>1, <2>2 DEF SameStamps
  <2>3. CASE managed.rv = server.rv /\ ~ExternalCreateIncomplete(server.ann) /\ ExternalCreateIncomplete(server'.ann)
    <3>1. ext = {} /\ inflight = {}
      BY <1>0, <2>1, <2>3 DEF Knowledge
    <3>2. open = FALSE /\ open' = TRUE /\ wire = FALSE /\ resources = 0 /\ resources' = resources
      BY <1>2, <1>3, <1>12, <2>1, <2>3, <3>1
    <3> QED BY <1>2, <3>2 DEF Handshake!Next, Handshake!Open, open, wire, resources
  <2> QED BY <1>0, <1>13, <2>2, <2>3, BeginOpens
<1>14. CASE ClearPending
  <2>1. pc = "resolve" /\ pc' \in {"decide", "idle"} /\ UNCHANGED <<ext, inflight>>
    BY <1>5, <1>14 DEF ClearPending, externalVars, GoOn, Return, ForgetPass
  <2>2. CASE SameStamps(server'.ann, server.ann)
    BY <1>7, <2>1, <2>2
  <2>3. CASE Cleared
    <3>1. ExternalCreateIncomplete(server.ann)
      BY <1>0, <2>1, <2>3 DEF AgreeInv, Agrees, Reading, Cleared
    <3>2. ~ExternalCreateIncomplete(server'.ann)
      BY <1>0, <2>3 DEF Cleared, RemovePending, ExternalCreateIncomplete, Annotations
    <3>3. inflight = {}
      BY <1>0, <2>1, <3>2 DEF Requests
    <3> QED BY <1>2, <1>8, <1>12, <2>1, <3>1, <3>2, <3>3 DEF Handshake!Next
  <2> QED BY <1>1, <2>1, <2>2, <2>3 DEF Begun, Added, BeginCreate, ToCreate, UpdateCriticalAnnotations
<1>15. CASE UpdateCriticalAnnotations
  <2>1. /\ pc = "critical" /\ UNCHANGED <<ext, inflight>> /\ inflight = {}
        /\ crit.ann.pending # ZeroTime /\ ~ExternalCreateIncomplete(crit.ann)
    BY <1>0, <1>15 DEF UpdateCriticalAnnotations, externalVars, Knowledge
  <2>2. pc' # "create"
    BY <1>5, <1>15, <2>1 DEF UpdateCriticalAnnotations, AfterCritical, GoOn
  <2>3. CASE SameStamps(server'.ann, server.ann)
    BY <1>7, <2>1, <2>2, <2>3
  <2>4. CASE Added
    <3>1. ~ExternalCreateIncomplete(server'.ann)
      BY <1>0, <2>1, <2>4, AddedStamps DEF Added
    <3>2. open' = FALSE /\ wire = FALSE /\ wire' = FALSE
      BY <1>2, <1>12, <2>1, <2>2, <3>1
    <3>3. resources' = resources
      BY <2>1 DEF resources
    <3> QED BY <1>2, <1>6, <1>8, <2>1, <3>2, <3>3 DEF Handshake!Next
  <2> QED BY <1>1, <2>1, <2>3, <2>4 DEF Begun, Cleared, ClearPending, BeginCreate, ToCreate
<1>16. CASE CreateSucceeds
  <2>1. pc = "create" /\ pc' = "critical" /\ UNCHANGED <<server, inflight>> /\ ext' # {}
    BY <1>16 DEF CreateSucceeds, Land, WriteCritical
  <2>2. ext = {} /\ inflight = {}
    BY <1>0, <2>1 DEF Knowledge
  <2>3. wire = TRUE /\ wire' = FALSE /\ open' = open
    BY <1>2, <1>4, <1>12, <2>1, <2>2 DEF SameStamps
  <2> QED BY <1>9, <2>1, <2>2, <2>3 DEF Handshake!Next
<1>17. CASE CreateFails
  <2>1. pc = "create" /\ pc' = "critical" /\ UNCHANGED <<server, inflight, ext>>
    BY <1>17 DEF CreateFails, WriteCritical, HandshakeTiming
  <2>2. inflight = {}
    BY <1>0, <2>1 DEF Knowledge
  <2>3. wire = TRUE /\ wire' = FALSE /\ open' = open
    BY <1>2, <1>4, <1>12, <2>1, <2>2 DEF SameStamps
  <2> QED BY <1>10, <2>1, <2>3 DEF Handshake!Next
<1>18. CASE Crash
  <2>1. pc' = "idle" /\ UNCHANGED <<server, ext>>
        /\ (inflight' = inflight \/ (pc = "create" /\ inflight' # {}))
    BY <1>18 DEF Crash, ForgetPass
  <2>2. open' = open
    BY <1>4, <2>1 DEF SameStamps
  <2>3. resources' = resources
    BY <2>1 DEF resources
  <2>4. wire' = TRUE => wire = TRUE
    BY <1>2, <1>12, <2>1
  <2>5. CASE wire' = wire
    BY <1>6, <2>2, <2>3, <2>5
  <2>6. CASE wire' # wire
    <3>1. wire = TRUE /\ wire' = FALSE
      BY <1>2, <2>4, <2>6
    <3> QED BY <1>10, <2>1, <2>2, <3>1 DEF Handshake!Next
  <2> QED BY <2>5, <2>6
<1>19. CASE LandLate
  <2>1. PICK c \in inflight : inflight' = inflight \ {c}
    BY <1>19 DEF LandLate
  <2>2. pc' = pc /\ server' = server /\ ext' # {}
    BY <1>19 DEF LandLate, Land
  <2>3. ext = {} /\ inflight' = {} /\ pc # "create"
    BY <1>0, <2>1 DEF Requests, Single, Knowledge
  <2>4. wire = TRUE /\ wire' = FALSE /\ open' = open
    BY <1>2, <1>4, <1>12, <2>1, <2>2, <2>3 DEF SameStamps
  <2> QED BY <1>9, <2>2, <2>3, <2>4 DEF Handshake!Next
<1>20. CASE Tick
  <2>1. UNCHANGED <<pc, server, ext>> /\ inflight' \subseteq inflight
    BY <1>20 DEF Tick
  <2>2. open' = open
    BY <1>4, <2>1 DEF SameStamps
  <2>3. resources' = resources
    BY <2>1 DEF resources
  <2>4. wire' = TRUE => wire = TRUE
    BY <1>2, <1>12, <2>1
  <2>5. CASE wire' = wire
    BY <1>6, <2>2, <2>3, <2>5
  <2>6. CASE wire' # wire
    <3>1. wire = TRUE /\ wire' = FALSE
      BY <1>2, <2>4, <2>6
    <3> QED BY <1>10, <2>1, <2>2, <3>1 DEF Handshake!Next
  <2> QED BY <2>5, <2>6
<1>21. CASE Delete \/ ExternalVanishes
  <2>1. /\ UNCHANGED <<server, inflight>> /\ ext' \subseteq ext
        /\ pc' = "create" <=> pc = "create"
    BY <1>21 DEF Delete, ToDelete, Report, ExternalVanishes, Edit
  <2>2. wire' = wire
    BY <1>2, <1>12, <2>1
  <2>3. open' = open
    BY <1>4, <2>1 DEF SameStamps
  <2> QED BY <1>11, <2>1, <2>2, <2>3 DEF Handshake!Next
<1>22. CASE Update
  <2>1. pc' # "create" /\ pc # "create" /\ UNCHANGED <<server, inflight>> /\ (ext' = {} <=> ext = {})
    BY <1>22 DEF Update, ToUpdate, Report
  <2>2. resources' = resources
    BY <1>3, <2>1
  <2>3. wire' = wire /\ open' = open
    BY <1>2, <1>4, <1>12, <2>1 DEF SameStamps
  <2> QED BY <1>6, <2>2, <2>3
<1>23. CASE \/ GetNotFound \/ GetFails \/ GetPaused \/ GetOrphaned \/ Get
            \/ DeferReconcile \/ Connect \/ ObserveMissing \/ ObserveFound \/ ObserveFails
            \/ AdoptCreate \/ AwaitRecovery \/ ReportMissing \/ AwaitVisibility \/ NothingToDo
  <2>1. UNCHANGED <<server, ext, inflight>>
    BY <1>23 DEF GetNotFound, GetFails, GetPaused, GetOrphaned, Get, BeginPass, DeferReconcile, DeferFor,
       Connect, ObserveMissing, ObserveFound, ObserveFails, AdoptCreate, AwaitRecovery, ReportMissing,
       AwaitVisibility, NothingToDo, externalVars
  <2>2. pc # "create" /\ pc' # "create"
    BY <1>5, <1>23 DEF GetNotFound, GetFails, GetPaused, GetOrphaned, Get, BeginPass, Dequeue, passVars,
       DeferReconcile, DeferFor, AtGate, ToDelete, ToCreate, ToUpdate, Connect, GoOn, ObserveMissing,
       ObserveFound, ObserveFails, AdoptCreate, WriteCritical, AwaitRecovery, ReportMissing,
       AwaitVisibility, NothingToDo
  <2> QED BY <1>7, <2>1, <2>2 DEF SameStamps
<1>24. CASE RemoveFinalizer \/ AddFinalizer \/ StatusUpdate \/ LateInitialize
  <2>1. UNCHANGED <<ext, inflight>> /\ pc \in {"release", "decide", "status", "act"} /\ pc' # "create"
    BY <1>5, <1>24 DEF RemoveFinalizer, ToRelease, AddFinalizer, StatusUpdate, LateInitialize, GoOn, externalVars
  <2>2. ~Begun
    BY <1>24 DEF RemoveFinalizer, ToRelease, AddFinalizer, StatusUpdate, LateInitialize, Begun, BeginCreate, ToCreate
  <2>3. SameStamps(server'.ann, server.ann)
    BY <1>1, <2>1, <2>2 DEF Cleared, Added, ClearPending, UpdateCriticalAnnotations
  <2> QED BY <1>7, <2>1, <2>3
<1>25. CASE CacheSync \/ EditSpec \/ EditPause \/ EditPolicy \/ DeleteObject \/ UNCHANGED vars
  <2>1. UNCHANGED <<pc, crit, inflight, ext>>
    BY <1>25 DEF CacheSync, EditSpec, EditPause, EditPolicy, DeleteObject, EditObject, Edit,
       vars, passVars, externalVars
  <2>2. SameStamps(server'.ann, server.ann)
    BY <1>0, <1>1, <2>1, WritersMove
  <2>3. wire' = wire
    BY <1>2, <1>12, <2>1
  <2> QED BY <1>4, <1>6, <2>1, <2>2, <2>3 DEF resources
<1> QED
  BY <1>13, <1>14, <1>15, <1>16, <1>17, <1>18, <1>19, <1>20, <1>21, <1>22, <1>23, <1>24, <1>25
     DEF Next, Horizon, Reconcile, Environment

\* Under the same hypothesis Reconciler implements CreateHandshake: a handshake is open before
\* the one request that may create the resource, and it is closed, by a stamp or by the recovery,
\* only when no request of a live or a dead pass can land any more.
THEOREM ReconcilerHandshakes ==
  ASSUME HandshakeTiming
  PROVE  Spec => HandshakeSpec
<1>1. HandInv /\ [Next]_vars => HandInv'
  BY HandStep
<1>2. HandInv /\ [Next]_vars => [Handshake!Next]_(Handshake!vars)
  BY HandshakeStep
<1> QED
  BY HandInit, HandshakeInit, <1>1, <1>2, PTL DEF Spec, HandshakeSpec, Handshake!Spec
-----------------------------------------------------------------------------
\* Deletion, where what exists is observable at once and no request outlives its process.

PlainSight == VisibilityLag = 0 /\ ~Crashes /\ ~NamedByServer /\ InitialExternals \subseteq {0}

LeakInv ==
  /\ OwnedInv
  /\ AgreeInv
  /\ inflight = {}
  /\ created = 0 => ext = {}
  /\ \A e \in ext : e.visibleAt <= now
  /\ pc \in {"resolve", "decide", "act"} /\ ~obs.exists => ext = {}
  /\ pc = "release" => ~ShouldDelete(managed.ann)
  /\ NoLeak

\* A stored object goes when its finalizer is removed, or when it is deleted without one.
LEMMA GoneBy ==
  ASSUME AgreeInv, [Next]_vars, server.exists, ~server'.exists
  PROVE  \/ RemoveFinalizer /\ managed.ann = server.ann /\ server'.ann = server.ann
         \/ DeleteObject /\ ~server.fin
<1> USE HandTypes
<1>0. TypeOK /\ CopyInv /\ Held(server) /\ Held(cached)
  BY DEF AgreeInv, CopyInv
<1>1. ASSUME NEW new \in Objects, server' = Bump(new) PROVE new.deleted /\ ~new.fin
  <2>1. server' # server
    OBVIOUS
  <2>2. server' = [new EXCEPT !.rv = server.rv + 1, !.exists = new.fin \/ ~new.deleted]
    BY <1>1, <2>1 DEF Bump
  <2> QED BY <1>0, <2>2 DEF Objects
<1>2. ASSUME NEW o \in Objects, server' = Stored(o) PROVE o.deleted /\ ~o.fin
  <2> DEFINE new == SetConditions(o, server.ready, server.synced)
  <2>1. new \in Objects /\ new.deleted = o.deleted /\ new.fin = o.fin
    BY <1>0, ConditionsTyped, ConditionsKeep DEF Objects
  <2>2. server' = Bump(new)
    BY <1>2 DEF Stored
  <2> HIDE DEF new
  <2> QED BY <1>1, <2>1, <2>2
<1>3. ASSUME NEW o \in Objects, NEW r \in Replies, ClientUpdate(o, r), o.deleted => o.fin PROVE FALSE
  BY <1>2, <1>3 DEF ClientUpdate
<1>4. CASE ClearPending
  <2>1. PICK r \in Replies : ClientUpdate([managed EXCEPT !.ann = RemovePending(@)], r)
    BY <1>4 DEF ClearPending
  <2>2. [managed EXCEPT !.ann = RemovePending(@)] \in Objects /\ (managed.deleted => managed.fin)
    BY <1>0, <1>4, StampsTyped, AnnotatedTyped DEF ClearPending, CopyInv, Carries
  <2> QED BY <1>0, <1>3, <2>1, <2>2 DEF Objects
<1>5. CASE BeginCreate
  <2>1. PICK r \in Replies : ClientUpdate([managed EXCEPT !.ann = SetExternalCreatePending(@, now)], r)
    BY <1>5 DEF BeginCreate
  <2>2. [managed EXCEPT !.ann = SetExternalCreatePending(@, now)] \in Objects /\ (managed.deleted => managed.fin)
    BY <1>0, <1>5, StampsTyped, AnnotatedTyped DEF BeginCreate, ToCreate, CopyInv, Carries
  <2> QED BY <1>0, <1>3, <2>1, <2>2 DEF Objects
<1>6. CASE UpdateCriticalAnnotations
  <2> DEFINE o == [cached EXCEPT !.ann = AddAnnotations(@, crit.ann)]
  <2>1. o \in Objects /\ o.deleted = cached.deleted /\ o.fin = cached.fin
    BY <1>0, AddTyped, AnnotatedTyped DEF Objects
  <2>2. cached.exists /\ \E r \in Replies : ClientUpdate(o, r)
    BY <1>6 DEF UpdateCriticalAnnotations
  <2> HIDE DEF o
  <2> QED BY <1>0, <1>3, <2>1, <2>2 DEF Held
<1>7. CASE LateInitialize
  <2>1. PICK r \in Replies : ClientUpdate(managed, r)
    BY <1>7 DEF LateInitialize
  <2>2. managed.deleted => managed.fin
    BY <1>0, <1>7 DEF LateInitialize, CopyInv, Carries
  <2> QED BY <1>0, <1>3, <2>1, <2>2
<1>8. CASE AddFinalizer
  <2>1. \E r \in Replies : ClientUpdate([managed EXCEPT !.fin = TRUE], r)
    BY <1>8 DEF AddFinalizer
  <2>2. [managed EXCEPT !.fin = TRUE] \in Objects /\ [managed EXCEPT !.fin = TRUE].fin
    BY <1>0 DEF Objects
  <2> QED BY <1>3, <2>1, <2>2
<1>9. CASE RemoveFinalizer
  <2> DEFINE o == [managed EXCEPT !.fin = FALSE]
  <2>1. o \in Objects /\ o.ann = managed.ann /\ o.rv = managed.rv
    BY <1>0 DEF Objects
  <2>2. server' = Stored(o) /\ o.rv = server.rv
    BY <1>9 DEF RemoveFinalizer, ClientUpdate, MayReply
  <2>3. Reading
    BY <1>9 DEF RemoveFinalizer, ToRelease, Reading
  <2> HIDE DEF o
  <2>4. server'.ann = o.ann /\ managed.ann = server.ann
    BY <1>0, <2>1, <2>2, <2>3, StoredKeeps DEF AgreeInv, Agrees
  <2> QED BY <1>9, <2>1, <2>4
<1>10. CASE StatusUpdate
  <2>1. server' = Bump(SetConditions(server, managed.ready, managed.synced))
    BY <1>10 DEF StatusUpdate, StatusStored
  <2> DEFINE new == SetConditions(server, managed.ready, managed.synced)
  <2>2. new \in Objects /\ new.fin = server.fin /\ new.deleted = server.deleted
    BY <1>0, ConditionsTyped, ConditionsKeep DEF Objects
  <2> HIDE DEF new
  <2> QED BY <1>0, <1>1, <2>1, <2>2 DEF Held, new
<1>11. CASE EditSpec
  <2>1. [server EXCEPT !.spec = @ + 1] \in Objects
    BY <1>0 DEF Objects
  <2> QED BY <1>0, <1>1, <1>11, <2>1 DEF EditSpec, EditObject, Objects, Held
<1>12. CASE EditPause
  <2>1. PICK p \in {"", "true"} : server' = Bump([server EXCEPT !.ann.paused = p])
    BY <1>12 DEF EditPause, EditObject
  <2>2. /\ [server EXCEPT !.ann.paused = p] \in Objects
        /\ [server EXCEPT !.ann.paused = p].fin = server.fin
        /\ [server EXCEPT !.ann.paused = p].deleted = server.deleted
    BY <1>0 DEF Objects, Annotations
  <2> QED BY <1>0, <1>1, <2>1, <2>2 DEF Held
<1>13. CASE EditPolicy
  <2>1. PICK d \in {"delete", "orphan"} : server' = Bump([server EXCEPT !.ann.del = d])
    BY <1>13 DEF EditPolicy, EditObject
  <2>2. /\ [server EXCEPT !.ann.del = d] \in Objects
        /\ [server EXCEPT !.ann.del = d].fin = server.fin
        /\ [server EXCEPT !.ann.del = d].deleted = server.deleted
    BY <1>0 DEF Objects, Annotations, DeletionPolicies
  <2> QED BY <1>0, <1>1, <2>1, <2>2 DEF Held
<1>14. CASE DeleteObject
  <2>1. [server EXCEPT !.deleted = TRUE] \in Objects /\ [server EXCEPT !.deleted = TRUE].fin = server.fin
    BY <1>0 DEF Objects
  <2> QED BY <1>1, <1>14, <2>1 DEF DeleteObject, EditObject
<1>15. CASE server' = server
  BY <1>15
<1>16. CASE DeferReconcile
  BY <1>15, <1>16 DEF DeferReconcile, DeferFor
<1>17. CASE \/ GetNotFound \/ GetFails \/ GetPaused \/ GetOrphaned \/ Get
            \/ Connect \/ ObserveMissing \/ ObserveFound \/ ObserveFails
  BY <1>15, <1>17 DEF GetNotFound, GetFails, GetPaused, GetOrphaned, Get, BeginPass,
     Connect, ObserveMissing, ObserveFound, ObserveFails
<1>18. CASE \/ AdoptCreate \/ AwaitRecovery \/ ReportMissing \/ AwaitVisibility \/ Delete
            \/ CreateSucceeds \/ CreateFails \/ NothingToDo \/ Update
  BY <1>15, <1>18 DEF AdoptCreate, AwaitRecovery, ReportMissing, AwaitVisibility, Delete, CreateSucceeds,
     CreateFails, NothingToDo, Update
<1>19. CASE Crash \/ LandLate \/ CacheSync \/ ExternalVanishes \/ Tick \/ UNCHANGED vars
  BY <1>15, <1>19 DEF Crash, LandLate, CacheSync, ExternalVanishes, Tick, vars
<1> QED
  BY <1>4, <1>5, <1>6, <1>7, <1>8, <1>9, <1>10, <1>11, <1>12, <1>13, <1>14, <1>16, <1>17, <1>18, <1>19
     DEF Next, Horizon, Reconcile, Environment

\* What a pass in its middle observed, it observed itself, in this step or an earlier one.
LEMMA ObservationKept ==
  ASSUME AgreeInv, [Next]_vars, pc' \in {"resolve", "decide", "act"}, ~obs'.exists
  PROVE  ObserveMissing \/ (pc \in {"resolve", "decide", "act"} /\ ~obs.exists)
<1> USE HandTypes
<1>0. TypeOK /\ obs \in Observations
  BY DEF AgreeInv, CopyInv, TypeOK, PassTyped
<1>1. \A m, res : ~Return(res) /\ ~Report(m, res)
  BY DEF Return, ForgetPass, Report
<1>2. CASE UNCHANGED <<pc, obs>>
  BY <1>2
<1>3. CASE \/ GetNotFound \/ GetFails \/ GetPaused \/ GetOrphaned \/ Get \/ Crash
  <2>1. CASE GetNotFound \/ GetFails
    BY <1>2, <2>1 DEF GetNotFound, GetFails, passVars
  <2>2. CASE GetPaused \/ GetOrphaned \/ Get
    BY <2>2 DEF GetPaused, GetOrphaned, Get, BeginPass
  <2>3. CASE Crash
    BY <2>3 DEF Crash, ForgetPass
  <2> QED BY <1>3, <2>1, <2>2, <2>3
<1>4. CASE \/ DeferReconcile \/ Connect \/ ObserveFound \/ ObserveFails \/ AwaitRecovery \/ ReportMissing
           \/ AwaitVisibility \/ Delete \/ NothingToDo \/ Update \/ StatusUpdate \/ RemoveFinalizer
  <2>1. CASE DeferReconcile \/ Connect \/ ObserveFails \/ AwaitRecovery \/ ReportMissing \/ AwaitVisibility
    BY <1>1, <2>1 DEF DeferReconcile, DeferFor, Connect, GoOn, ObserveFails, AwaitRecovery, ReportMissing,
       AwaitVisibility
  <2>2. CASE ObserveFound
    BY <2>2 DEF ObserveFound
  <2>3. CASE Delete \/ NothingToDo \/ Update
    BY <1>1, <2>3 DEF Delete, NothingToDo, Update
  <2>4. CASE StatusUpdate \/ RemoveFinalizer
    BY <1>1, <2>4 DEF StatusUpdate, RemoveFinalizer
  <2> QED BY <1>4, <2>1, <2>2, <2>3, <2>4
<1>5. CASE AdoptCreate \/ BeginCreate \/ CreateSucceeds \/ CreateFails
  BY <1>1, <1>5 DEF AdoptCreate, BeginCreate, CreateSucceeds, CreateFails, WriteCritical, GoOn
<1>6. CASE ClearPending \/ AddFinalizer
  BY <1>1, <1>6 DEF ClearPending, AddFinalizer, GoOn
<1>7. CASE LateInitialize
  <2>1. pc = "act" /\ obs' = [obs EXCEPT !.late = FALSE]
    BY <1>1, <1>7 DEF LateInitialize
  <2> QED BY <1>0, <2>1 DEF Observations
<1>8. CASE UpdateCriticalAnnotations
  <2>1. pc = "critical" /\ \E m, written : AfterCritical(m, written)
    BY <1>8 DEF UpdateCriticalAnnotations
  <2>2. crit.for = "adopt" /\ obs' = obs
    BY <1>1, <2>1 DEF AfterCritical, GoOn
  <2> QED BY <2>1, <2>2 DEF AgreeInv
<1>9. CASE \/ LandLate \/ CacheSync \/ EditSpec \/ EditPause \/ EditPolicy \/ DeleteObject \/ ExternalVanishes
           \/ Tick \/ UNCHANGED vars
  BY <1>2, <1>9 DEF LandLate, CacheSync, EditSpec, EditPause, EditPolicy, DeleteObject, ExternalVanishes,
     EditObject, Edit, Tick, vars, passVars
<1> QED
  BY <1>3, <1>4, <1>5, <1>6, <1>7, <1>8, <1>9 DEF Next, Horizon, Reconcile, Environment
-----------------------------------------------------------------------------
\* A step leaves the resources as they are or fewer, or it is a Create of the running pass.
KeepsExternals ==
  created' = created /\ \A f \in ext' : \E e \in ext : e.visibleAt = f.visibleAt

MakesExternal ==
  /\ pc = "create" /\ pc' = "critical" /\ server' = server
  /\ created' > 0
  /\ \A f \in ext' : f \in ext \/ f.visibleAt = now

LEMMA ExternalsKept ==
  ASSUME TypeOK, PlainSight, inflight = {}, [Next]_vars
  PROVE  inflight' = {} /\ now' >= now /\ (KeepsExternals \/ MakesExternal)
<1> USE HandTypes
<1>1. now' >= now
  BY ClockAndCache
<1>2. CASE UNCHANGED <<ext, inflight, created>>
  BY <1>1, <1>2 DEF KeepsExternals
<1>3. CASE CreateSucceeds \/ CreateFails
  <2>1. inflight' = inflight /\ pc = "create" /\ pc' = "critical" /\ server' = server
    BY <1>3 DEF CreateSucceeds, CreateFails, WriteCritical
  <2>2. UNCHANGED <<ext, created>> \/ \E lag \in 0..VisibilityLag : Land(managed.spec, lag)
    BY <1>3 DEF CreateSucceeds, CreateFails
  <2>3. ASSUME NEW lag \in 0..VisibilityLag, Land(managed.spec, lag) PROVE MakesExternal
    <3>1. lag = 0
      BY DEF PlainSight
    <3> QED BY <2>1, <2>3, <3>1 DEF Land, MakesExternal
  <2> QED BY <1>1, <1>2, <2>1, <2>2, <2>3
<1>4. CASE Delete
  <2>1. ext' \subseteq ext /\ UNCHANGED <<inflight, created>>
    BY <1>4 DEF Delete
  <2> QED BY <1>1, <2>1 DEF KeepsExternals
<1>5. CASE Update
  <2>1. UNCHANGED <<inflight, created>>
    BY <1>5 DEF Update
  <2>2. \/ ext' = ext
        \/ ext' = {IF e.id = obs.id THEN [e EXCEPT !.spec = managed.spec] ELSE e : e \in ext}
    BY <1>5 DEF Update
  <2>3. \A e \in ext : [e EXCEPT !.spec = managed.spec].visibleAt = e.visibleAt
    BY DEF Externals
  <2> QED BY <1>1, <2>1, <2>2, <2>3 DEF KeepsExternals
<1>6. CASE ExternalVanishes
  <2>1. ext' \subseteq ext /\ UNCHANGED <<inflight, created>>
    BY <1>6 DEF ExternalVanishes, Edit
  <2> QED BY <1>1, <2>1 DEF KeepsExternals
<1>7. CASE Tick
  <2>1. UNCHANGED <<ext, created>> /\ inflight' \subseteq inflight
    BY <1>7 DEF Tick
  <2> QED BY <1>1, <2>1 DEF KeepsExternals
<1>8. CASE Crash \/ LandLate
  BY <1>8 DEF Crash, LandLate, PlainSight
<1>9. CASE DeferReconcile
  BY <1>2, <1>9 DEF DeferReconcile, DeferFor, externalVars
<1>10. CASE \/ GetNotFound \/ GetFails \/ GetPaused \/ GetOrphaned \/ Get
            \/ Connect \/ ObserveMissing \/ ObserveFound \/ ObserveFails
            \/ AdoptCreate \/ AwaitRecovery \/ ClearPending \/ ReportMissing \/ AwaitVisibility
            \/ RemoveFinalizer \/ AddFinalizer
  BY <1>2, <1>10 DEF GetNotFound, GetFails, GetPaused, GetOrphaned, Get, BeginPass, Connect, ObserveMissing,
     ObserveFound, ObserveFails, AdoptCreate, AwaitRecovery, ClearPending, ReportMissing, AwaitVisibility,
     RemoveFinalizer, AddFinalizer, externalVars
<1>11. CASE \/ BeginCreate \/ UpdateCriticalAnnotations \/ LateInitialize \/ NothingToDo
            \/ StatusUpdate \/ CacheSync \/ EditSpec \/ EditPause \/ EditPolicy \/ DeleteObject
            \/ UNCHANGED vars
  BY <1>2, <1>11 DEF BeginCreate, UpdateCriticalAnnotations, LateInitialize, NothingToDo, StatusUpdate,
     CacheSync, EditSpec, EditPause, EditPolicy, DeleteObject, EditObject, Edit, externalVars, vars
<1> QED
  BY <1>3, <1>4, <1>5, <1>6, <1>7, <1>8, <1>9, <1>10, <1>11 DEF Next, Horizon, Reconcile, Environment

\* A pass that only releases the finalizer decided so from the copy it started with.
LEMMA ReleaseFrom ==
  ASSUME [Next]_vars, pc' = "release"
  PROVE  GetOrphaned \/ (pc = "release" /\ managed' = managed)
<1>1. \A m, res : ~Return(res) /\ ~Report(m, res)
  BY DEF Return, ForgetPass, Report
<1>2. CASE UNCHANGED <<pc, managed>>
  BY <1>2
<1>3. CASE GetNotFound \/ GetFails
  BY <1>2, <1>3 DEF GetNotFound, GetFails, passVars
<1>4. CASE GetPaused \/ Get \/ Crash
  BY <1>4 DEF GetPaused, Get, BeginPass, Crash, ForgetPass
<1>5. CASE DeferReconcile \/ Connect \/ ObserveMissing \/ ObserveFound \/ ObserveFails
  <2>1. CASE DeferReconcile \/ Connect \/ ObserveFails
    BY <1>1, <2>1 DEF DeferReconcile, DeferFor, Connect, GoOn, ObserveFails
  <2>2. CASE ObserveMissing \/ ObserveFound
    BY <2>2 DEF ObserveMissing, ObserveFound
  <2> QED BY <1>5, <2>1, <2>2
<1>6. CASE AdoptCreate \/ CreateSucceeds \/ CreateFails
  BY <1>6 DEF AdoptCreate, CreateSucceeds, CreateFails, WriteCritical
<1>7. CASE AwaitRecovery \/ ReportMissing \/ AwaitVisibility \/ Delete \/ NothingToDo \/ Update
  BY <1>1, <1>7 DEF AwaitRecovery, ReportMissing, AwaitVisibility, Delete, NothingToDo, Update
<1>8. CASE ClearPending \/ AddFinalizer \/ BeginCreate
  BY <1>1, <1>8 DEF ClearPending, AddFinalizer, BeginCreate, GoOn
<1>9. CASE RemoveFinalizer \/ StatusUpdate
  BY <1>1, <1>9 DEF RemoveFinalizer, StatusUpdate
<1>10. CASE LateInitialize
  <2>1. pc = "act" /\ (pc' = pc \/ \E m, res : Return(res) \/ Report(m, res))
    BY <1>10 DEF LateInitialize
  <2> QED BY <1>1, <2>1
<1>11. CASE UpdateCriticalAnnotations
  <2>1. pc = "critical" /\ (pc' = pc \/ \E m, written : AfterCritical(m, written))
    BY <1>11 DEF UpdateCriticalAnnotations
  <2> QED BY <1>1, <2>1 DEF AfterCritical, GoOn
<1>12. CASE \/ LandLate \/ CacheSync \/ EditSpec \/ EditPause \/ EditPolicy \/ DeleteObject
            \/ ExternalVanishes \/ Tick \/ UNCHANGED vars
  BY <1>2, <1>12 DEF LandLate, CacheSync, EditSpec, EditPause, EditPolicy, DeleteObject, ExternalVanishes,
     EditObject, Edit, Tick, vars, passVars
<1> QED
  BY <1>3, <1>4, <1>5, <1>6, <1>7, <1>8, <1>9, <1>10, <1>11, <1>12 DEF Next, Horizon, Reconcile, Environment

LEMMA LeakStep ==
  ASSUME PlainSight, LeakInv, [Next]_vars
  PROVE  LeakInv'
<1> USE HandTypes
<1>0. /\ TypeOK /\ TypeOK' /\ OwnedInv' /\ AgreeInv' /\ now \in Nat /\ now' \in Nat
      /\ server' = server \/ ServerMoves
  BY AgreeStep, OwnedStep, TypeStep, ServerStep DEF LeakInv, AgreeInv, CopyInv, TypeOK, WorldTyped
<1>1. inflight' = {} /\ now' >= now /\ (KeepsExternals \/ MakesExternal)
  BY <1>0, ExternalsKept DEF LeakInv
<1>2. \A e \in ext : e.visibleAt \in Nat /\ e.visibleAt <= now
  BY <1>0 DEF Externals, LeakInv
<1>3. \A f \in ext' : f.visibleAt <= now'
  <2>1. TAKE f \in ext'
  <2>2. (\E e \in ext : e.visibleAt = f.visibleAt) \/ f.visibleAt = now
    BY <1>1 DEF KeepsExternals, MakesExternal
  <2> QED BY <1>0, <1>1, <1>2, <2>2
<1>4. CASE MakesExternal
  <2>1. server'.exists
    BY <1>4 DEF MakesExternal, LeakInv, OwnedInv, MarkInv, CreateMarked
  <2>2. pc' = "critical" /\ created' # 0
    BY <1>4 DEF MakesExternal
  <2> QED BY <1>0, <1>1, <1>3, <2>1, <2>2 DEF LeakInv, NoLeak
<1>5. CASE KeepsExternals
  <2>1. ext = {} => ext' = {}
    BY <1>5 DEF KeepsExternals
  <2>2. created' = 0 => ext' = {}
    BY <1>5, <2>1 DEF KeepsExternals, LeakInv
  <2>3. pc' \in {"resolve", "decide", "act"} /\ ~obs'.exists => ext' = {}
    <3> SUFFICES ASSUME pc' \in {"resolve", "decide", "act"}, ~obs'.exists PROVE ext' = {}
      OBVIOUS
    <3>1. CASE ObserveMissing
      <4>1. Observable(managed) = {}
        BY <3>1 DEF ObserveMissing
      <4>2. ext = {}
        BY <1>2, <4>1 DEF Observable, PlainSight
      <4> QED BY <2>1, <4>2
    <3>2. CASE pc \in {"resolve", "decide", "act"} /\ ~obs.exists
      BY <2>1, <3>2 DEF LeakInv
    <3> QED BY <3>1, <3>2, ObservationKept DEF LeakInv
  <2>4. pc' = "release" => ~ShouldDelete(managed'.ann)
    <3>1. GetOrphaned => managed' = cached /\ ~ShouldDelete(cached.ann)
      BY DEF GetOrphaned, BeginPass
    <3> QED BY <3>1, ReleaseFrom DEF LeakInv
  <2>5. NoLeak'
    <3> SUFFICES ASSUME ~server'.exists, ShouldDelete(server'.ann) PROVE ext' = {}
      BY DEF NoLeak
    <3>1. CASE server' = server
      BY <2>1, <3>1 DEF LeakInv, NoLeak
    <3>2. CASE ServerMoves
      <4>1. server.exists
        BY <3>2 DEF ServerMoves
      <4>2. CASE RemoveFinalizer /\ managed.ann = server.ann /\ server'.ann = server.ann
        <5>1. pc = "decide" /\ ~obs.exists
          BY <4>2 DEF RemoveFinalizer, ToRelease, ToDelete, LeakInv
        <5> QED BY <2>1, <5>1 DEF LeakInv
      <4>3. CASE DeleteObject /\ ~server.fin
        <5>1. created = 0
          BY <1>0, <4>1, <4>3 DEF LeakInv, OwnedInv
        <5> QED BY <2>1, <5>1 DEF LeakInv
      <4> QED BY <4>1, <4>2, <4>3, GoneBy DEF LeakInv
    <3> QED BY <1>0, <3>1, <3>2
  <2> QED BY <1>0, <1>1, <1>3, <2>2, <2>3, <2>4, <2>5 DEF LeakInv
<1> QED
  BY <1>1, <1>4, <1>5

\* An object that a delete policy governs goes only after its resource is gone, where a created
\* resource is observable at once and no request outlives its process: whatever is lost, stale,
\* failed or edited in between.  (Where it takes a while to show, a delete in that window
\* releases the finalizer early: Observe finds nothing.)
THEOREM NothingLeaks ==
  ASSUME PlainSight
  PROVE  Spec => []NoLeak
<1>1. Init => LeakInv
  <2> SUFFICES ASSUME Init PROVE LeakInv
    OBVIOUS
  <2>1. created = 0 /\ inflight = {} /\ ext = {} /\ pc = "idle"
    BY DEF Init, PlainSight
  <2>2. OwnedInv
    BY <2>1, CopyInit, MarkInit DEF OwnedInv
  <2> QED BY <2>1, <2>2, AgreeInit DEF LeakInv, NoLeak
<1>2. LeakInv /\ [Next]_vars => LeakInv'
  BY LeakStep
<1>3. LeakInv => NoLeak
  BY DEF LeakInv
<1> QED
  BY <1>1, <1>2, <1>3, PTL DEF Spec
-----------------------------------------------------------------------------
\* Success.  A pass that is about to store ReconcileSuccess has observed, or has just made, a
\* resource of the spec on its copy, and a copy of the current version has its spec.

\* The pass is about to store the status of a success.
Polling == pc = "status" /\ ret.kind = "poll"

\* The pass goes by an observation.
Observing == pc \in {"resolve", "decide", "act"} \/ (pc = "critical" /\ crit.for = "adopt")

Matches(e) == e.id = obs.id /\ (e.spec = managed.spec \/ StaleAdoption)

AppliedInv ==
  /\ AgreeInv
  /\ pc = "idle" => ret.kind # "poll"
  /\ Polling => Agrees(managed, server)
  /\ Observing /\ obs.exists => \E e \in ext : e.id = obs.id /\ (obs.upToDate => Matches(e))
  /\ Polling => ~ShouldUpdate(managed.ann) \/ \E e \in ext : Matches(e)

LEMMA AppliedStep ==
  ASSUME "vanish" \notin UserEdits, AppliedInv, [Next]_vars
  PROVE  AppliedInv'
<1>0. /\ TypeOK /\ CopyInv /\ AgreeInv' /\ managed \in Objects /\ cached \in Objects /\ server \in Objects
      /\ Held(server) /\ managed.ann \in Annotations /\ cached.ann \in Annotations /\ crit.ann \in Annotations
      /\ now \in Nat /\ obs \in Observations /\ crit \in CriticalWrites /\ ext \in SUBSET Externals
  BY AgreeStep DEF AppliedInv, AgreeInv, CopyInv, TypeOK, PassTyped, WorldTyped, Objects, CriticalWrites
<1>1. server' = server \/ ServerMoves
  BY <1>0, ServerStep
\* Where the pass neither goes by an observation nor is about to store a success.
<1>3. ASSUME \/ pc' = "create"
             \/ pc' \in {"idle", "status"} /\ ret'.kind # "poll"
             \/ pc' = "critical" /\ crit'.for # "adopt"
      PROVE  AppliedInv'
  BY <1>0, <1>3 DEF AppliedInv, Polling, Observing
<1>4. \A m, res : Return(res) \/ (Report(m, res) /\ res.kind # "poll") => AppliedInv'
  <2>1. \A res : Return(res) => pc' = "idle" /\ ret'.kind # "poll"
    BY DEF Return, ForgetPass, NoRequeue
  <2>2. \A m, res : Report(m, res) => pc' = "status" /\ ret' = res
    BY DEF Report
  <2> QED BY <1>3, <2>1, <2>2
<1>5. /\ RateLimited.kind # "poll" /\ Errored.kind # "poll" /\ Reobserve.kind # "poll"
      /\ \A d : DeferredFor(d).kind # "poll"
      /\ \A res \in Polls : res.kind = "poll"
  BY DEF RateLimited, Errored, Reobserve, DeferredFor, Polls
\* Where the copy keeps what it asks for.
<1>6. ASSUME Agrees(managed, server),
             managed'.rv = managed.rv /\ managed'.spec = managed.spec /\ managed'.ann = managed.ann
      PROVE  Agrees(managed', server')
  <2>1. Agrees(managed, server')
    BY <1>0, <1>1, <1>6, AgreesOn
  <2> QED BY <1>6, <2>1 DEF Agrees
<1>7. ASSUME pc' \in {"release", "connect", "observe"}
      PROVE  AppliedInv'
  BY <1>0, <1>7 DEF AppliedInv, Polling, Observing
<1>8. CASE \/ GetNotFound \/ GetFails \/ GetPaused \/ DeferReconcile
  <2>1. GetNotFound \/ GetFails => pc' = "idle" /\ ret'.kind # "poll"
    BY DEF GetNotFound, GetFails, Dequeue, passVars, AppliedInv
  <2>2. GetPaused => pc' = "status" /\ ret'.kind # "poll"
    BY DEF GetPaused, BeginPass, Dequeue, AppliedInv
  <2> QED BY <1>3, <1>4, <1>5, <1>8, <2>1, <2>2 DEF DeferReconcile, DeferFor
<1>9. CASE GetOrphaned \/ Get
  BY <1>7, <1>9 DEF GetOrphaned, Get, BeginPass
<1>10. CASE Connect
  <2>1. GoOn("observe", managed) => AppliedInv'
    BY <1>7 DEF GoOn
  <2> QED BY <1>4, <1>5, <1>10, <2>1 DEF Connect
<1>11. CASE ObserveMissing \/ ObserveFound
  <2>1. pc' \in {"resolve", "decide"} /\ ext' = ext /\ managed'.spec = managed.spec
    BY <1>0, <1>11, ObservedKeeps DEF ObserveMissing, ObserveFound, externalVars
  <2>2. obs'.exists => \E e \in ext' : e.id = obs'.id /\ (obs'.upToDate => e.spec = managed'.spec)
    <3>1. CASE ObserveMissing
      BY <3>1 DEF ObserveMissing, NoObservation
    <3>2. CASE ObserveFound
      <4>1. PICK e \in Observable(managed), late \in {FALSE, LateInitializes /\ ~managed.late} :
              obs' = [exists |-> TRUE, upToDate |-> e.spec = managed.spec, late |-> late, id |-> e.id]
        BY <3>2, Zenon DEF ObserveFound
      <4>2. e \in ext /\ obs'.id = e.id /\ obs'.upToDate = (e.spec = managed.spec)
        BY <4>1 DEF Observable
      <4> QED BY <2>1, <4>2
    <3> QED BY <1>11, <3>1, <3>2
  <2> QED BY <1>0, <2>1, <2>2 DEF AppliedInv, Polling, Matches
\* Where the pass goes on with its observation and what it asks for.
<1>12. ASSUME Observing, pc' \in {"resolve", "decide", "act"}, ext' = ext,
              crit' = crit, obs'.exists = obs.exists, obs'.id = obs.id, obs'.upToDate = obs.upToDate,
              ~obs.exists \/ crit.for = "adopt" \/ managed'.spec = managed.spec
       PROVE  AppliedInv'
  <2>1. obs'.exists => \E e \in ext' : e.id = obs'.id /\ (obs'.upToDate => Matches(e)')
    <3>1. \A e : Matches(e)' <=> (e.id = obs'.id /\ (e.spec = managed'.spec \/ (crit'.for = "adopt" /\ obs'.upToDate)))
      BY DEF Matches, StaleAdoption
    <3>2. ASSUME obs.exists
          PROVE  \E e \in ext : e.id = obs.id
                    /\ (obs.upToDate => e.spec = managed.spec \/ (crit.for = "adopt" /\ obs.upToDate))
      BY <1>12, <3>2 DEF AppliedInv, Matches, StaleAdoption
    <3> QED BY <1>12, <3>1, <3>2
  <2> QED BY <1>0, <1>12, <2>1, Zenon DEF AppliedInv, Polling
<1>13. ASSUME NEW o \in Objects, managed' = Updated(o, "ok"), server' = Stored(o)
       PROVE  managed'.spec = o.spec
  BY <1>0, <1>13, UpdatedAgrees
<1>14. CASE AdoptCreate
  <2>1. /\ pc = "resolve" /\ obs.exists /\ pc' = "critical" /\ crit'.for = "adopt" /\ obs' = obs /\ ext' = ext
    BY <1>14 DEF AdoptCreate, WriteCritical, externalVars
  <2>2. \E e \in ext : e.id = obs.id
    BY <2>1 DEF AppliedInv, Observing
  <2> QED BY <1>0, <2>1, <2>2 DEF AppliedInv, Polling, Matches, StaleAdoption
<1>15. CASE ClearPending
  <2> DEFINE o == [managed EXCEPT !.ann = RemovePending(@)]
  <2>1. o \in Objects
    BY <1>0, StampsTyped, AnnotatedTyped
  <2>2. pc = "resolve" /\ ~obs.exists /\ ext' = ext
    BY <1>15 DEF ClearPending, externalVars
  <2>3. \/ /\ server' = Stored(o) /\ managed' = Updated(o, "ok") /\ pc' = "decide" /\ obs' = obs /\ crit' = crit
        \/ Return(RateLimited) \/ Return(Errored)
    BY <1>15 DEF ClearPending, ClientUpdate, GoOn, Stores
  <2> HIDE DEF o
  <2> QED BY <1>4, <1>12, <1>13, <2>1, <2>2, <2>3 DEF Observing
<1>16. CASE AddFinalizer
  <2> DEFINE o == [managed EXCEPT !.fin = TRUE]
  <2>1. o \in Objects /\ o.spec = managed.spec
    BY <1>0 DEF Objects
  <2>2. pc = "decide" /\ ext' = ext
    BY <1>16 DEF AddFinalizer, externalVars
  <2>3. \/ managed' = managed /\ server' = server /\ pc' = "act" /\ obs' = obs /\ crit' = crit
        \/ server' = Stored(o) /\ managed' = Updated(o, "ok") /\ pc' = "act" /\ obs' = obs /\ crit' = crit
        \/ Return(RateLimited) \/ Report(SetSynced(o, "ReconcileError"), Errored)
    BY <1>16 DEF AddFinalizer, ClientUpdate, GoOn, Stores
  <2> HIDE DEF o
  <2> QED BY <1>4, <1>5, <1>12, <1>13, <2>1, <2>2, <2>3 DEF Observing
<1>17. CASE LateInitialize
  <2>1. pc = "act" /\ ext' = ext
    BY <1>17 DEF LateInitialize, externalVars
  <2>2. \/ /\ server' = Stored(managed) /\ managed' = Updated(managed, "ok") /\ pc' = "act" /\ crit' = crit
           /\ obs' = [obs EXCEPT !.late = FALSE]
        \/ Return(RateLimited) \/ Report(SetSynced(managed, "ReconcileError"), Errored)
    BY <1>17 DEF LateInitialize, ClientUpdate, Stores
  <2>3. [obs EXCEPT !.late = FALSE].exists = obs.exists /\ [obs EXCEPT !.late = FALSE].id = obs.id
        /\ [obs EXCEPT !.late = FALSE].upToDate = obs.upToDate
    BY <1>0 DEF Observations
  <2> QED BY <1>0, <1>4, <1>5, <1>12, <1>13, <2>1, <2>2, <2>3 DEF Observing
<1>18. CASE UpdateCriticalAnnotations
  <2> DEFINE o == [cached EXCEPT !.ann = AddAnnotations(@, crit.ann)]
             back(r) == IF cached.exists THEN Updated(o, r) ELSE managed
  <2>1. o \in Objects /\ pc = "critical" /\ ext' = ext
    BY <1>0, <1>18, AddTyped, AnnotatedTyped DEF UpdateCriticalAnnotations, externalVars
  <2>2. PICK r \in Replies :
          \/ AfterCritical(back(r), FALSE)
          \/ r = "ok" /\ AfterCritical(back(r), TRUE) /\ cached.exists /\ server' = Stored(o)
          \/ pc' = "critical" /\ crit' = [crit EXCEPT !.tries = @ + 1] /\ obs' = obs
    BY <1>18 DEF UpdateCriticalAnnotations, ClientUpdate, Stores
  <2> HIDE DEF o
  <2>3. CASE pc' = "critical" /\ crit' = [crit EXCEPT !.tries = @ + 1] /\ obs' = obs
    <3>1. crit'.for = crit.for
      BY <1>0, <2>3 DEF CriticalWrites
    <3>2. CASE crit.for = "adopt"
      <4>1. obs'.exists => \E e \in ext' : e.id = obs'.id
        BY <2>1, <2>3, <3>2 DEF AppliedInv, Observing
      <4> QED BY <1>0, <2>3, <3>1, <3>2, <4>1 DEF AppliedInv, Polling, Matches, StaleAdoption
    <3> QED BY <1>3, <2>3, <3>1, <3>2
  <2>4. CASE r = "ok" /\ crit.for = "adopt" /\ GoOn("decide", Updated(o, "ok")) /\ server' = Stored(o)
    <3>1. pc' = "decide" /\ managed' = Updated(o, "ok") /\ obs' = obs /\ crit' = crit
      BY <2>4 DEF GoOn
    <3> QED BY <1>12, <1>13, <2>1, <2>4, <3>1 DEF Observing
  <2> QED BY <1>4, <1>5, <2>2, <2>3, <2>4 DEF AfterCritical
\* Where the pass reports success: the copy is the one it acted on.
<1>19. ASSUME pc = "act", NEW res \in Polls, Report(SetSynced(managed, "ReconcileSuccess"), res),
              ~ShouldUpdate(managed.ann) \/ \E e \in ext' : e.id = obs.id
                 /\ (e.spec = managed.spec \/ StaleAdoption)
       PROVE  AppliedInv'
  <2>1. pc' = "status" /\ managed' = SetSynced(managed, "ReconcileSuccess") /\ obs' = obs /\ crit' = crit
    BY <1>19 DEF Report
  <2>2. managed'.ann = managed.ann /\ managed'.rv = managed.rv /\ managed'.spec = managed.spec
    BY <1>0, <2>1 DEF SetSynced, Objects
  <2>3. Agrees(managed', server')
    BY <1>6, <1>19, <2>2 DEF AppliedInv, AgreeInv, Reading
  <2> QED BY <1>0, <1>19, <2>1, <2>2, <2>3 DEF AppliedInv, Observing, Matches, StaleAdoption
<1>20. CASE NothingToDo
  <2>1. pc = "act" /\ ext' = ext /\ \E res \in Polls : Report(SetSynced(managed, "ReconcileSuccess"), res)
    BY <1>20 DEF NothingToDo, externalVars
  <2>2. ShouldUpdate(managed.ann) => obs.upToDate /\ obs.exists
    BY <1>20 DEF NothingToDo, ToCreate, ShouldUpdate, ShouldCreate
  <2>3. ~ShouldUpdate(managed.ann) \/ \E e \in ext' : e.id = obs.id /\ (e.spec = managed.spec \/ StaleAdoption)
    BY <2>1, <2>2 DEF AppliedInv, Observing, Matches
  <2> QED BY <1>19, <2>1, <2>3
<1>21. CASE Update
  <2>1. CASE Report(SetSynced(managed, "ReconcileError"), Errored)
    BY <1>4, <1>5, <2>1
  <2>2. CASE /\ ext' = {IF e.id = obs.id THEN [e EXCEPT !.spec = managed.spec] ELSE e : e \in ext}
             /\ \E res \in Polls : Report(SetSynced(managed, "ReconcileSuccess"), res)
    <3>1. pc = "act" /\ obs.exists
      BY <1>21 DEF Update, ToUpdate, ToCreate, ShouldUpdate, ShouldCreate
    <3>2. PICK e \in ext : e.id = obs.id
      BY <3>1 DEF AppliedInv, Observing
    <3>3. [e EXCEPT !.spec = managed.spec] \in ext'
      BY <2>2, <3>2
    <3>4. [e EXCEPT !.spec = managed.spec].id = obs.id /\ [e EXCEPT !.spec = managed.spec].spec = managed.spec
      BY <1>0, <3>2 DEF Externals
    <3> QED BY <1>19, <2>2, <3>1, <3>3, <3>4
  <2> QED BY <1>21, <2>1, <2>2 DEF Update
<1>22. CASE \/ ObserveFails \/ AwaitRecovery \/ ReportMissing \/ AwaitVisibility \/ Delete
            \/ RemoveFinalizer \/ StatusUpdate
  BY <1>4, <1>5, <1>22 DEF ObserveFails, AwaitRecovery, ReportMissing, AwaitVisibility, Delete,
     RemoveFinalizer, StatusUpdate
<1>23. CASE BeginCreate \/ CreateSucceeds \/ CreateFails \/ Crash
  <2>1. CreateSucceeds \/ CreateFails => pc' = "critical" /\ crit'.for # "adopt"
    BY DEF CreateSucceeds, CreateFails, WriteCritical
  <2>2. \A m : GoOn("create", m) => pc' = "create"
    BY DEF GoOn
  <2>3. Crash => pc' = "idle" /\ ret'.kind # "poll"
    BY DEF Crash, ForgetPass, NoRequeue
  <2> QED BY <1>3, <1>4, <1>5, <1>23, <2>1, <2>2, <2>3 DEF BeginCreate
<1>24. ASSUME UNCHANGED <<pc, passVars>>, ext \subseteq ext'
       PROVE  AppliedInv'
  <2>1. Polling => Agrees(managed', server')
    BY <1>6, <1>24 DEF AppliedInv, passVars
  <2>2. (Polling' <=> Polling) /\ (Observing' <=> Observing) /\ \A e : Matches(e)' <=> Matches(e)
    BY <1>24 DEF Polling, Observing, Matches, StaleAdoption, passVars
  <2> QED BY <1>0, <1>24, <2>1, <2>2 DEF AppliedInv, passVars
<1>25. CASE Environment /\ ~Crash
  <2>1. ~ExternalVanishes
    BY DEF ExternalVanishes, Edit
  <2>2. UNCHANGED <<pc, passVars>> /\ ext \subseteq ext'
    BY <1>25, <2>1 DEF Environment, LandLate, Land, CacheSync, EditSpec, EditPause, EditPolicy, DeleteObject,
       EditObject, Edit, Tick, externalVars
  <2> QED BY <1>24, <2>2
<1>26. CASE UNCHANGED vars
  BY <1>24, <1>26 DEF vars, externalVars
<1> QED
  BY <1>8, <1>9, <1>10, <1>11, <1>14, <1>15, <1>16, <1>17, <1>18, <1>20, <1>21, <1>22, <1>23, <1>25, <1>26
     DEF Next, Horizon, Reconcile

LEMMA AppliedInit == Init => AppliedInv
<1> SUFFICES ASSUME Init PROVE AppliedInv
  OBVIOUS
<1> QED
  BY AgreeInit DEF AppliedInv, Polling, Observing, Init, NoRequeue

\* While a status is being written, only that write ends the pass and changes the stored object.
LEMMA OnlyStatusStores ==
  ASSUME [Next]_vars, pc = "status", pc' = "idle", server' # server
  PROVE  StatusUpdate
<1>1. CASE Reconcile
  BY <1>1 DEF Reconcile, GetNotFound, GetFails, GetPaused, GetOrphaned, Get, BeginPass, Dequeue,
     DeferReconcile, DeferFor, Connect, ObserveMissing, ObserveFound, ObserveFails, AdoptCreate,
     AwaitRecovery, ClearPending, ReportMissing, AwaitVisibility, Delete, ToDelete, RemoveFinalizer,
     ToRelease, AddFinalizer, BeginCreate, ToCreate, CreateSucceeds, CreateFails,
     UpdateCriticalAnnotations, LateInitialize, NothingToDo, Update, ToUpdate
<1>2. CASE Environment \/ UNCHANGED vars
  BY <1>2 DEF Environment, Crash, LandLate, CacheSync, EditSpec, EditPause, EditPolicy, DeleteObject,
     EditObject, Edit, ExternalVanishes, Tick, vars
<1> QED
  BY <1>1, <1>2 DEF Next, Horizon

\* Where nobody else deletes external resources, ReconcileSuccess is only ever stored beside a
\* spec that the pass observed to be applied, or applied, whatever was edited, stale, deferred or
\* interrupted in between: unless the pass adopted a create, and so read the object again after
\* it had compared the specs (StaleAdoption).
THEOREM SuccessIsApplied ==
  ASSUME "vanish" \notin UserEdits
  PROVE  Spec => SuccessMeansApplied
<1>1. AppliedInv /\ [Next]_vars => AppliedInv'
  BY AppliedStep
<1>2. AppliedInv /\ [Next]_vars =>
        [/\ pc = "status" /\ pc' = "idle"
         /\ ret.kind = "poll"
         /\ server' # server
         /\ ~StaleAdoption
         => ~ShouldUpdate(server.ann) \/ \E e \in ext : e.id = obs.id /\ e.spec = server.spec]_vars
  <2> SUFFICES ASSUME AppliedInv, ~StaleAdoption, [Next]_vars, pc = "status", pc' = "idle",
                      ret.kind = "poll", server' # server
               PROVE  ~ShouldUpdate(server.ann) \/ \E e \in ext : e.id = obs.id /\ e.spec = server.spec
    OBVIOUS
  <2>1. managed.rv = server.rv
    BY OnlyStatusStores DEF StatusUpdate, MayReply
  <2>2. managed.spec = server.spec /\ managed.ann = server.ann
    BY <2>1 DEF AppliedInv, Polling, Agrees
  <2> QED BY <2>2 DEF AppliedInv, Polling, Matches
<1> QED
  BY AppliedInit, <1>1, <1>2, PTL DEF Spec, SuccessMeansApplied
-----------------------------------------------------------------------------
\* Edits.  A write that is accepted comes from a copy of the current version, and so has its spec.

LEMMA OnlyUsersEdit ==
  ASSUME AgreeInv, [Next]_vars, server'.spec # server.spec
  PROVE  edits' # edits
<1>0. /\ managed \in Objects /\ cached \in Objects /\ server \in Objects /\ edits \in Nat
      /\ managed.ann \in Annotations /\ cached.ann \in Annotations /\ crit.ann \in Annotations /\ now \in Nat
  BY DEF AgreeInv, CopyInv, TypeOK, PassTyped, WorldTyped, Objects, CriticalWrites
<1>1. server' # server
  BY <1>0
\* A copy whose version may be the current one, with other annotations or another finalizer.
<1>2. ASSUME NEW p \in Objects, Agrees(p, server), NEW o \in Objects, o.rv = p.rv, o.spec = p.spec,
             NEW r \in Replies, ClientUpdate(o, r)
      PROVE  FALSE
  <2>1. server' = Stored(o) /\ o.rv = server.rv
    BY <1>1, <1>2 DEF ClientUpdate, MayReply
  <2> QED BY <1>0, <1>2, <2>1, StoredKeeps DEF Agrees
<1>3. Reading => Agrees(managed, server)
  BY DEF AgreeInv
<1>4. CASE ClearPending \/ BeginCreate
  <2>1. PICK o \in {[managed EXCEPT !.ann = RemovePending(@)], [managed EXCEPT !.ann = SetExternalCreatePending(@, now)]},
             r \in Replies : ClientUpdate(o, r)
    BY <1>4 DEF ClearPending, BeginCreate
  <2>2. o \in Objects /\ o.rv = managed.rv /\ o.spec = managed.spec
    BY <1>0, <2>1, StampsTyped, AnnotatedTyped DEF Objects
  <2> QED BY <1>0, <1>2, <1>3, <1>4, <2>1, <2>2 DEF Reading, ClearPending, BeginCreate, ToCreate
<1>5. CASE AddFinalizer \/ RemoveFinalizer \/ LateInitialize
  <2>1. PICK o \in {managed, [managed EXCEPT !.fin = TRUE], [managed EXCEPT !.fin = FALSE]},
             r \in Replies : ClientUpdate(o, r)
    BY <1>1, <1>5 DEF AddFinalizer, RemoveFinalizer, LateInitialize
  <2>2. o \in Objects /\ o.rv = managed.rv /\ o.spec = managed.spec
    BY <1>0, <2>1 DEF Objects
  <2> QED
    BY <1>0, <1>2, <1>3, <1>5, <2>1, <2>2 DEF Reading, AddFinalizer, RemoveFinalizer, ToRelease, LateInitialize
<1>6. CASE UpdateCriticalAnnotations
  <2> DEFINE o == [cached EXCEPT !.ann = AddAnnotations(@, crit.ann)]
  <2>1. o \in Objects /\ o.rv = cached.rv /\ o.spec = cached.spec
    BY <1>0, AddTyped, AnnotatedTyped DEF Objects
  <2>2. \E r \in Replies : ClientUpdate(o, r)
    BY <1>1, <1>6 DEF UpdateCriticalAnnotations
  <2> HIDE DEF o
  <2> QED BY <1>0, <1>2, <2>1, <2>2 DEF AgreeInv
<1>7. CASE StatusUpdate
  <2> DEFINE new == SetConditions(server, managed.ready, managed.synced)
  <2>1. new \in Objects /\ new.spec = server.spec
    BY <1>0, ConditionsTyped, ConditionsKeep DEF Objects
  <2>2. server' = Bump(new)
    BY <1>1, <1>7 DEF StatusUpdate, StatusStored
  <2> HIDE DEF new
  <2> QED BY <1>0, <2>1, <2>2, BumpKeeps
<1>8. CASE EditSpec \/ EditPause \/ EditPolicy \/ DeleteObject
  <2>1. \A kind, new : EditObject(kind, new) => edits' = edits + 1
    BY DEF EditObject, Edit
  <2>2. edits' = edits + 1
    BY <1>8, <2>1, Zenon DEF EditSpec, EditPause, EditPolicy, DeleteObject
  <2> QED BY <1>0, <2>2
<1>9. CASE \/ GetNotFound \/ GetFails \/ GetPaused \/ GetOrphaned \/ Get \/ DeferReconcile
           \/ Connect \/ ObserveMissing \/ ObserveFound \/ ObserveFails
  BY <1>1, <1>9 DEF GetNotFound, GetFails, GetPaused, GetOrphaned, Get, BeginPass, DeferReconcile, DeferFor,
     Connect, ObserveMissing, ObserveFound, ObserveFails
<1>10. CASE \/ AdoptCreate \/ AwaitRecovery \/ ReportMissing \/ AwaitVisibility \/ Delete
            \/ CreateSucceeds \/ CreateFails \/ NothingToDo \/ Update
  BY <1>1, <1>10 DEF AdoptCreate, AwaitRecovery, ReportMissing, AwaitVisibility, Delete, CreateSucceeds,
     CreateFails, NothingToDo, Update
<1>11. CASE Crash \/ LandLate \/ CacheSync \/ ExternalVanishes \/ Tick \/ UNCHANGED vars
  BY <1>1, <1>11 DEF Crash, LandLate, CacheSync, ExternalVanishes, Tick, vars
<1> QED
  BY <1>4, <1>5, <1>6, <1>7, <1>8, <1>9, <1>10, <1>11 DEF Next, Horizon, Reconcile, Environment

\* No write of a pass sets an edit of the spec back, whatever was cached, lost, retried or deferred
\* and wherever a process died: in particular not the merge of the critical annotations.
THEOREM EditsDoSurvive == Spec => EditsSurvive
<1>1. AgreeInv /\ [Next]_vars => AgreeInv'
  BY AgreeStep
<1>2. AgreeInv /\ [Next]_vars => [server'.spec # server.spec => edits' # edits]_vars
  BY OnlyUsersEdit
<1> QED
  BY AgreeInit, <1>1, <1>2, PTL DEF Spec, EditsSurvive
===============================================================================
