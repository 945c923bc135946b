---------------------------- MODULE QueueWaitProofs ----------------------------
(***************************************************************************)
(* Proofs about QueueWait: the depth is exact, no record is left behind,   *)
(* and a start belongs to the pass that runs, for any items, callers and   *)
(* workers, and however their steps interleave.                            *)
(***************************************************************************)
EXTENDS QueueWait, FiniteSetTheorems, TLAPS

\* A goroutine is at one place at a time.
Single == /\ \A c \in Callers : \A x, y \in call[c] : x = y
          /\ \A w \in Workers : \A x, y \in work[w] : x = y

QueueInv ==
  /\ TypeOK
  /\ Single
  /\ closing # "report" => pending = 0

\* The steps of a caller, and of a worker, move it from one place to the next.
LEMMA CallMoves ==
  ASSUME QueueInv, NEW c \in Callers, NEW x \in Calls, call' = [call EXCEPT ![c] = {x}]
  PROVE  /\ call' \in [Callers -> SUBSET Calls]
         /\ \A d \in Callers : \A y, z \in call'[d] : y = z
BY DEF QueueInv, TypeOK, Single

LEMMA CallEnds ==
  ASSUME QueueInv, NEW c \in Callers, call' = [call EXCEPT ![c] = {}]
  PROVE  /\ call' \in [Callers -> SUBSET Calls]
         /\ \A d \in Callers : \A y, z \in call'[d] : y = z
BY DEF QueueInv, TypeOK, Single

LEMMA WorkMoves ==
  ASSUME QueueInv, NEW w \in Workers, NEW x \in Passes, work' = [work EXCEPT ![w] = {x}]
  PROVE  /\ work' \in [Workers -> SUBSET Passes]
         /\ \A v \in Workers : \A y, z \in work'[v] : y = z
BY DEF QueueInv, TypeOK, Single

LEMMA WorkEnds ==
  ASSUME QueueInv, NEW w \in Workers, work' = [work EXCEPT ![w] = {}]
  PROVE  /\ work' \in [Workers -> SUBSET Passes]
         /\ \A v \in Workers : \A y, z \in work'[v] : y = z
BY DEF QueueInv, TypeOK, Single

LEMMA QueueStep ==
  ASSUME QueueInv, [Next]_vars
  PROVE  QueueInv'
<1>0. /\ TypeOK /\ Single
      /\ \A c \in Callers : \A x \in call[c] : x \in Calls
      /\ \A w \in Workers : \A x \in work[w] : x \in Passes
  BY DEF QueueInv, TypeOK
<1>1. ASSUME NEW c \in Callers, NEW i \in Items, NEW delayed \in BOOLEAN, recordEnqueueAt(c, i, delayed)
      PROVE  QueueInv'
  <2> DEFINE x == [step |-> IF i \in enqueuedAt THEN "add" ELSE "report", item |-> i, delayed |-> delayed]
  <2>1. x \in Calls /\ call' = [call EXCEPT ![c] = {x}]
    BY <1>1 DEF recordEnqueueAt, Calls
  <2> HIDE DEF x
  <2> QED BY <1>0, <1>1, <2>1, CallMoves DEF recordEnqueueAt, QueueInv, TypeOK, Single, queueVars, closeVars
<1>2. ASSUME NEW c \in Callers, ReportEnqueue(c) PROVE QueueInv'
  <2>1. PICK x \in CallAt(c, "report") : call' = [call EXCEPT ![c] = {[x EXCEPT !.step = "add"]}]
    BY <1>2 DEF ReportEnqueue
  <2>2. [x EXCEPT !.step = "add"] \in Calls
    BY <1>0 DEF CallAt, Calls
  <2> QED BY <1>0, <1>2, <2>1, <2>2, CallMoves DEF ReportEnqueue, QueueInv, TypeOK, Single, queueVars, closeVars
<1>3. ASSUME NEW c \in Callers, Add(c) PROVE QueueInv'
  <2>1. PICK x \in CallAt(c, "add") : QueueAdd(x)
    BY <1>3 DEF Add
  <2>2. x.item \in Items /\ x.delayed \in BOOLEAN
    BY <1>0 DEF CallAt, Calls
  <2>3. priority \in BOOLEAN
    BY <1>0, QueueAssumption DEF TypeOK
  <2>4. queued' \subseteq Items /\ later' \subseteq Items
    BY <1>0, <2>1, <2>2, <2>3 DEF QueueAdd, TypeOK
  <2> QED BY <1>0, <1>3, <2>1, <2>4, CallEnds DEF Add, QueueAdd, QueueInv, TypeOK, Single, closeVars
<1>4. ASSUME NEW w \in Workers, Get(w) PROVE QueueInv'
  <2>1. PICK i \in queued \ processing :
          /\ queued' = queued \ {i} /\ processing' = processing \cup {i}
          /\ work' = [work EXCEPT ![w] = {[step |-> "record", item |-> i]}]
    BY <1>4 DEF Get
  <2>2. [step |-> "record", item |-> i] \in Passes /\ i \in Items
    BY <1>0 DEF TypeOK, Passes
  <2> QED BY <1>0, <1>4, <2>1, <2>2, WorkMoves DEF Get, QueueInv, TypeOK, Single, closeVars
<1>5. ASSUME NEW w \in Workers, recordDequeueAt(w) PROVE QueueInv'
  <2>1. PICK x \in WorkAt(w, "record") :
          /\ enqueuedAt' = enqueuedAt \ {x.item}
          /\ startedAt' = IF x.item \in enqueuedAt THEN startedAt \cup {x.item} ELSE startedAt
          /\ work' = [work EXCEPT ![w] =
                        {[x EXCEPT !.step = IF x.item \in enqueuedAt THEN "report" ELSE "work"]}]
    BY <1>5 DEF recordDequeueAt
  <2>2. [x EXCEPT !.step = IF x.item \in enqueuedAt THEN "report" ELSE "work"] \in Passes
    BY <1>0 DEF WorkAt, Passes
  <2>3. enqueuedAt' \subseteq Items /\ startedAt' \subseteq Items
    BY <1>0, <2>1 DEF TypeOK
  <2> QED BY <1>0, <1>5, <2>1, <2>2, <2>3, WorkMoves
          DEF recordDequeueAt, QueueInv, TypeOK, Single, queueVars, closeVars
<1>6. ASSUME NEW w \in Workers, ReportDequeue(w) PROVE QueueInv'
  <2>1. PICK x \in WorkAt(w, "report") : work' = [work EXCEPT ![w] = {[x EXCEPT !.step = "work"]}]
    BY <1>6 DEF ReportDequeue
  <2>2. [x EXCEPT !.step = "work"] \in Passes
    BY <1>0 DEF WorkAt, Passes
  <2> QED BY <1>0, <1>6, <2>1, <2>2, WorkMoves DEF ReportDequeue, QueueInv, TypeOK, Single, queueVars, closeVars
<1>7. ASSUME NEW w \in Workers, recordDoneAt(w) PROVE QueueInv'
  <2>1. PICK x \in WorkAt(w, "work") : /\ startedAt' = startedAt \ {x.item}
                                       /\ work' = [work EXCEPT ![w] = {[x EXCEPT !.step = "done"]}]
    BY <1>7 DEF recordDoneAt
  <2>2. [x EXCEPT !.step = "done"] \in Passes
    BY <1>0 DEF WorkAt, Passes
  <2> QED BY <1>0, <1>7, <2>1, <2>2, WorkMoves DEF recordDoneAt, QueueInv, TypeOK, Single, queueVars, closeVars
<1>8. ASSUME NEW w \in Workers, Done(w) PROVE QueueInv'
  <2>1. processing' \subseteq Items
    BY <1>0, <1>8 DEF Done, TypeOK
  <2> QED BY <1>0, <1>8, <2>1, WorkEnds DEF Done, QueueInv, TypeOK, Single, closeVars
<1>9. ASSUME NEW i \in Items, Due(i) PROVE QueueInv'
  BY <1>0, <1>9 DEF Due, QueueInv, TypeOK, Single, closeVars
<1>10. CASE resetState
  <2>1. Cardinality(enqueuedAt) \in Nat
    BY <1>0, QueueAssumption, FS_Subset, FS_CardinalityType DEF TypeOK
  <2> QED BY <1>0, <1>10, <2>1 DEF resetState, QueueInv, TypeOK, Single, queueVars
<1>11. CASE ReportReset
  BY <1>0, <1>11 DEF ReportReset, QueueInv, TypeOK, Single, queueVars
<1>12. CASE ShutDown \/ ShutDownWithDrain
  BY <1>0, <1>12 DEF ShutDown, ShutDownWithDrain, QueueInv, TypeOK, Single, closeVars
<1>13. CASE UNCHANGED vars
  BY <1>0, <1>13 DEF vars, QueueInv, TypeOK, Single, queueVars, closeVars
<1> QED
  BY <1>1, <1>2, <1>3, <1>4, <1>5, <1>6, <1>7, <1>8, <1>9, <1>10, <1>11, <1>12, <1>13 DEF Next

LEMMA QueueInit == Init => QueueInv
BY DEF Init, QueueInv, TypeOK, Single

\* Every variable of the queue and its records has its type.
THEOREM TypeCorrect == Spec => []TypeOK
<1>1. QueueInv /\ [Next]_vars => QueueInv'
  BY QueueStep
<1>2. QueueInv => TypeOK
  BY DEF QueueInv
<1> QED
  BY QueueInit, <1>1, <1>2, PTL DEF Spec

-----------------------------------------------------------------------------
\* The depth.  Callers and workers join and leave the reports one at a time.

Reporting   == CallersAt("report")
Withdrawing == WorkersAt("report")

LEMMA CountsAreFinite ==
  ASSUME TypeOK
  PROVE  IsFiniteSet(enqueuedAt) /\ IsFiniteSet(Reporting) /\ IsFiniteSet(Withdrawing)
BY QueueAssumption, FS_Subset DEF TypeOK, Reporting, Withdrawing, CallersAt, WorkersAt

LEMMA OneMore ==
  ASSUME NEW S, NEW e, IsFiniteSet(S), e \notin S
  PROVE  Cardinality(S \cup {e}) = Cardinality(S) + 1
BY FS_AddElement

LEMMA OneLess ==
  ASSUME NEW S, NEW e, IsFiniteSet(S), e \in S
  PROVE  Cardinality(S \ {e}) = Cardinality(S) - 1
BY FS_RemoveElement

\* A caller that moves on is at the report or not, and no other caller moves.
LEMMA CallersMove ==
  ASSUME TypeOK, NEW c \in Callers, NEW x, call' = [call EXCEPT ![c] = {x}]
  PROVE  /\ x.step = "report" => Reporting' = Reporting \cup {c}
         /\ x.step # "report" => Reporting' = Reporting \ {c}
<1>1. \A d \in Callers : call'[d] = IF d = c THEN {x} ELSE call[d]
  BY DEF TypeOK
<1> QED
  BY <1>1 DEF Reporting, CallersAt, CallAt

LEMMA CallersEnd ==
  ASSUME TypeOK, NEW c \in Callers, call' = [call EXCEPT ![c] = {}]
  PROVE  Reporting' = Reporting \ {c}
<1>1. \A d \in Callers : call'[d] = IF d = c THEN {} ELSE call[d]
  BY DEF TypeOK
<1> QED
  BY <1>1 DEF Reporting, CallersAt, CallAt

LEMMA WorkersMove ==
  ASSUME TypeOK, NEW w \in Workers, NEW x, work' = [work EXCEPT ![w] = {x}]
  PROVE  /\ x.step = "report" => Withdrawing' = Withdrawing \cup {w}
         /\ x.step # "report" => Withdrawing' = Withdrawing \ {w}
<1>1. \A v \in Workers : work'[v] = IF v = w THEN {x} ELSE work[v]
  BY DEF TypeOK
<1> QED
  BY <1>1 DEF Withdrawing, WorkersAt, WorkAt

LEMMA WorkersEnd ==
  ASSUME TypeOK, NEW w \in Workers, work' = [work EXCEPT ![w] = {}]
  PROVE  Withdrawing' = Withdrawing \ {w}
<1>1. \A v \in Workers : work'[v] = IF v = w THEN {} ELSE work[v]
  BY DEF TypeOK
<1> QED
  BY <1>1 DEF Withdrawing, WorkersAt, WorkAt

LEMMA DepthStep ==
  ASSUME QueueInv, DepthAccounted, [Next]_vars
  PROVE  DepthAccounted'
<1>0. /\ TypeOK /\ Single /\ depth \in Int /\ pending \in Nat
      /\ \A c \in Callers : \A x \in call[c] : x \in Calls
      /\ \A w \in Workers : \A x \in work[w] : x \in Passes
  BY DEF QueueInv, TypeOK
<1>1. /\ Cardinality(enqueuedAt) \in Nat /\ Cardinality(Reporting) \in Nat /\ Cardinality(Withdrawing) \in Nat
      /\ depth + Cardinality(Reporting) - Cardinality(Withdrawing) - pending = Cardinality(enqueuedAt)
  BY <1>0, CountsAreFinite, FS_CardinalityType DEF DepthAccounted, Reporting, Withdrawing
<1>2. SUFFICES depth' + Cardinality(Reporting') - Cardinality(Withdrawing') - pending' = Cardinality(enqueuedAt')
  BY DEF DepthAccounted, Reporting, Withdrawing
<1>3. ASSUME UNCHANGED <<depth, pending, enqueuedAt>>, Reporting' = Reporting, Withdrawing' = Withdrawing
      PROVE  depth' + Cardinality(Reporting') - Cardinality(Withdrawing') - pending' = Cardinality(enqueuedAt')
  BY <1>1, <1>3
<1>4. ASSUME UNCHANGED work PROVE Withdrawing' = Withdrawing
  BY <1>4 DEF Withdrawing, WorkersAt, WorkAt
<1>5. ASSUME UNCHANGED call PROVE Reporting' = Reporting
  BY <1>5 DEF Reporting, CallersAt, CallAt
<1>6. CASE \E c \in Callers, i \in Items, delayed \in BOOLEAN : recordEnqueueAt(c, i, delayed)
  <2>1. PICK c \in Callers, i \in Items, delayed \in BOOLEAN : recordEnqueueAt(c, i, delayed)
    BY <1>6
  <2> DEFINE x == [step |-> IF i \in enqueuedAt THEN "add" ELSE "report", item |-> i, delayed |-> delayed]
  <2>2. /\ call[c] = {} /\ call' = [call EXCEPT ![c] = {x}] /\ enqueuedAt' = enqueuedAt \cup {i}
        /\ UNCHANGED <<depth, pending, work>>
    BY <2>1 DEF recordEnqueueAt, closeVars
  <2>3. c \notin Reporting /\ Withdrawing' = Withdrawing
    BY <1>4, <2>2 DEF Reporting, CallersAt, CallAt
  <2>4. Reporting' = IF i \in enqueuedAt THEN Reporting ELSE Reporting \cup {c}
    <3>1. x.step = "report" <=> i \notin enqueuedAt
      OBVIOUS
    <3> HIDE DEF x
    <3> QED BY <1>0, <2>2, <2>3, <3>1, CallersMove
  <2>5. CASE i \in enqueuedAt
    <3>1. enqueuedAt' = enqueuedAt
      BY <2>2, <2>5
    <3> QED BY <1>3, <2>2, <2>3, <2>4, <2>5, <3>1
  <2>6. CASE i \notin enqueuedAt
    <3>1. Cardinality(enqueuedAt') = Cardinality(enqueuedAt) + 1
      BY <1>0, <2>2, <2>6, OneMore, CountsAreFinite
    <3>2. Cardinality(Reporting') = Cardinality(Reporting) + 1
      BY <1>0, <2>3, <2>4, <2>6, OneMore, CountsAreFinite
    <3> QED BY <1>0, <1>1, <2>2, <2>3, <3>1, <3>2
  <2> QED BY <2>5, <2>6
<1>7. CASE \E c \in Callers : ReportEnqueue(c)
  <2>1. PICK c \in Callers : ReportEnqueue(c)
    BY <1>7
  <2>2. PICK x \in CallAt(c, "report") : call' = [call EXCEPT ![c] = {[x EXCEPT !.step = "add"]}]
    BY <2>1 DEF ReportEnqueue
  <2>3. depth' = depth + 1 /\ UNCHANGED <<pending, enqueuedAt, work>>
    BY <2>1 DEF ReportEnqueue, closeVars
  <2>4. [x EXCEPT !.step = "add"].step # "report"
    BY <1>0, <2>2 DEF CallAt, Calls
  <2>5. Reporting' = Reporting \ {c} /\ c \in Reporting
    <3> DEFINE next == [x EXCEPT !.step = "add"]
    <3>1. call' = [call EXCEPT ![c] = {next}] /\ next.step # "report"
      BY <2>2, <2>4
    <3> HIDE DEF next
    <3> QED BY <1>0, <2>2, <3>1, CallersMove DEF Reporting, CallersAt
  <2>6. Cardinality(Reporting') = Cardinality(Reporting) - 1 /\ Withdrawing' = Withdrawing
    BY <1>0, <1>4, <2>3, <2>5, OneLess, CountsAreFinite
  <2> QED BY <1>0, <1>1, <2>3, <2>6
<1>8. CASE \E c \in Callers : Add(c)
  <2>1. PICK c \in Callers : Add(c)
    BY <1>8
  <2>2. /\ call' = [call EXCEPT ![c] = {}] /\ CallAt(c, "add") # {}
        /\ UNCHANGED <<depth, pending, enqueuedAt, work>>
    BY <2>1 DEF Add, closeVars
  <2>3. c \notin Reporting
    BY <1>0, <2>2 DEF Reporting, CallersAt, CallAt, Single
  <2>4. Reporting' = Reporting /\ Withdrawing' = Withdrawing
    BY <1>0, <1>4, <2>2, <2>3, CallersEnd
  <2> QED BY <1>3, <2>2, <2>4
<1>9. CASE \E w \in Workers : Get(w) \/ recordDoneAt(w) \/ Done(w)
  <2>1. PICK w \in Workers : Get(w) \/ recordDoneAt(w) \/ Done(w)
    BY <1>9
  <2>2. UNCHANGED <<depth, pending, enqueuedAt, call>>
    BY <2>1 DEF Get, recordDoneAt, Done, closeVars
  <2>3. w \notin Withdrawing
    BY <1>0, <2>1 DEF Get, recordDoneAt, Done, Withdrawing, WorkersAt, WorkAt, Single
  <2>4. Withdrawing' = Withdrawing
    <3>1. CASE Get(w)
      <4>1. PICK i \in Items : work' = [work EXCEPT ![w] = {[step |-> "record", item |-> i]}]
        BY <1>0, <3>1 DEF Get, TypeOK
      <4> DEFINE next == [step |-> "record", item |-> i]
      <4>2. next.step # "report"
        OBVIOUS
      <4> HIDE DEF next
      <4>3. work' = [work EXCEPT ![w] = {next}]
        BY <4>1 DEF next
      <4> QED BY <1>0, <2>3, <4>2, <4>3, WorkersMove
    <3>2. CASE recordDoneAt(w)
      <4>1. PICK x \in WorkAt(w, "work") : work' = [work EXCEPT ![w] = {[x EXCEPT !.step = "done"]}]
        BY <3>2 DEF recordDoneAt
      <4>2. [x EXCEPT !.step = "done"].step # "report"
        BY <1>0, <4>1 DEF WorkAt, Passes
      <4> DEFINE next == [x EXCEPT !.step = "done"]
      <4>3. work' = [work EXCEPT ![w] = {next}] /\ next.step # "report"
        BY <4>1, <4>2
      <4> HIDE DEF next
      <4> QED BY <1>0, <2>3, <4>3, WorkersMove
    <3>3. CASE Done(w)
      BY <1>0, <2>3, <3>3, WorkersEnd DEF Done
    <3> QED BY <2>1, <3>1, <3>2, <3>3
  <2> QED BY <1>3, <1>5, <2>2, <2>4
<1>10. CASE \E w \in Workers : recordDequeueAt(w)
  <2>1. PICK w \in Workers : recordDequeueAt(w)
    BY <1>10
  <2>2. PICK x \in WorkAt(w, "record") :
          /\ enqueuedAt' = enqueuedAt \ {x.item}
          /\ work' = [work EXCEPT ![w] =
                        {[x EXCEPT !.step = IF x.item \in enqueuedAt THEN "report" ELSE "work"]}]
    BY <2>1 DEF recordDequeueAt
  <2>3. UNCHANGED <<depth, pending, call>>
    BY <2>1 DEF recordDequeueAt, closeVars
  <2>4. w \notin Withdrawing
    BY <1>0, <2>2 DEF Withdrawing, WorkersAt, WorkAt, Single
  <2> DEFINE next == [x EXCEPT !.step = IF x.item \in enqueuedAt THEN "report" ELSE "work"]
  <2>5. next.step = "report" <=> x.item \in enqueuedAt
    BY <1>0, <2>2 DEF WorkAt, Passes
  <2> HIDE DEF next
  <2>6. Withdrawing' = IF x.item \in enqueuedAt THEN Withdrawing \cup {w} ELSE Withdrawing
    <3>1. work' = [work EXCEPT ![w] = {next}]
      BY <2>2 DEF next
    <3> QED BY <1>0, <2>4, <2>5, <3>1, WorkersMove
  <2>7. CASE x.item \in enqueuedAt
    <3>1. Cardinality(enqueuedAt') = Cardinality(enqueuedAt) - 1
      BY <1>0, <2>2, <2>7, OneLess, CountsAreFinite
    <3>2. Cardinality(Withdrawing') = Cardinality(Withdrawing) + 1
      BY <1>0, <2>4, <2>6, <2>7, OneMore, CountsAreFinite
    <3>3. Reporting' = Reporting
      BY <1>5, <2>3
    <3> QED BY <1>0, <1>1, <2>3, <3>1, <3>2, <3>3
  <2>8. CASE x.item \notin enqueuedAt
    <3>1. enqueuedAt' = enqueuedAt
      BY <2>2, <2>8
    <3> QED BY <1>3, <1>5, <2>3, <2>6, <2>8, <3>1
  <2> QED BY <2>7, <2>8
<1>11. CASE \E w \in Workers : ReportDequeue(w)
  <2>1. PICK w \in Workers : ReportDequeue(w)
    BY <1>11
  <2>2. PICK x \in WorkAt(w, "report") : work' = [work EXCEPT ![w] = {[x EXCEPT !.step = "work"]}]
    BY <2>1 DEF ReportDequeue
  <2>3. depth' = depth - 1 /\ UNCHANGED <<pending, enqueuedAt, call>>
    BY <2>1 DEF ReportDequeue, closeVars
  <2>4. [x EXCEPT !.step = "work"].step # "report"
    BY <1>0, <2>2 DEF WorkAt, Passes
  <2>5. Withdrawing' = Withdrawing \ {w} /\ w \in Withdrawing
    <3> DEFINE next == [x EXCEPT !.step = "work"]
    <3>1. work' = [work EXCEPT ![w] = {next}] /\ next.step # "report"
      BY <2>2, <2>4
    <3> HIDE DEF next
    <3> QED BY <1>0, <2>2, <3>1, WorkersMove DEF Withdrawing, WorkersAt
  <2>6. Cardinality(Withdrawing') = Cardinality(Withdrawing) - 1 /\ Reporting' = Reporting
    BY <1>0, <1>5, <2>3, <2>5, OneLess, CountsAreFinite
  <2> QED BY <1>0, <1>1, <2>3, <2>6
<1>12. CASE resetState
  <2>1. pending = 0 /\ pending' = Cardinality(enqueuedAt) /\ enqueuedAt' = {} /\ UNCHANGED <<depth, call, work>>
    BY <1>12 DEF resetState, QueueInv
  <2>2. Cardinality(enqueuedAt') = 0
    BY <2>1, FS_EmptySet
  <2> QED BY <1>0, <1>1, <1>4, <1>5, <2>1, <2>2
<1>13. CASE ReportReset
  <2>1. depth' = depth - pending /\ pending' = 0 /\ UNCHANGED <<enqueuedAt, call, work>>
    BY <1>13 DEF ReportReset
  <2> QED BY <1>0, <1>1, <1>4, <1>5, <2>1
<1>14. CASE (\E i \in Items : Due(i)) \/ ShutDown \/ ShutDownWithDrain \/ UNCHANGED vars
  <2>1. UNCHANGED <<depth, pending, enqueuedAt, call, work>>
    BY <1>14 DEF Due, ShutDown, ShutDownWithDrain, vars, closeVars
  <2> QED BY <1>3, <1>4, <1>5, <2>1
<1> QED
  BY <1>6, <1>7, <1>8, <1>9, <1>10, <1>11, <1>12, <1>13, <1>14 DEF Next

\* The reported depth never drifts from the number of recorded items, but for the reports that
\* are on their way, however adds, dequeues and a shutdown interleave.
THEOREM DepthIsAccounted == Spec => []DepthAccounted
<1>1. Init => DepthAccounted
  <2> SUFFICES ASSUME Init PROVE DepthAccounted
    OBVIOUS
  <2>1. enqueuedAt = {} /\ depth = 0 /\ pending = 0
    BY DEF Init
  <2>2. CallersAt("report") = {} /\ WorkersAt("report") = {}
    BY DEF Init, CallersAt, WorkersAt, CallAt, WorkAt
  <2> QED BY <2>1, <2>2, FS_EmptySet DEF DepthAccounted
<1>2. QueueInv /\ DepthAccounted /\ [Next]_vars => QueueInv' /\ DepthAccounted'
  BY QueueStep, DepthStep
<1> QED
  BY QueueInit, <1>1, <1>2, PTL DEF Spec

-----------------------------------------------------------------------------
\* Records and starts.

\* Before a shutdown a record waits with its item, or with the call that adds or strikes it.
Covered(i) == \/ i \in queued \cup later
              \/ \E c \in Callers : \E x \in call[c] : x.item = i
              \/ \E w \in Workers : \E x \in work[w] : x.item = i /\ x.step = "record"

Recorded == open /\ closing = "no" => \A i \in enqueuedAt : Covered(i)

LEMMA RecordedStep ==
  ASSUME QueueInv, Recorded, [Next]_vars
  PROVE  Recorded'
<1>0. /\ TypeOK /\ Single
      /\ \A c \in Callers : \A x \in call[c] : x \in Calls
      /\ \A w \in Workers : \A x \in work[w] : x \in Passes
      /\ priority \in BOOLEAN
  BY QueueAssumption DEF QueueInv, TypeOK
<1>1. ASSUME NEW c \in Callers, NEW S, call' = [call EXCEPT ![c] = S]
      PROVE  \A d \in Callers : call'[d] = IF d = c THEN S ELSE call[d]
  BY <1>0, <1>1 DEF TypeOK
<1>2. ASSUME NEW w \in Workers, NEW S, work' = [work EXCEPT ![w] = S]
      PROVE  \A v \in Workers : work'[v] = IF v = w THEN S ELSE work[v]
  BY <1>0, <1>2 DEF TypeOK
<1> SUFFICES ASSUME open', closing' = "no", NEW i \in enqueuedAt'
             PROVE  Covered(i)'
  BY DEF Recorded
<1>3. open /\ closing = "no"
  BY DEF Next, recordEnqueueAt, ReportEnqueue, Add, QueueAdd, Get, recordDequeueAt, ReportDequeue,
         recordDoneAt, Done, Due, resetState, ReportReset, ShutDown, ShutDownWithDrain, vars, queueVars, closeVars
<1>4. CASE \E c \in Callers, j \in Items, delayed \in BOOLEAN : recordEnqueueAt(c, j, delayed)
  <2>1. PICK c \in Callers, j \in Items, delayed \in BOOLEAN : recordEnqueueAt(c, j, delayed)
    BY <1>4
  <2> DEFINE x == [step |-> IF j \in enqueuedAt THEN "add" ELSE "report", item |-> j, delayed |-> delayed]
  <2>2. /\ call[c] = {} /\ call' = [call EXCEPT ![c] = {x}] /\ i \in enqueuedAt \cup {j}
        /\ x.item = j /\ UNCHANGED <<queued, later, work>>
    BY <2>1 DEF recordEnqueueAt, queueVars
  <2> HIDE DEF x
  <2>3. \A d \in Callers : call'[d] = IF d = c THEN {x} ELSE call[d]
    BY <1>1, <2>2
  <2> QED BY <1>3, <2>2, <2>3 DEF Recorded, Covered
<1>5. CASE \E c \in Callers : ReportEnqueue(c)
  <2>1. PICK c \in Callers : ReportEnqueue(c)
    BY <1>5
  <2>2. PICK x \in CallAt(c, "report") : call' = [call EXCEPT ![c] = {[x EXCEPT !.step = "add"]}]
    BY <2>1 DEF ReportEnqueue
  <2> DEFINE y == [x EXCEPT !.step = "add"]
  <2>3. y.item = x.item /\ x \in call[c] /\ UNCHANGED <<queued, later, work, enqueuedAt>>
    BY <1>0, <2>1, <2>2 DEF ReportEnqueue, queueVars, CallAt, Calls
  <2> HIDE DEF y
  <2>4. \A d \in Callers : call'[d] = IF d = c THEN {y} ELSE call[d]
    BY <1>1, <2>2 DEF y
  <2> QED BY <1>0, <1>3, <2>3, <2>4 DEF Recorded, Covered, Single
<1>6. CASE \E c \in Callers : Add(c)
  <2>1. PICK c \in Callers : Add(c)
    BY <1>6
  <2>2. PICK x \in CallAt(c, "add") : QueueAdd(x)
    BY <2>1 DEF Add
  <2>3. x \in call[c] /\ x.delayed \in BOOLEAN /\ UNCHANGED <<work, enqueuedAt>>
    BY <1>0, <2>1, <2>2 DEF Add, CallAt, Calls
  <2>4. \A d \in Callers : call'[d] = IF d = c THEN {} ELSE call[d]
    BY <1>1, <2>1 DEF Add
  <2>5. \A j \in queued \cup later \cup {x.item} : j \in queued' \cup later'
    BY <1>0, <1>3, <2>2, <2>3 DEF QueueAdd
  <2> QED BY <1>0, <1>3, <2>3, <2>4, <2>5 DEF Recorded, Covered, Single
<1>7. CASE \E w \in Workers : Get(w)
  <2>1. PICK w \in Workers : Get(w)
    BY <1>7
  <2>2. PICK j \in queued \ processing :
          queued' = queued \ {j} /\ work' = [work EXCEPT ![w] = {[step |-> "record", item |-> j]}]
    BY <2>1 DEF Get
  <2>3. work[w] = {} /\ UNCHANGED <<later, call, enqueuedAt>>
    BY <2>1 DEF Get
  <2> DEFINE y == [step |-> "record", item |-> j]
  <2>4. y.item = j /\ y.step = "record" /\ work' = [work EXCEPT ![w] = {y}]
    BY <2>2
  <2> HIDE DEF y
  <2>5. \A v \in Workers : work'[v] = IF v = w THEN {y} ELSE work[v]
    BY <1>2, <2>4
  <2> QED BY <1>3, <2>2, <2>3, <2>4, <2>5 DEF Recorded, Covered
<1>8. CASE \E w \in Workers : recordDequeueAt(w)
  <2>1. PICK w \in Workers : recordDequeueAt(w)
    BY <1>8
  <2>2. PICK x \in WorkAt(w, "record") :
          /\ enqueuedAt' = enqueuedAt \ {x.item}
          /\ work' = [work EXCEPT ![w] =
                        {[x EXCEPT !.step = IF x.item \in enqueuedAt THEN "report" ELSE "work"]}]
    BY <2>1 DEF recordDequeueAt
  <2> DEFINE y == [x EXCEPT !.step = IF x.item \in enqueuedAt THEN "report" ELSE "work"]
  <2>3. x \in work[w] /\ i \in enqueuedAt /\ i # x.item /\ UNCHANGED <<queued, later, call>>
    BY <2>1, <2>2 DEF recordDequeueAt, queueVars, WorkAt
  <2>4. work' = [work EXCEPT ![w] = {y}]
    BY <2>2
  <2> HIDE DEF y
  <2>5. \A v \in Workers : work'[v] = IF v = w THEN {y} ELSE work[v]
    BY <1>2, <2>4
  <2> QED BY <1>0, <1>3, <2>3, <2>5 DEF Recorded, Covered, Single
<1>9. CASE \E w \in Workers : ReportDequeue(w) \/ recordDoneAt(w) \/ Done(w)
  <2>1. PICK w \in Workers : ReportDequeue(w) \/ recordDoneAt(w) \/ Done(w)
    BY <1>9
  <2>2. UNCHANGED <<queued, later, call, enqueuedAt>>
    BY <2>1 DEF ReportDequeue, recordDoneAt, Done, queueVars
  <2>3. \A x \in work[w] : x.step # "record"
    BY <1>0, <2>1 DEF ReportDequeue, recordDoneAt, Done, WorkAt, Single
  <2>4. \E S : work' = [work EXCEPT ![w] = S]
    BY <2>1 DEF ReportDequeue, recordDoneAt, Done
  <2>5. \A v \in Workers : v # w => work'[v] = work[v]
    BY <1>2, <2>4
  <2> QED BY <1>3, <2>2, <2>3, <2>5 DEF Recorded, Covered
<1>10. CASE \E j \in Items : Due(j)
  <2>1. PICK j \in Items : Due(j)
    BY <1>10
  <2>2. /\ queued' \cup later' = queued \cup later
        /\ UNCHANGED <<call, work, enqueuedAt>>
    BY <2>1 DEF Due
  <2> QED BY <1>3, <2>2 DEF Recorded, Covered
<1>11. CASE resetState \/ ReportReset \/ ShutDown \/ ShutDownWithDrain
  BY <1>3, <1>11 DEF resetState, ReportReset, ShutDown, ShutDownWithDrain
<1>12. CASE UNCHANGED vars
  BY <1>3, <1>12 DEF vars, queueVars, Recorded, Covered
<1> QED
  BY <1>4, <1>5, <1>6, <1>7, <1>8, <1>9, <1>10, <1>11, <1>12 DEF Next

\* Until a shutdown every record has its item in the queue, or a call that is about to add it
\* or to strike it off: the oldest-item age never counts an item that is gone.
THEOREM RecordsWait == Spec => []RecordsAreOfItemsThatWait
<1>1. Init => Recorded
  BY DEF Init, Recorded
<1>2. QueueInv /\ Recorded /\ [Next]_vars => QueueInv' /\ Recorded'
  BY QueueStep, RecordedStep
<1>3. Recorded => RecordsAreOfItemsThatWait
  BY DEF Recorded, Covered, RecordsAreOfItemsThatWait, WorkAt
<1> QED
  BY QueueInit, <1>1, <1>2, <1>3, PTL DEF Spec

-----------------------------------------------------------------------------
\* No two workers have the same item, and a start goes before its item is given back.
Exclusive ==
  /\ \A w \in Workers : \A x \in work[w] : x.item \in processing
                                           /\ (x.step = "done" => x.item \notin startedAt)
  /\ \A v, w \in Workers : v # w => \A x \in work[v], y \in work[w] : x.item # y.item
  /\ WorkIsOfThisPass

LEMMA ExclusiveStep ==
  ASSUME QueueInv, Exclusive, [Next]_vars
  PROVE  Exclusive'
<1>0. /\ TypeOK /\ Single
      /\ \A w \in Workers : \A x \in work[w] : x \in Passes
  BY DEF QueueInv, TypeOK
<1>1. ASSUME NEW w \in Workers, NEW S, work' = [work EXCEPT ![w] = S]
      PROVE  \A v \in Workers : work'[v] = IF v = w THEN S ELSE work[v]
  BY <1>0, <1>1 DEF TypeOK
<1>2. CASE \E w \in Workers : Get(w)
  <2>1. PICK w \in Workers : Get(w)
    BY <1>2
  <2>2. PICK j \in queued \ processing :
          /\ processing' = processing \cup {j}
          /\ work' = [work EXCEPT ![w] = {[step |-> "record", item |-> j]}]
    BY <2>1 DEF Get
  <2>3. UNCHANGED startedAt
    BY <2>1 DEF Get
  <2>4. \A v \in Workers : work'[v] = IF v = w THEN {[step |-> "record", item |-> j]} ELSE work[v]
    BY <1>1, <2>2
  <2> QED BY <2>2, <2>3, <2>4 DEF Exclusive, WorkIsOfThisPass
<1>3. ASSUME NEW w \in Workers, NEW x \in work[w], NEW y \in Passes, y.item = x.item,
             work' = [work EXCEPT ![w] = {y}], processing' = processing,
             startedAt' \subseteq startedAt \cup {x.item},
             y.step = "done" => x.item \notin startedAt'
      PROVE  Exclusive'
  <2>1. \A v \in Workers : work'[v] = IF v = w THEN {y} ELSE work[v]
    BY <1>1, <1>3
  <2>2. \A v \in Workers : v # w => \A z \in work[v] : z.item # x.item
    BY <1>3 DEF Exclusive
  <2> QED BY <1>3, <2>1, <2>2 DEF Exclusive, WorkIsOfThisPass
<1>4. CASE \E w \in Workers : recordDequeueAt(w)
  <2>0. PICK w \in Workers : recordDequeueAt(w)
    BY <1>4
  <2>1. PICK x \in WorkAt(w, "record") :
          /\ startedAt' = IF x.item \in enqueuedAt THEN startedAt \cup {x.item} ELSE startedAt
          /\ work' = [work EXCEPT ![w] =
                        {[x EXCEPT !.step = IF x.item \in enqueuedAt THEN "report" ELSE "work"]}]
          /\ processing' = processing
    BY <2>0 DEF recordDequeueAt, queueVars
  <2> DEFINE y == [x EXCEPT !.step = IF x.item \in enqueuedAt THEN "report" ELSE "work"]
  <2>2. y \in Passes /\ y.item = x.item /\ y.step # "done" /\ x \in work[w]
    BY <1>0, <2>1 DEF WorkAt, Passes
  <2>3. work' = [work EXCEPT ![w] = {y}] /\ startedAt' \subseteq startedAt \cup {x.item}
    BY <2>1
  <2> HIDE DEF y
  <2> QED BY <1>3, <2>1, <2>2, <2>3
<1>5. CASE \E w \in Workers : ReportDequeue(w)
  <2>0. PICK w \in Workers : ReportDequeue(w)
    BY <1>5
  <2>1. PICK x \in WorkAt(w, "report") :
          work' = [work EXCEPT ![w] = {[x EXCEPT !.step = "work"]}] /\ UNCHANGED <<startedAt, processing>>
    BY <2>0 DEF ReportDequeue, queueVars
  <2> DEFINE y == [x EXCEPT !.step = "work"]
  <2>2. y \in Passes /\ y.item = x.item /\ y.step # "done" /\ x \in work[w]
    BY <1>0, <2>1 DEF WorkAt, Passes
  <2>3. work' = [work EXCEPT ![w] = {y}]
    BY <2>1
  <2> HIDE DEF y
  <2> QED BY <1>3, <2>1, <2>2, <2>3
<1>6. CASE \E w \in Workers : recordDoneAt(w)
  <2>0. PICK w \in Workers : recordDoneAt(w)
    BY <1>6
  <2>1. PICK x \in WorkAt(w, "work") :
          /\ startedAt' = startedAt \ {x.item}
          /\ work' = [work EXCEPT ![w] = {[x EXCEPT !.step = "done"]}]
          /\ processing' = processing
    BY <2>0 DEF recordDoneAt, queueVars
  <2> DEFINE y == [x EXCEPT !.step = "done"]
  <2>2. y \in Passes /\ y.item = x.item /\ x \in work[w]
    BY <1>0, <2>1 DEF WorkAt, Passes
  <2>3. work' = [work EXCEPT ![w] = {y}]
    BY <2>1
  <2> HIDE DEF y
  <2> QED BY <1>3, <2>1, <2>2, <2>3
<1>7. CASE \E w \in Workers : Done(w)
  <2>0. PICK w \in Workers : Done(w)
    BY <1>7
  <2>1. PICK x \in WorkAt(w, "done") :
          /\ processing' = processing \ {x.item}
          /\ work' = [work EXCEPT ![w] = {}]
          /\ startedAt' = startedAt
    BY <2>0 DEF Done
  <2>2. x \in work[w] /\ x.step = "done"
    BY <2>1 DEF WorkAt
  <2>3. \A v \in Workers : work'[v] = IF v = w THEN {} ELSE work[v]
    BY <1>1, <2>1
  <2>4. x.item \notin startedAt /\ \A v \in Workers : v # w => \A z \in work[v] : z.item # x.item
    BY <2>2 DEF Exclusive
  <2> QED BY <2>1, <2>3, <2>4 DEF Exclusive, WorkIsOfThisPass
<1>8. CASE resetState
  BY <1>8 DEF resetState, queueVars, Exclusive, WorkIsOfThisPass
<1>9. CASE UNCHANGED <<processing, startedAt, work>>
  BY <1>9 DEF Exclusive, WorkIsOfThisPass
<1>10. CASE \/ \E c \in Callers, i \in Items, delayed \in BOOLEAN : recordEnqueueAt(c, i, delayed)
            \/ \E c \in Callers : ReportEnqueue(c) \/ Add(c)
            \/ \E i \in Items : Due(i)
            \/ ReportReset \/ ShutDown \/ ShutDownWithDrain \/ UNCHANGED vars
  BY <1>9, <1>10 DEF recordEnqueueAt, ReportEnqueue, Add, QueueAdd, Due, ReportReset, ShutDown,
     ShutDownWithDrain, vars, queueVars
<1> QED
  BY <1>2, <1>4, <1>5, <1>6, <1>7, <1>8, <1>10 DEF Next

\* A start is kept only while its item is handed out: the next pass never counts an older one.
THEOREM StartsAreOfThisPass == Spec => []WorkIsOfThisPass
<1>1. Init => Exclusive
  BY DEF Init, Exclusive, WorkIsOfThisPass
<1>2. QueueInv /\ Exclusive /\ [Next]_vars => QueueInv' /\ Exclusive'
  BY QueueStep, ExclusiveStep
<1>3. Exclusive => WorkIsOfThisPass
  BY DEF Exclusive
<1> QED
  BY QueueInit, <1>1, <1>2, <1>3, PTL DEF Spec

===============================================================================
