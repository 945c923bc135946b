------------------------------- MODULE QueueWait -------------------------------
(***************************************************************************)
(* pkg/controller: the queue that records how long its items wait, around  *)
(* the queue of the controller.                                            *)
(*                                                                         *)
(* The maps have a mutex of their own, and neither it nor the queue's lock *)
(* is held from the record to the queue operation or to the report to the  *)
(* recorder: each of the three is a step.  Times are left out: a map is    *)
(* the set of its keys.  AddWithOpts with several items is several callers.*)
(***************************************************************************)
EXTENDS Integers, FiniteSets

CONSTANTS
  Items,
  Callers,          \* goroutines that add items: event handlers and workers
  Workers,
  UsePriorityQueue  \* the values the option may have

ASSUME QueueAssumption ==
  /\ UsePriorityQueue \subseteq BOOLEAN
  /\ IsFiniteSet(Items) /\ IsFiniteSet(Callers) /\ IsFiniteSet(Workers)

VARIABLES
  queued, later, processing, open,  \* the queue: due, delayed, handed out; not shut down
  priority,                         \* it is a priority queue
  enqueuedAt, startedAt,
  depth,                            \* the sum of what AddQueueDepth has reported
  call,                             \* per caller: where its call is; {}: it makes none
  work,                             \* per worker: where its pass is; {}: it has none
  closing, pending                  \* where ShutDown is, and the depth it takes off

queueVars == <<queued, later, processing, open, priority>>
closeVars == <<closing, pending>>
vars == <<queueVars, enqueuedAt, startedAt, depth, call, work, closeVars>>

Calls  == [step : {"report", "add"}, item : Items, delayed : BOOLEAN]
Passes == [step : {"record", "report", "work", "done"}, item : Items]

CallAt(c, step) == {x \in call[c] : x.step = step}
WorkAt(w, step) == {x \in work[w] : x.step = step}

-----------------------------------------------------------------------------
\* The queue: an item that is added while it is handed out waits for Done; a priority queue
\* has one entry for an item, due or delayed.

QueueAdd(x) ==
  LET added == IF open THEN {x.item} ELSE {}
  IN  /\ queued' = IF x.delayed THEN queued ELSE queued \cup added
      /\ later' = CASE x.delayed /\ priority   -> later \cup (added \ queued)
                    [] x.delayed /\ ~priority  -> later \cup added
                    [] ~x.delayed /\ priority  -> later \ added
                    [] ~x.delayed /\ ~priority -> later
      /\ UNCHANGED <<processing, open, priority>>

\* A delayed add falls due.
Due(i) ==
  /\ open /\ i \in later
  /\ queued' = queued \cup {i}
  /\ later' = later \ {i}
  /\ UNCHANGED <<processing, open, priority, enqueuedAt, startedAt, depth, call, work, closeVars>>

-----------------------------------------------------------------------------
\* Add, AddAfter and AddRateLimited.

\* Mutant of recordEnqueueAt: an item that is recorded already counts again.
recordEnqueueAtAgain(c, i, delayed) ==
  /\ call[c] = {}
  /\ enqueuedAt' = enqueuedAt \cup {i}
  /\ call' = [call EXCEPT ![c] = {[step |-> "report", item |-> i, delayed |-> delayed]}]
  /\ UNCHANGED <<queueVars, startedAt, depth, work, closeVars>>

recordEnqueueAt(c, i, delayed) ==
  /\ call[c] = {}
  /\ enqueuedAt' = enqueuedAt \cup {i}
  /\ call' = [call EXCEPT ![c] = {[step |-> IF i \in enqueuedAt THEN "add" ELSE "report",
                                   item |-> i, delayed |-> delayed]}]
  /\ UNCHANGED <<queueVars, startedAt, depth, work, closeVars>>

ReportEnqueue(c) ==
  /\ \E x \in CallAt(c, "report") : call' = [call EXCEPT ![c] = {[x EXCEPT !.step = "add"]}]
  /\ depth' = depth + 1
  /\ UNCHANGED <<queueVars, enqueuedAt, startedAt, work, closeVars>>

Add(c) ==
  /\ \E x \in CallAt(c, "add") : QueueAdd(x)
  /\ call' = [call EXCEPT ![c] = {}]
  /\ UNCHANGED <<enqueuedAt, startedAt, depth, work, closeVars>>

-----------------------------------------------------------------------------
\* Get and Done.

\* After a ShutDown a plain queue hands out what it holds, a priority queue nothing.
Get(w) ==
  /\ work[w] = {}
  /\ open \/ ~priority
  /\ \E i \in queued \ processing :
       /\ queued' = queued \ {i}
       /\ processing' = processing \cup {i}
       /\ work' = [work EXCEPT ![w] = {[step |-> "record", item |-> i]}]
  /\ UNCHANGED <<later, open, priority, enqueuedAt, startedAt, depth, call, closeVars>>

\* Mutant of recordDequeueAt: the record stays.
recordDequeueAtKept(w) ==
  /\ \E x \in WorkAt(w, "record") :
       /\ startedAt' = IF x.item \in enqueuedAt THEN startedAt \cup {x.item} ELSE startedAt
       /\ work' = [work EXCEPT ![w] =
                     {[x EXCEPT !.step = IF x.item \in enqueuedAt THEN "report" ELSE "work"]}]
  /\ UNCHANGED <<queueVars, enqueuedAt, depth, call, closeVars>>

recordDequeueAt(w) ==
  /\ \E x \in WorkAt(w, "record") :
       /\ enqueuedAt' = enqueuedAt \ {x.item}
       /\ startedAt' = IF x.item \in enqueuedAt THEN startedAt \cup {x.item} ELSE startedAt
       /\ work' = [work EXCEPT ![w] =
                     {[x EXCEPT !.step = IF x.item \in enqueuedAt THEN "report" ELSE "work"]}]
  /\ UNCHANGED <<queueVars, depth, call, closeVars>>

ReportDequeue(w) ==
  /\ \E x \in WorkAt(w, "report") : work' = [work EXCEPT ![w] = {[x EXCEPT !.step = "work"]}]
  /\ depth' = depth - 1
  /\ UNCHANGED <<queueVars, enqueuedAt, startedAt, call, closeVars>>

\* Mutant of recordDoneAt: the start of the pass is kept.
recordDoneAtKept(w) ==
  /\ \E x \in WorkAt(w, "work") : work' = [work EXCEPT ![w] = {[x EXCEPT !.step = "done"]}]
  /\ UNCHANGED <<queueVars, enqueuedAt, startedAt, depth, call, closeVars>>

recordDoneAt(w) ==
  /\ \E x \in WorkAt(w, "work") :
       /\ startedAt' = startedAt \ {x.item}
       /\ work' = [work EXCEPT ![w] = {[x EXCEPT !.step = "done"]}]
  /\ UNCHANGED <<queueVars, enqueuedAt, depth, call, closeVars>>

Done(w) ==
  /\ \E x \in WorkAt(w, "done") : processing' = processing \ {x.item}
  /\ work' = [work EXCEPT ![w] = {}]
  /\ UNCHANGED <<queued, later, open, priority, enqueuedAt, startedAt, depth, call, closeVars>>

-----------------------------------------------------------------------------
\* ShutDown, and ShutDownWithDrain, which leaves the records alone.

\* Mutant of resetState: the items at work are taken off the depth as well.
resetStateAndWork ==
  /\ closing = "no"
  /\ closing' = "report"
  /\ pending' = Cardinality(enqueuedAt) - Cardinality(startedAt)
  /\ enqueuedAt' = {}
  /\ startedAt' = {}
  /\ UNCHANGED <<queueVars, depth, call, work>>

resetState ==
  /\ closing = "no"
  /\ closing' = "report"
  /\ pending' = Cardinality(enqueuedAt)
  /\ enqueuedAt' = {}
  /\ startedAt' = {}
  /\ UNCHANGED <<queueVars, depth, call, work>>

ReportReset ==
  /\ closing = "report"
  /\ closing' = "queue"
  /\ pending' = 0
  /\ depth' = depth - pending
  /\ UNCHANGED <<queueVars, enqueuedAt, startedAt, call, work>>

ShutDown ==
  /\ closing = "queue"
  /\ closing' = "done"
  /\ open' = FALSE
  /\ UNCHANGED <<queued, later, processing, priority, enqueuedAt, startedAt, depth, call, work,
                 pending>>

ShutDownWithDrain ==
  /\ open
  /\ open' = FALSE
  /\ UNCHANGED <<queued, later, processing, priority, enqueuedAt, startedAt, depth, call, work,
                 closeVars>>

-----------------------------------------------------------------------------
Init ==
  /\ queued = {} /\ later = {} /\ processing = {} /\ open = TRUE
  /\ priority \in UsePriorityQueue
  /\ enqueuedAt = {} /\ startedAt = {}
  /\ depth = 0
  /\ call = [c \in Callers |-> {}]
  /\ work = [w \in Workers |-> {}]
  /\ closing = "no" /\ pending = 0

Next ==
  \/ \E c \in Callers, i \in Items, delayed \in BOOLEAN : recordEnqueueAt(c, i, delayed)
  \/ \E c \in Callers : ReportEnqueue(c) \/ Add(c)
  \/ \E w \in Workers : Get(w) \/ recordDequeueAt(w) \/ ReportDequeue(w) \/ recordDoneAt(w) \/ Done(w)
  \/ \E i \in Items : Due(i)
  \/ resetState \/ ReportReset \/ ShutDown \/ ShutDownWithDrain

Spec == Init /\ [][Next]_vars

-----------------------------------------------------------------------------
\* The types.
TypeOK ==
  /\ {queued, later, processing, enqueuedAt, startedAt} \subseteq SUBSET Items
  /\ open \in BOOLEAN /\ priority \in UsePriorityQueue
  /\ depth \in Int
  /\ call \in [Callers -> SUBSET Calls]
  /\ work \in [Workers -> SUBSET Passes]
  /\ closing \in {"no", "report", "queue", "done"}
  /\ pending \in Nat

CallersAt(step) == {c \in Callers : CallAt(c, step) # {}}
WorkersAt(step) == {w \in Workers : WorkAt(w, step) # {}}

\* The depth that has been reported is the number of recorded items, but for the reports that
\* are on their way: adds, dequeues and ShutDown in any order never make it drift.
DepthAccounted ==
  depth + Cardinality(CallersAt("report")) - Cardinality(WorkersAt("report")) - pending
    = Cardinality(enqueuedAt)

\* Before a shutdown every record is of an item that waits, or that a call is about to add or
\* to strike off: no record is left behind to grow older for ever in the oldest-item age.
RecordsAreOfItemsThatWait ==
  open /\ closing = "no"
    => enqueuedAt \subseteq queued \cup later
                  \cup {x.item : x \in UNION {call[c] : c \in Callers}}
                  \cup {x.item : x \in UNION {WorkAt(w, "record") : w \in Workers}}

\* The start of a pass is only kept while that pass runs, so a work duration is never counted
\* from an earlier pass of the item.
WorkIsOfThisPass == startedAt \subseteq processing
===============================================================================
