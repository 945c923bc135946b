--------------------------- MODULE LimitedReconciler ---------------------------
(***************************************************************************)
(* pkg/ratelimiter: the Reconciler that defers requests over the rate, on  *)
(* top of a TimedLimiter (NewGlobalExponential).                           *)
(*                                                                         *)
(* The queue never hands one request to two workers, and the limiter and   *)
(* the limited set keep every request apart, so one Reconcile is one step. *)
(* A request comes when its delay is over, or earlier when an event brings *)
(* it.                                                                     *)
(***************************************************************************)
EXTENDS TimedLimiter

VARIABLES
  limited,  \* the requests that have been rate limited and may pass next time
  credit    \* auxiliary, per request: calls of When less calls of the inner Reconciler

vars == <<limiterVars, limited, credit>>

\* Mutant of Return: the mark is kept, and with it the free pass.
ReturnMarked(i) ==
  /\ i \in limited
  /\ failures' = Forgotten(failures, i)
  /\ credit' = [credit EXCEPT ![i] = @ - 1]
  /\ UNCHANGED <<now, delay, askedAt, limited>>

\* A request that was rate limited before: it passes.
Return(i) ==
  /\ i \in limited
  /\ limited' = limited \ {i}
  /\ failures' = Forgotten(failures, i)
  /\ credit' = [credit EXCEPT ![i] = @ - 1]
  /\ UNCHANGED <<now, delay, askedAt>>

\* Any other one asks the limiter: it is sent back with RequeueAfter d, or passes.
Ask(i) ==
  /\ i \notin limited
  /\ Expired(i) \/ failures[i].attempts < MaxAttempts
  /\ \E d \in Delays(i) :
       /\ Asked(i, d)
       /\ limited' = IF d # 0 THEN limited \cup {i} ELSE limited
       /\ \/ d > 0 /\ failures' = Attempted(i) /\ credit' = [credit EXCEPT ![i] = @ + 1]
          \/ d <= 0 /\ failures' = Forgotten(Attempted(i), i) /\ UNCHANGED credit
  /\ UNCHANGED now

Init == LimiterInit /\ limited = {} /\ credit = [i \in Items |-> 0]

Elapse == Tick /\ UNCHANGED <<limited, credit>>

\* The end of the modelled time.
Horizon == now = MaxTime /\ UNCHANGED vars

Next == (\E i \in Items : Return(i) \/ Ask(i)) \/ Elapse \/ Horizon

Spec == Init /\ [][Next]_vars

-----------------------------------------------------------------------------
\* Every variable has its type; a delay is an int64 of nanoseconds.  (Backoff's cap.)
TypeOK ==
  /\ now \in Nat
  /\ failures \in [Items -> FailureRequest]
  /\ delay \in [Items -> -Int64Bound..(Int64Bound - 1)]
  /\ askedAt \in [Items -> Nat]
  /\ limited \subseteq Items
  /\ credit \in [Items -> Int]

\* Every call of the limiter lets one request through, no more and no less: a request that
\* has been sent back is owed a pass, and no other is.  (The limited set of when.)
OnePassPerWhen == \A i \in Items : credit[i] = IF i \in limited THEN 1 ELSE 0

\* A request that is sent back comes again, within maxDelay: RequeueAfter is positive.
DelaysBounded == \A i \in limited : delay[i] \in BaseDelay..MaxDelay

\* A request that keeps coming waits longer each time, until maxDelay: no pass in between
\* resets its history before 2*maxDelay of quiet.  (Forget before every pass.)
DelaysGrow ==
  [][\A i \in Items : /\ askedAt'[i] # askedAt[i]
                      /\ askedAt[i] # 0
                      /\ delay[i] > 0
                      /\ now - askedAt[i] <= 2 * MaxDelay
       => delay'[i] > delay[i] \/ delay'[i] = MaxDelay]_vars

\* A request that was quiet for 2*maxDelay passes at once and leaves no expired history,
\* so the next one is slowed down again.
QuietRestarts ==
  [][\A i \in Items : askedAt'[i] # askedAt[i] /\ i \notin limited' => ~Known(i)']_vars
===============================================================================
