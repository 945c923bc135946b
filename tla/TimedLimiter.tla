------------------------------ MODULE TimedLimiter ------------------------------
(***************************************************************************)
(* pkg/workqueue: the exponential rate limiter whose failure history       *)
(* expires.  Each method runs under failuresLock, so each is one step.     *)
(*                                                                         *)
(* Spec is the limiter as a controller's queue uses it: a failed pass asks *)
(* When, a successful one calls Forget, and any time may pass in between.  *)
(***************************************************************************)
EXTENDS Integers

CONSTANTS
  Items,
  BaseDelay, MaxDelay,
  Int64Bound,           \* 2^63, which is also what math.MaxInt64 is as a float64
  MaxAttempts, MaxTime  \* bounds

ASSUME LimiterAssumption ==
  /\ BaseDelay \in Nat \ {0} /\ MaxDelay \in Nat /\ BaseDelay <= MaxDelay
  /\ Int64Bound \in Nat /\ 2 * MaxDelay < Int64Bound
  /\ MaxAttempts \in Nat /\ MaxTime \in Nat

VARIABLES
  now,
  failures,  \* per item: its FailureRequest; no attempts: the map has none
  delay,     \* auxiliary, per item: what When last returned
  askedAt    \* auxiliary, per item: when When was last called; 0: never

FailureRequest == [attempts : Nat, last : Nat]
NoFailure      == [attempts |-> 0, last |-> 0]

Known(i)   == failures[i].attempts > 0
Expired(i) == Known(i) /\ now - failures[i].last > 2 * MaxDelay

\* A float64 of 2^63 is not above math.MaxInt64 and does not fit an int64: what the
\* conversion gives is up to the processor.
Converted(backoff) == IF backoff = Int64Bound THEN {-Int64Bound, Int64Bound - 1} ELSE {backoff}

PowersOfTwo[n \in Nat] == IF n = 0 THEN 1 ELSE 2 * PowersOfTwo[n - 1]

\* Mutant of Backoff: the doubling is not capped.
Uncapped(attempts) == {BaseDelay * PowersOfTwo[attempts]}

\* The delays after so many attempts.
Backoff(attempts) ==
  LET backoff == BaseDelay * PowersOfTwo[attempts]
  IN  IF backoff > Int64Bound THEN {MaxDelay}
      ELSE {IF d > MaxDelay THEN MaxDelay ELSE d : d \in Converted(backoff)}

\* What When may return for i, and what it writes.
Delays(i) == CASE ~Known(i)               -> {BaseDelay}
               [] Known(i) /\ Expired(i)  -> {0}
               [] Known(i) /\ ~Expired(i) -> Backoff(failures[i].attempts)

Attempted(i) ==
  IF Expired(i) THEN failures
  ELSE [failures EXCEPT ![i] = [attempts |-> @.attempts + 1, last |-> now]]

\* Mutants of Forgotten: the history goes at once, as with client-go's limiter; or never.
ForgottenAtOnce(f, i) == [f EXCEPT ![i] = NoFailure]
ForgottenNever(f, i)  == f

\* The history f after Forget(i).
Forgotten(f, i) == IF now - f[i].last > 2 * MaxDelay THEN [f EXCEPT ![i] = NoFailure] ELSE f

Asked(i, d) == delay' = [delay EXCEPT ![i] = d] /\ askedAt' = [askedAt EXCEPT ![i] = now]

-----------------------------------------------------------------------------
When(i) ==
  /\ Expired(i) \/ failures[i].attempts < MaxAttempts
  /\ failures' = Attempted(i)
  /\ \E d \in Delays(i) : Asked(i, d)
  /\ UNCHANGED now

Forget(i) ==
  /\ failures' = Forgotten(failures, i)
  /\ UNCHANGED <<now, delay, askedAt>>

Tick == now < MaxTime /\ now' = now + 1 /\ UNCHANGED <<failures, delay, askedAt>>

\* The zero time is longer ago than any history lasts.
LimiterInit == /\ now = 2 * MaxDelay + 1
               /\ failures = [i \in Items |-> NoFailure]
               /\ delay = [i \in Items |-> 0]
               /\ askedAt = [i \in Items |-> 0]

LimiterNext == (\E i \in Items : When(i) \/ Forget(i)) \/ Tick

limiterVars == <<now, failures, delay, askedAt>>

LimiterSpec == LimiterInit /\ [][LimiterNext]_limiterVars

-----------------------------------------------------------------------------
\* A limiter slows down an item that keeps failing: two failures without a quiet time of
\* 2*maxDelay between them are not both retried at once.  (Expiry of the history in When.)
FailuresSlowDown ==
  [][\A i \in Items : /\ askedAt[i] # 0
                      /\ askedAt'[i] # askedAt[i]
                      /\ now - askedAt[i] <= 2 * MaxDelay
       => delay[i] > 0 \/ delay'[i] > 0]_limiterVars
===============================================================================
