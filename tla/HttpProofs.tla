------------------------------ MODULE HttpProofs ------------------------------
(***************************************************************************)
(* Proofs about HttpGovernor: whatever the headers of a response say is a  *)
(* signal, so a governor behind the Transport is a Governor; and no call   *)
(* goes to a key before the instant that a refusal of it named.            *)
(***************************************************************************)
EXTENDS HttpGovernor, GovernorProofs

\* Every signal is one that a Governor takes.
AnySignal == SignalFields \subseteq Signals

-----------------------------------------------------------------------------
\* Headers.

LEMMA ValueOf ==
  /\ \A h \in SUBSET Nat : Value(h) \in Nat
  /\ \A h, v : Once(h) /\ v \in h => Value(h) = v
<1>1. \A h \in SUBSET Nat : Value(h) \in Nat
  BY DEF Value
<1>2. ASSUME NEW h, NEW v, Once(h), v \in h PROVE Value(h) = v
  <2>1. \E x \in h : TRUE
    BY <1>2
  <2>2. (CHOOSE x \in h : TRUE) \in h
    BY <2>1
  <2> QED BY <1>2, <2>2 DEF Value, Once
<1> QED
  BY <1>1, <1>2

\* A number of seconds is rounded up, unless it is cut.
LEMMA SecondsUp ==
  /\ \A h \in SUBSET Int : parseSeconds(h) \in SUBSET Nat
  /\ \A h \in SUBSET Int : Once(h) => Once(parseSeconds(h))
  /\ \A h \in SUBSET Int : \A v \in h : v \in 0..MaxSeconds =>
       \E d \in parseSeconds(h) : 2 * d >= v
<1>0. MaxSeconds \in Nat
  BY HttpAssumption
<1>1. \A v \in Int : v >= 0 => (Cut(v, MaxSeconds) + 1) \div 2 \in Nat
  BY <1>0 DEF Cut
<1>2. ASSUME NEW h \in SUBSET Int PROVE parseSeconds(h) \in SUBSET Nat
  BY <1>1 DEF parseSeconds
<1>3. ASSUME NEW h \in SUBSET Int, Once(h) PROVE Once(parseSeconds(h))
  BY <1>3 DEF parseSeconds, Once
<1>4. ASSUME NEW h \in SUBSET Int, NEW v \in h, v \in 0..MaxSeconds
      PROVE  \E d \in parseSeconds(h) : 2 * d >= v
  <2>1. (Cut(v, MaxSeconds) + 1) \div 2 \in parseSeconds(h)
    BY <1>0, <1>4 DEF parseSeconds
  <2>2. 2 * ((Cut(v, MaxSeconds) + 1) \div 2) >= v
    BY <1>0, <1>4 DEF Cut
  <2> QED BY <2>1, <2>2
<1> QED
  BY <1>2, <1>3, <1>4

LEMMA CountsTyped == \A h \in SUBSET Int : parseCount(h) \in SUBSET Nat
<1>1. \A v \in Int : v >= 0 => Cut(v, MaxCount) \div 2 \in Nat
  BY HttpAssumption DEF Cut
<1> QED
  BY <1>1 DEF parseCount

LEMMA ResponseTyped ==
  ASSUME NEW r \in HttpResponses
  PROVE  /\ r.retryAfter \in SUBSET RetryAfters
         /\ r.remaining \in SUBSET Int /\ r.limit \in SUBSET Int /\ r.used \in SUBSET Int
         /\ r.reset \in SUBSET Int /\ r.delay \in SUBSET Int
         /\ Once(r.retryAfter) /\ Once(r.reset)
BY DEF HttpResponses

LEMMA RetryAfterTyped ==
  \A x \in RetryAfters : /\ x.isDate \in BOOLEAN
                         /\ ~x.isDate => x.seconds \in Int
                         /\ x.isDate => x.date \in Nat
BY DEF RetryAfters

\* Retry-After is a delay from now.
LEMMA RetryTyped ==
  ASSUME NEW h \in SUBSET RetryAfters, NEW t \in Nat
  PROVE  /\ {x.seconds : x \in {y \in h : ~y.isDate}} \in SUBSET Int
         /\ parseRetryAfter(h, t) \in SUBSET Nat
<1>1. {x.seconds : x \in {y \in h : ~y.isDate}} \in SUBSET Int
  BY RetryAfterTyped
<1>2. {IF x.date > t THEN x.date - t ELSE 0 : x \in {y \in h : y.isDate}} \in SUBSET Nat
  <2>1. \A x \in h : x.isDate => (IF x.date > t THEN x.date - t ELSE 0) \in Nat
    <3> SUFFICES ASSUME NEW x \in h, x.isDate PROVE (IF x.date > t THEN x.date - t ELSE 0) \in Nat
      OBVIOUS
    <3>1. x.date \in Nat
      BY RetryAfterTyped
    <3> QED BY <3>1
  <2> QED BY <2>1
<1> QED
  BY <1>1, <1>2, SecondsUp DEF parseRetryAfter

\* Whatever a response says is a signal.
LEMMA ParseTyped ==
  ASSUME NEW r \in HttpResponses, NEW t \in Nat
  PROVE  Parse(r, t) \in SignalFields
<1> DEFINE retry     == parseRetryAfter(r.retryAfter, t)
           remaining == RemainingOf(r)
           throttled == Throttled(r, retry, remaining)
           delay     == parseSeconds(r.delay)
           wait      == IF delay # {} /\ ~throttled /\ Value(retry) = 0 THEN delay ELSE retry
<1>1. retry \in SUBSET Nat /\ delay \in SUBSET Nat /\ parseCount(r.limit) \in SUBSET Nat
  BY ResponseTyped, RetryTyped, SecondsUp, CountsTyped
<1>2. remaining \in SUBSET Nat
  <2>1. /\ parseCount(r.remaining) \in SUBSET Nat /\ parseCount(r.used) \in SUBSET Nat
    BY ResponseTyped, CountsTyped
  <2>2. {IF l > u THEN l - u ELSE 0 : l \in parseCount(r.limit), u \in parseCount(r.used)} \in SUBSET Nat
    BY <1>1, <2>1
  <2> QED BY <2>1, <2>2 DEF RemainingOf
<1>3. throttled \in BOOLEAN
  BY DEF Throttled
<1>4. parseEpoch(r.reset) \in SUBSET Nat
  BY ResponseTyped DEF parseEpoch
<1>5. wait \in SUBSET Nat
  BY <1>1
<1>6. (remaining # {}) \in BOOLEAN
  OBVIOUS
<1>7. Parse(r, t) = [retryAfter |-> Value(wait), resetAt |-> Value(parseEpoch(r.reset)),
                     remaining |-> Value(remaining),
                     limit |-> IF remaining # {} THEN Value(parseCount(r.limit)) ELSE 0,
                     hasQuota |-> remaining # {}, throttled |-> throttled]
  BY DEF Parse
<1> HIDE DEF retry, remaining, throttled, delay, wait
<1>8. /\ Value(wait) \in Nat /\ Value(parseEpoch(r.reset)) \in Nat /\ Value(remaining) \in Nat
      /\ (IF remaining # {} THEN Value(parseCount(r.limit)) ELSE 0) \in Nat
  BY <1>1, <1>2, <1>4, <1>5, ValueOf
<1> QED
  BY <1>3, <1>6, <1>7, <1>8 DEF SignalFields

-----------------------------------------------------------------------------
\* The governor behind the Transport is a Governor.
LEMMA HttpStep ==
  ASSUME AnySignal, TypeOK, [HttpNext]_httpVars
  PROVE  [Next]_vars
<1>1. ASSUME NEW w \in Workers, NEW req \in Requests, NEW r \in Responses, RoundTrip(w, req, r)
      PROVE  Next
  <2>1. Parse(r, now) \in Signals /\ keyFor(req) \in Keys
    BY ExchangesAssumption, ParseTyped DEF AnySignal, TypeOK
  <2>2. Observe(w, keyFor(req), Parse(r, now))
    BY <1>1 DEF RoundTrip
  <2> QED BY <2>1, <2>2 DEF Next
<1>2. ASSUME NEW w \in Workers, Fold(w) PROVE Next
  BY <1>2 DEF Fold, Next
<1>3. CASE GovernorStep
  <2>1. Keys \in SUBSET Keys
    OBVIOUS
  <2> QED BY <1>3, <2>1, Zenon DEF GovernorStep, Next
<1>4. CASE UNCHANGED httpVars
  BY <1>4 DEF httpVars
<1> QED
  BY <1>1, <1>2, <1>3, <1>4 DEF HttpNext

\* What Transport reads off the responses are signals, so what is proved of the governor for all
\* signals holds of it behind a Transport, whatever servers answer.
THEOREM HttpCarries ==
  ASSUME AnySignal
  PROVE  HttpSpec => Spec
<1>1. HttpInit => Init
  BY DEF HttpInit
<1>2. TypeOK /\ [HttpNext /\ ReadEachTick]_httpVars => [Next]_vars
  BY HttpStep
<1>3. TypeOK /\ [Next]_vars => TypeOK'
  BY TypeStep
<1> QED
  BY <1>1, <1>2, <1>3, TypeInit, PTL DEF HttpSpec, Spec

\* In particular no response shortens a hold that an earlier one set.
THEOREM HttpHoldsNeverShorten ==
  ASSUME AnySignal
  PROVE  HttpSpec => HoldNeverShortens
<1>1. HttpSpec => Spec
  BY HttpCarries
<1> QED
  BY <1>1, HoldsNeverShorten, PTL

\* And no mix of responses and reads lifts a capacity faster than the recovery interval.
THEOREM HttpRecoveryIsPaced ==
  ASSUME AnySignal
  PROVE  HttpSpec => RecoveryPaced
<1>1. HttpSpec => Spec
  BY HttpCarries
<1> QED
  BY <1>1, RecoveryIsPaced, PTL

-----------------------------------------------------------------------------
\* Refusals.

\* The headers of r are within the bounds of what is parsed: no delay is cut, no epoch refused.
WithinBounds(r) == /\ \A x \in r.retryAfter : ~x.isDate => x.seconds \in 0..MaxSeconds
                   /\ \A t \in r.reset : t <= MaxEpoch

\* What a set names is integers, and it names one of them last.
LEMMA NamedTyped ==
  ASSUME NEW r \in HttpResponses, NEW t \in Nat
  PROVE  /\ NamedBy(r, t) \in SUBSET Int
         /\ RefusedUntil(r, t) \in Int
         /\ RefusedUntil(r, t) # 0 => Refusal(r) /\ RefusedUntil(r, t) \in NamedBy(r, t)
<1> DEFINE delays == {2 * t + x.seconds : x \in {y \in r.retryAfter : ~y.isDate}}
           dates  == {2 * x.date : x \in {y \in r.retryAfter : y.isDate}}
           resets == {2 * u : u \in r.reset}
           until  == delays \cup dates
<1>1. NamedBy(r, t) = until \cup resets
  BY DEF NamedBy
<1>2. until \in SUBSET Int /\ resets \in SUBSET Int
  <2>1. r.retryAfter \in SUBSET RetryAfters /\ r.reset \in SUBSET Int
    BY ResponseTyped
  <2>2. \A x \in r.retryAfter : /\ ~x.isDate => 2 * t + x.seconds \in Int
                               /\ x.isDate => 2 * x.date \in Int
    <3> TAKE x \in r.retryAfter
    <3>1. (~x.isDate => x.seconds \in Int) /\ (x.isDate => x.date \in Nat)
      BY <2>1, RetryAfterTyped
    <3> QED BY <3>1
  <2>3. delays \in SUBSET Int /\ dates \in SUBSET Int
    <3>1. ASSUME NEW a \in delays PROVE a \in Int
      <4>1. PICK x \in r.retryAfter : ~x.isDate /\ a = 2 * t + x.seconds
        OBVIOUS
      <4> QED BY <2>2, <4>1
    <3>2. ASSUME NEW a \in dates PROVE a \in Int
      <4>1. PICK x \in r.retryAfter : x.isDate /\ a = 2 * x.date
        OBVIOUS
      <4> QED BY <2>2, <4>1
    <3> QED BY <3>1, <3>2
  <2>4. resets \in SUBSET Int
    BY <2>1
  <2> QED BY <2>3, <2>4
<1>3. Once(until) /\ Once(resets)
  <2>1. Once(r.retryAfter) /\ Once(r.reset) /\ r.retryAfter \in SUBSET RetryAfters
    BY ResponseTyped
  <2>2. Once(resets)
    BY <2>1 DEF Once
  <2>3. ASSUME NEW a \in until, NEW b \in until PROVE a = b
    <3>1. PICK x \in r.retryAfter : a = IF x.isDate THEN 2 * x.date ELSE 2 * t + x.seconds
      OBVIOUS
    <3>2. PICK y \in r.retryAfter : b = IF y.isDate THEN 2 * y.date ELSE 2 * t + y.seconds
      OBVIOUS
    <3>3. x = y
      BY <2>1 DEF Once
    <3> QED BY <3>1, <3>2, <3>3
  <2> QED BY <2>2, <2>3 DEF Once
<1> HIDE DEF until, resets
<1>4. ASSUME NamedBy(r, t) # {}
      PROVE  \E a \in NamedBy(r, t) : \A b \in NamedBy(r, t) : b <= a
  <2>0. PICK a \in NamedBy(r, t) : TRUE
    BY <1>4
  <2>1. CASE until = {}
    <3>1. \A b \in NamedBy(r, t) : b = a
      BY <1>1, <1>3, <2>0, <2>1 DEF Once
    <3>2. a \in Int
      BY <1>1, <1>2, <2>0
    <3>3. \A b \in NamedBy(r, t) : b <= a
      BY <3>1, <3>2
    <3> QED BY <2>0, <3>3
  <2>2. CASE resets = {}
    <3>1. \A b \in NamedBy(r, t) : b = a
      BY <1>1, <1>3, <2>0, <2>2 DEF Once
    <3>2. a \in Int
      BY <1>1, <1>2, <2>0
    <3>3. \A b \in NamedBy(r, t) : b <= a
      BY <3>1, <3>2
    <3> QED BY <2>0, <3>3
  <2>3. CASE until # {} /\ resets # {}
    <3>1. PICK m \in until, b \in resets : \A c \in NamedBy(r, t) : c = m \/ c = b
      BY <1>1, <1>3, <2>3 DEF Once
    <3>2. m \in Int /\ b \in Int /\ m \in NamedBy(r, t) /\ b \in NamedBy(r, t)
      BY <1>1, <1>2
    <3>3. CASE m <= b
      <4>1. \A c \in NamedBy(r, t) : c <= b
        BY <3>1, <3>2, <3>3
      <4> QED BY <3>2, <4>1
    <3>4. CASE b <= m
      <4>1. \A c \in NamedBy(r, t) : c <= m
        BY <3>1, <3>2, <3>4
      <4> QED BY <3>2, <4>1
    <3> QED BY <3>2, <3>3, <3>4
  <2> QED BY <2>1, <2>2, <2>3
<1>5. NamedBy(r, t) \in SUBSET Int
  BY <1>1, <1>2
<1>6. CASE Refusal(r) /\ NamedBy(r, t) # {}
  <2>1. RefusedUntil(r, t) = CHOOSE a \in NamedBy(r, t) : \A b \in NamedBy(r, t) : b <= a
    BY <1>6 DEF RefusedUntil
  <2>2. RefusedUntil(r, t) \in NamedBy(r, t)
    BY <1>4, <1>6, <2>1
  <2> QED BY <1>5, <1>6, <2>2
<1>7. CASE ~(Refusal(r) /\ NamedBy(r, t) # {})
  <2>1. RefusedUntil(r, t) = 0
    BY <1>7 DEF RefusedUntil
  <2> QED BY <1>5, <2>1
<1> QED
  BY <1>6, <1>7

\* A refusal is classified as one.
LEMMA RefusalThrottles ==
  ASSUME NEW r \in HttpResponses, NEW t \in Nat, WithinBounds(r), Refusal(r)
  PROVE  /\ Throttled(r, parseRetryAfter(r.retryAfter, t), RemainingOf(r))
         /\ Parse(r, t).throttled
         /\ Parse(r, t).retryAfter = Value(parseRetryAfter(r.retryAfter, t))
<1>1. r.retryAfter # {} => parseRetryAfter(r.retryAfter, t) # {}
  <2> SUFFICES ASSUME NEW x \in r.retryAfter PROVE parseRetryAfter(r.retryAfter, t) # {}
    OBVIOUS
  <2>1. CASE x.isDate
    BY <2>1 DEF parseRetryAfter
  <2>2. CASE ~x.isDate
    <3> DEFINE h == {y.seconds : y \in {z \in r.retryAfter : ~z.isDate}}
    <3>1. h \in SUBSET Int /\ x.seconds \in h /\ x.seconds \in 0..MaxSeconds
      BY <2>2, ResponseTyped, RetryTyped DEF WithinBounds
    <3> HIDE DEF h
    <3>2. parseSeconds(h) # {}
      BY <3>1, SecondsUp
    <3> QED BY <3>2 DEF h, parseRetryAfter
  <2> QED BY <2>1, <2>2
<1>2. r.remaining = {0} => RemainingOf(r) = {0}
  <2>1. Cut(0, MaxCount) = 0
    BY HttpAssumption DEF Cut
  <2>2. 0 \div 2 = 0
    OBVIOUS
  <2>3. r.remaining = {0} => parseCount(r.remaining) = {0}
    BY <2>1, <2>2 DEF parseCount
  <2> QED BY <2>3 DEF RemainingOf
<1>3. Throttled(r, parseRetryAfter(r.retryAfter, t), RemainingOf(r))
  BY <1>1, <1>2 DEF Throttled, Refusal
<1> QED
  BY <1>3 DEF Parse

\* The deadline of the signal is not before any instant the refusal names, unless it is past.
LEMMA DeadlineReaches ==
  ASSUME NEW r \in HttpResponses, NEW t \in Nat, WithinBounds(r), RefusedUntil(r, t) > 2 * t
  PROVE  Parse(r, t).throttled /\ RefusedUntil(r, t) <= 2 * Deadline(Parse(r, t), t)
<1> DEFINE u     == RefusedUntil(r, t)
           s     == Parse(r, t)
           retry == parseRetryAfter(r.retryAfter, t)
<1>1. Refusal(r) /\ u \in NamedBy(r, t) /\ u \in Int
  BY NamedTyped
<1>2. /\ s.throttled /\ s.retryAfter = Value(retry) /\ s.resetAt = Value(parseEpoch(r.reset))
      /\ s \in SignalFields
  BY <1>1, RefusalThrottles, ParseTyped DEF Parse
<1>3. s.retryAfter \in Nat /\ s.resetAt \in Nat
  BY <1>2 DEF SignalFields
<1>4. Deadline(s, t) \in Nat /\ Deadline(s, t) >= s.resetAt /\ (s.retryAfter > 0 => Deadline(s, t) >= t + s.retryAfter)
  BY <1>3 DEF Deadline
<1>5. Once(retry) /\ retry \in SUBSET Nat
  <2> DEFINE h == {x.seconds : x \in {y \in r.retryAfter : ~y.isDate}}
             d == {IF x.date > t THEN x.date - t ELSE 0 : x \in {y \in r.retryAfter : y.isDate}}
  <2>1. Once(r.retryAfter) /\ r.retryAfter \in SUBSET RetryAfters
    BY ResponseTyped
  <2>2. h \in SUBSET Int /\ Once(h) /\ Once(d) /\ (h = {} \/ d = {})
    BY <2>1, RetryTyped DEF Once
  <2>3. retry = parseSeconds(h) \cup d
    BY DEF parseRetryAfter
  <2> HIDE DEF h, d, retry
  <2>4. Once(parseSeconds(h)) /\ (h = {} => parseSeconds(h) = {})
    BY <2>2, SecondsUp DEF parseSeconds
  <2>5. Once(retry)
    BY <2>2, <2>3, <2>4 DEF Once
  <2> QED BY <2>1, <2>5, RetryTyped DEF retry
<1>5a. u > 2 * t /\ retry = parseRetryAfter(r.retryAfter, t)
  OBVIOUS
<1> HIDE DEF u, s, retry
<1>6. ASSUME NEW d \in retry, 2 * (t + d) >= u PROVE u <= 2 * Deadline(s, t)
  <2>1. s.retryAfter = d
    BY <1>2, <1>5, ValueOf
  <2>2. d \in Nat /\ d > 0
    BY <1>1, <1>5, <1>5a, <1>6
  <2> QED BY <1>1, <1>4, <1>6, <2>1, <2>2
<1>7. ASSUME \E x \in r.retryAfter : ~x.isDate /\ u = 2 * t + x.seconds
      PROVE  u <= 2 * Deadline(s, t)
  <2> DEFINE h == {y.seconds : y \in {z \in r.retryAfter : ~z.isDate}}
  <2>1. PICK x \in r.retryAfter : ~x.isDate /\ u = 2 * t + x.seconds
    BY <1>7
  <2>2. h \in SUBSET Int /\ x.seconds \in h /\ x.seconds \in 0..MaxSeconds /\ MaxSeconds \in Nat
    BY <2>1, ResponseTyped, RetryTyped, HttpAssumption DEF WithinBounds
  <2> HIDE DEF h
  <2>3. PICK d \in parseSeconds(h) : 2 * d >= x.seconds
    BY <2>2, SecondsUp
  <2>4. d \in retry
    BY <1>5a, <2>3 DEF h, parseRetryAfter
  <2>5. d \in Nat
    BY <1>5, <2>4
  <2>6. 2 * (t + d) >= u
    BY <2>1, <2>2, <2>3, <2>5
  <2> QED BY <1>6, <2>4, <2>6
<1>8. ASSUME \E x \in r.retryAfter : x.isDate /\ u = 2 * x.date
      PROVE  u <= 2 * Deadline(s, t)
  <2>1. PICK x \in r.retryAfter : x.isDate /\ u = 2 * x.date
    BY <1>8
  <2>2. x.date \in Nat
    BY <2>1, ResponseTyped DEF RetryAfters
  <2>3. x.date > t
    BY <1>5a, <2>1, <2>2
  <2>4. x.date - t \in retry
    BY <1>5a, <2>1, <2>3 DEF parseRetryAfter
  <2>5. 2 * (t + (x.date - t)) >= u
    BY <2>1, <2>2
  <2> QED BY <1>6, <2>4, <2>5
<1>9. ASSUME \E v \in r.reset : u = 2 * v
      PROVE  u <= 2 * Deadline(s, t)
  <2>1. PICK v \in r.reset : u = 2 * v
    BY <1>9
  <2>2. v \in Int /\ v > 0 /\ v <= MaxEpoch
    BY <1>5a, <2>1, ResponseTyped DEF WithinBounds
  <2>3. v \in parseEpoch(r.reset) /\ Once(parseEpoch(r.reset))
    BY <2>2, ResponseTyped DEF parseEpoch, Once
  <2>4. s.resetAt = v
    BY <1>2, <2>3, ValueOf
  <2>5. v <= Deadline(s, t) /\ Deadline(s, t) \in Int
    BY <1>4, <2>4
  <2>6. 2 * v <= 2 * Deadline(s, t)
    BY <2>2, <2>5
  <2>7. u <= 2 * Deadline(s, t)
    BY <2>1, <2>6
  <2> QED BY <2>7
<1>10. (\E x \in r.retryAfter : ~x.isDate /\ u = 2 * t + x.seconds)
       \/ (\E x \in r.retryAfter : x.isDate /\ u = 2 * x.date)
       \/ \E v \in r.reset : u = 2 * v
  BY <1>1 DEF NamedBy
<1>11. s.throttled /\ u <= 2 * Deadline(s, t)
  BY <1>2, <1>7, <1>8, <1>9, <1>10
<1> QED
  BY <1>11 DEF u, s

\* A report that carries a refusal carries its instant as a hold, unless it is past; and a key that
\* took a refusal in is held until the last instant one named, unless that is past.
RefusalInv ==
  /\ TypeOK
  /\ asked \in [Workers -> Int]
  /\ named \in [Keys -> Int]
  /\ \A w \in Workers : Once(report[w])
  /\ \A w \in Workers : \A x \in report[w] :
       asked[w] <= 2 * now \/ (x.kind = "throttled" /\ asked[w] <= 2 * x.until)
  /\ \A k \in Keys : named[k] <= 2 * now \/ named[k] <= 2 * holdUntil[k]

LEMMA RefusalInit == HttpInit => RefusalInv
<1> SUFFICES ASSUME HttpInit PROVE RefusalInv
  OBVIOUS
<1>1. TypeOK
  BY TypeInit DEF HttpInit
<1>2. /\ asked = [w \in Workers |-> 0] /\ named = [k \in Keys |-> 0]
      /\ report = [w \in Workers |-> {}]
  BY DEF HttpInit, Init
<1> QED
  BY <1>1, <1>2 DEF RefusalInv, TypeOK, Once

\* A round trip reports a refusal with a deadline that reaches what it names.
LEMMA RefusalReported ==
  ASSUME AnySignal, \A r \in Responses : WithinBounds(r), RefusalInv, TypeOK',
         NEW w \in Workers, NEW req \in Requests, NEW r \in Responses, RoundTrip(w, req, r)
  PROVE  RefusalInv'
<1> DEFINE s == Parse(r, now)
           n == [key |-> keyFor(req), kind |-> Classify(s, now), at |-> now, until |-> Deadline(s, now)]
<1>1. r \in HttpResponses /\ now \in Nat /\ WithinBounds(r)
  BY ExchangesAssumption DEF RefusalInv, TypeOK
<1>2. /\ report' = [report EXCEPT ![w] = {n}]
      /\ asked' = [asked EXCEPT ![w] = RefusedUntil(r, now)]
      /\ UNCHANGED <<now, holdUntil, named>>
  BY DEF RoundTrip, Observe, keyVars
<1>3. RefusedUntil(r, now) \in Int
  BY <1>1, NamedTyped
<1>4. RefusedUntil(r, now) <= 2 * now \/ (n.kind = "throttled" /\ RefusedUntil(r, now) <= 2 * n.until)
  <2>1. CASE RefusedUntil(r, now) > 2 * now
    <3>1. s.throttled /\ RefusedUntil(r, now) <= 2 * Deadline(s, now)
      BY <1>1, <2>1, DeadlineReaches
    <3> QED BY <3>1 DEF Classify
  <2>2. CASE RefusedUntil(r, now) <= 2 * now
    BY <2>2
  <2> QED BY <1>1, <1>3, <2>1, <2>2
<1> HIDE DEF n
<1>5. asked' \in [Workers -> Int]
  BY <1>2, <1>3 DEF RefusalInv
<1>6. ASSUME NEW v \in Workers
      PROVE  /\ Once(report'[v])
             /\ \A x \in report'[v] :
                  asked'[v] <= 2 * now \/ (x.kind = "throttled" /\ asked'[v] <= 2 * x.until)
  <2>1. CASE v = w
    <3>1. report'[v] = {n} /\ asked'[v] = RefusedUntil(r, now)
      BY <1>2, <2>1 DEF RefusalInv, TypeOK
    <3> QED BY <1>4, <3>1 DEF Once
  <2>2. CASE v # w
    <3>1. report'[v] = report[v] /\ asked'[v] = asked[v]
      BY <1>2, <2>2 DEF RefusalInv, TypeOK
    <3> QED BY <3>1 DEF RefusalInv
  <2> QED BY <2>1, <2>2
<1>7. \A v \in Workers : Once(report[v])'
  BY <1>6 DEF Once
<1> QED
  BY <1>2, <1>5, <1>6, <1>7 DEF RefusalInv

\* The fold takes the instant into the hold.
LEMMA RefusalFolded ==
  ASSUME RefusalInv, TypeOK', NEW w \in Workers, Fold(w)
  PROVE  RefusalInv'
<1>1. PICK x \in report[w] :
        holdUntil' = [holdUntil EXCEPT ![x.key] =
                        IF x.kind = "throttled" /\ x.until > @ THEN x.until ELSE @]
  BY DEF Fold, ObserveLocked
<1>2. /\ report' = [report EXCEPT ![w] = {}] /\ now' = now
      /\ named' = [k \in Keys |-> IF \E y \in report[w] : y.key = k
                                  THEN LargerOf(named[k], asked[w]) ELSE named[k]]
      /\ asked' = [asked EXCEPT ![w] = 0]
  BY DEF Fold, ObserveLocked
<1>3. /\ x.key \in Keys /\ x.until \in Nat
      /\ \A y \in report[w] : y = x
      /\ asked[w] \in Int /\ now \in Nat
      /\ asked[w] <= 2 * now \/ (x.kind = "throttled" /\ asked[w] <= 2 * x.until)
  BY DEF RefusalInv, TypeOK, Reports, Once
<1>4. ASSUME NEW k \in Keys
      PROVE  named'[k] \in Int /\ (named'[k] <= 2 * now \/ named'[k] <= 2 * holdUntil'[k])
  <2>1. /\ named[k] \in Int /\ holdUntil[k] \in Nat
        /\ named[k] <= 2 * now \/ named[k] <= 2 * holdUntil[k]
    BY DEF RefusalInv, TypeOK
  <2>2. CASE x.key = k
    <3>1. named'[k] = LargerOf(named[k], asked[w])
      BY <1>2, <2>2
    <3>2. holdUntil'[k] = IF x.kind = "throttled" /\ x.until > holdUntil[k] THEN x.until ELSE holdUntil[k]
      BY <1>1, <1>3, <2>2 DEF RefusalInv, TypeOK
    <3>3. named'[k] \in {named[k], asked[w]}
      BY <3>1 DEF LargerOf
    <3>4. holdUntil'[k] \in Nat /\ holdUntil'[k] >= holdUntil[k]
          /\ (x.kind = "throttled" => holdUntil'[k] >= x.until)
      BY <1>3, <2>1, <3>2
    <3> QED BY <1>3, <2>1, <3>3, <3>4
  <2>3. CASE x.key # k
    <3>1. named'[k] = named[k]
      BY <1>2, <1>3, <2>3
    <3>2. holdUntil'[k] = holdUntil[k]
      BY <1>1, <1>3, <2>3 DEF RefusalInv, TypeOK
    <3> QED BY <2>1, <3>1, <3>2
  <2> QED BY <2>2, <2>3
<1>5. asked' \in [Workers -> Int] /\ named' \in [Keys -> Int]
  BY <1>2, <1>4 DEF RefusalInv
<1>6. ASSUME NEW v \in Workers
      PROVE  /\ \A y, z \in report'[v] : y = z
             /\ \A y \in report'[v] :
                  asked'[v] <= 2 * now \/ (y.kind = "throttled" /\ asked'[v] <= 2 * y.until)
  <2>1. CASE v = w
    <3>1. report'[v] = {}
      BY <1>2, <2>1 DEF RefusalInv, TypeOK
    <3> QED BY <3>1
  <2>2. CASE v # w
    <3>1. report'[v] = report[v] /\ asked'[v] = asked[v]
      BY <1>2, <2>2 DEF RefusalInv, TypeOK
    <3> QED BY <3>1 DEF RefusalInv, Once
  <2> QED BY <2>1, <2>2
<1> QED
  BY <1>2, <1>4, <1>5, <1>6 DEF RefusalInv, Once

\* Nothing else touches holds or reports; and time only passes.
LEMMA RefusalKept ==
  ASSUME RefusalInv, TypeOK', UNCHANGED <<holdUntil, report, asked, named>>,
         now' = now \/ now' = now + 1
  PROVE  RefusalInv'
<1>1. now \in Nat /\ now' \in Nat /\ now <= now'
  BY DEF RefusalInv, TypeOK
<1>2. \A w \in Workers : asked[w] \in Int
  BY DEF RefusalInv
<1>3. \A w \in Workers : asked[w] <= 2 * now => asked[w] <= 2 * now'
  BY <1>1, <1>2
<1>4. \A k \in Keys : named[k] \in Int
  BY DEF RefusalInv
<1>5. \A k \in Keys : named[k] <= 2 * now => named[k] <= 2 * now'
  BY <1>1, <1>4
<1> QED
  BY <1>3, <1>5 DEF RefusalInv, Once

LEMMA RefusalStep ==
  ASSUME AnySignal, \A r \in Responses : WithinBounds(r), RefusalInv, [HttpNext]_httpVars
  PROVE  RefusalInv'
<1> USE DEF keyVars, localVars, workerVars
<1>0. TypeOK /\ TypeOK'
  <2>1. TypeOK
    BY DEF RefusalInv
  <2> QED BY <2>1, HttpStep, TypeStep
<1>1. ASSUME NEW w \in Workers, NEW req \in Requests, NEW r \in Responses, RoundTrip(w, req, r)
      PROVE  RefusalInv'
  BY <1>0, <1>1, RefusalReported
<1>2. ASSUME NEW w \in Workers, Fold(w) PROVE RefusalInv'
  BY <1>0, <1>2, RefusalFolded
<1>3. CASE GovernorStep
  <2>1. UNCHANGED <<holdUntil, report>> /\ (now' = now \/ now' = now + 1)
    <3>1. ASSUME NEW w \in Workers, NEW ks \in SUBSET Keys, Acquire(w, ks) \/ Defer(w, ks)
          PROVE  UNCHANGED <<holdUntil, report, now>>
      BY <3>1 DEF Acquire, Defer
    <3>2. ASSUME NEW w \in Workers, Release(w) \/ Backstop(w)
          PROVE  UNCHANGED <<holdUntil, report, now>>
      BY <3>2 DEF Release, Backstop
    <3>3. CASE RegisterReconciler
      BY <3>3 DEF RegisterReconciler
    <3>4. CASE Snapshot(Keys)
      BY <3>4 DEF Snapshot
    <3>5. CASE Tick
      BY <3>5 DEF Tick
    <3> QED BY <1>3, <3>1, <3>2, <3>3, <3>4, <3>5 DEF GovernorStep
  <2>2. UNCHANGED <<asked, named>>
    BY <1>3 DEF GovernorStep
  <2> QED BY <1>0, <2>1, <2>2, RefusalKept
<1>4. CASE UNCHANGED httpVars
  <2>1. UNCHANGED <<holdUntil, report, asked, named, now>>
    BY <1>4 DEF httpVars, vars
  <2> QED BY <1>0, <2>1, RefusalKept
<1> QED
  BY <1>1, <1>2, <1>3, <1>4 DEF HttpNext

\* Only a grant takes a slot of a key, and no call is granted while the key is held.
LEMMA GrantsWait ==
  ASSUME RefusalInv, [HttpNext]_httpVars, NEW k \in Keys, inFlight'[k] > inFlight[k]
  PROVE  2 * now >= named[k]
<1> USE DEF keyVars, localVars, workerVars
<1>0. inFlight \in [Keys -> Nat] /\ inFlight[k] \in Nat /\ inFlight' # inFlight
  BY DEF RefusalInv, TypeOK
<1>1. \E w \in Workers, ks \in SUBSET Keys : Acquire(w, ks)
  <2>1. ASSUME NEW w \in Workers, release(w) PROVE FALSE
    <3>1. CASE done[w]
      BY <1>0, <2>1, <3>1 DEF release
    <3>2. CASE ~done[w]
      <4>1. inFlight'[k] = IF k \in held[w] /\ inFlight[k] > 0 THEN inFlight[k] - 1 ELSE inFlight[k]
        BY <2>1, <3>2 DEF release
      <4> QED BY <1>0, <4>1
    <3> QED BY <3>1, <3>2
  <2>2. ASSUME NEW w \in Workers, Fold(w) PROVE FALSE
    BY <1>0, <2>2 DEF Fold, ObserveLocked
  <2>3. ASSUME NEW w \in Workers, NEW req \in Requests, NEW r \in Responses, RoundTrip(w, req, r)
        PROVE  FALSE
    BY <1>0, <2>3 DEF RoundTrip, Observe
  <2>4. GovernorStep
    BY <1>0, <2>2, <2>3 DEF HttpNext, httpVars, vars
  <2>5. ASSUME NEW w \in Workers, NEW ks \in SUBSET Keys, Defer(w, ks) PROVE FALSE
    BY <1>0, <2>5 DEF Defer
  <2>6. ~RegisterReconciler /\ ~Snapshot(Keys) /\ ~Tick
    BY <1>0 DEF RegisterReconciler, Snapshot, Tick
  <2>7. ASSUME NEW w \in Workers, Release(w) \/ Backstop(w) PROVE FALSE
    BY <2>1, <2>7 DEF Release, Backstop
  <2> QED BY <2>4, <2>5, <2>6, <2>7 DEF GovernorStep
<1>2. PICK w \in Workers, ks \in SUBSET Keys : Acquire(w, ks)
  BY <1>1
<1>3. inFlight'[k] = IF k \in ks THEN inFlight[k] + 1 ELSE inFlight[k]
  BY <1>2 DEF Acquire
<1>4. k \in ks
  BY <1>0, <1>3
<1>5. ~(now < holdUntil[k])
  BY <1>2, <1>4 DEF Acquire, Grants, HeldKeys
<1> QED
  BY <1>5 DEF RefusalInv, TypeOK

\* No call goes to a key before the latest instant that a refusal of it named, in whichever header
\* and form, whatever is answered in between: of any server that stays within what is parsed.
THEOREM RefusalsAreHonoured ==
  ASSUME AnySignal, \A r \in Responses : WithinBounds(r)
  PROVE  HttpSpec => RefusalsHonoured
<1>1. RefusalInv /\ [HttpNext /\ ReadEachTick]_httpVars => RefusalInv'
  BY RefusalStep
<1>2. RefusalInv /\ [HttpNext /\ ReadEachTick]_httpVars
        => (\A k \in Keys : inFlight'[k] > inFlight[k] => 2 * now >= named[k])
  BY GrantsWait
<1> QED
  BY <1>1, <1>2, RefusalInit, PTL DEF HttpSpec, RefusalsHonoured
===============================================================================
