----------------------------- MODULE LimiterProofs -----------------------------
(***************************************************************************)
(* Proofs about LimitedReconciler, and so about the TimedLimiter under it, *)
(* for every set of requests and all delays: the powers of two, the types, *)
(* that a request is let through once per call of When, and that delays    *)
(* are positive, bounded and growing.                                      *)
(***************************************************************************)
EXTENDS LimitedReconciler, WellFoundedInduction, TLAPS

-----------------------------------------------------------------------------
\* The powers of two.  A recursive function is what its equation says once some function is;
\* that one does is shown by induction over sets of numbers.

Less == {ss \in Nat \X Nat : ss[1] < ss[2]}

\* A set of numbers has a least element: induction over a set.
LEMMA LeastNumber ==
  ASSUME NEW T \in SUBSET Nat, T # {}
  PROVE  \E x \in T : \A y \in T : x <= y
<1>1. IsWellFoundedOn(Less, Nat)
  BY NatLessThanWellFounded, Zenon DEF OpToRel, Less
<1>2. PICK x \in T : \A y \in T : ~ (<<y, x>> \in Less)
  BY <1>1, WFMin
<1>3. ASSUME NEW y \in T PROVE x <= y
  <2>1. x \in Nat /\ y \in Nat /\ <<y, x>> \notin Less
    BY <1>2
  <2>2. <<y, x>> \in Nat \X Nat /\ <<y, x>>[1] = y /\ <<y, x>>[2] = x
    BY <2>1
  <2>3. ~(y < x)
    BY <2>1, <2>2, Zenon DEF Less
  <2> QED BY <2>1, <2>3
<1> QED
  BY <1>3

\* What holds of 0 and passes from each number to the next holds of all.
LEMMA SetInduction ==
  ASSUME NEW S \in SUBSET Nat, 0 \in S, \A n \in S : n + 1 \in S
  PROVE  S = Nat
<1> SUFFICES ASSUME Nat \ S # {} PROVE FALSE
  OBVIOUS
<1>1. PICK x \in Nat \ S : \A y \in Nat \ S : x <= y
  BY LeastNumber
<1>2. x # 0 /\ x - 1 \in Nat /\ x - 1 \notin Nat \ S
  BY <1>1
<1> QED
  BY <1>2

\* g is the powers of two up to the m-th.
Doubles(g, m) == /\ g \in [0..m -> Nat]
                 /\ g[0] = 1
                 /\ \A n \in 1..m : g[n] = 2 * g[n - 1]

LEMMA DoublesAgree ==
  ASSUME NEW m \in Nat, NEW k \in Nat, k <= m, NEW g, NEW h, Doubles(g, k), Doubles(h, m)
  PROVE  \A n \in 0..k : g[n] = h[n]
<1> DEFINE S == {n \in Nat : n <= k => g[n] = h[n]}
<1>1. 0 \in S
  BY DEF Doubles
<1>2. ASSUME NEW n \in S PROVE n + 1 \in S
  <2> SUFFICES ASSUME n + 1 <= k PROVE g[n + 1] = h[n + 1]
    OBVIOUS
  <2>1. n + 1 \in 1..k /\ n + 1 \in 1..m /\ (n + 1) - 1 = n /\ g[n] = h[n]
    OBVIOUS
  <2> QED BY <2>1 DEF Doubles
<1>3. S = Nat
  <2> HIDE DEF S
  <2>1. S \in SUBSET Nat
    BY DEF S
  <2> QED BY <1>1, <1>2, <2>1, SetInduction
<1> QED
  BY <1>3

LEMMA DoublesExist ==
  ASSUME NEW m \in Nat
  PROVE  \E g : Doubles(g, m)
<1> DEFINE S == {n \in Nat : \E g : Doubles(g, n)}
<1>1. 0 \in S
  <2>1. Doubles([n \in 0..0 |-> 1], 0)
    BY DEF Doubles
  <2> QED BY <2>1
<1>2. ASSUME NEW n \in S PROVE n + 1 \in S
  <2>1. PICK g : Doubles(g, n)
    OBVIOUS
  <2> DEFINE h == [j \in 0..(n + 1) |-> IF j = n + 1 THEN 2 * g[n] ELSE g[j]]
  <2>2. h \in [0..(n + 1) -> Nat]
    BY <2>1 DEF Doubles
  <2>3. h[0] = 1
    BY <2>1 DEF Doubles
  <2>4. ASSUME NEW j \in 1..(n + 1) PROVE h[j] = 2 * h[j - 1]
    <3>1. j - 1 \in 0..n /\ h[j - 1] = g[j - 1]
      OBVIOUS
    <3>2. CASE j = n + 1
      BY <3>1, <3>2
    <3>3. CASE j # n + 1
      BY <2>1, <3>1, <3>3 DEF Doubles
    <3> QED BY <3>2, <3>3
  <2>5. Doubles(h, n + 1)
    BY <2>2, <2>3, <2>4 DEF Doubles
  <2> QED BY <2>5
<1>3. S = Nat
  <2> HIDE DEF S
  <2>1. S \in SUBSET Nat
    BY DEF S
  <2> QED BY <1>1, <1>2, <2>1, SetInduction
<1> QED
  BY <1>3

\* The powers of two are positive, and each is twice the one before.
LEMMA PowersDouble ==
  /\ PowersOfTwo[0] = 1
  /\ \A n \in Nat : PowersOfTwo[n] \in Nat \ {0} /\ PowersOfTwo[n + 1] = 2 * PowersOfTwo[n]
<1> DEFINE F(m) == CHOOSE g : Doubles(g, m)
           f == [n \in Nat |-> F(n)[n]]
<1>1. \A m \in Nat : Doubles(F(m), m)
  BY DoublesExist
<1>2. \A m \in Nat : \A n \in 0..m : F(m)[n] = f[n]
  <2> TAKE m \in Nat
  <2> TAKE n \in 0..m
  <2>2. F(n)[n] = F(m)[n]
    BY <1>1, DoublesAgree
  <2> QED BY <2>2
<1>3. f[0] = 1
  BY <1>1 DEF Doubles
<1>4. ASSUME NEW n \in Nat, n # 0 PROVE f[n] = 2 * f[n - 1]
  <2>1. n \in 1..n /\ n - 1 \in 0..n /\ n - 1 \in Nat
    BY <1>4
  <2>2. F(n)[n] = 2 * F(n)[n - 1]
    BY <1>1, <2>1 DEF Doubles
  <2> QED BY <1>2, <2>1, <2>2
<1> HIDE DEF F
<1>5. f = [n \in Nat |-> IF n = 0 THEN 1 ELSE 2 * f[n - 1]]
  BY <1>3, <1>4
<1> HIDE DEF f
<1>6. PowersOfTwo = [n \in Nat |-> IF n = 0 THEN 1 ELSE 2 * PowersOfTwo[n - 1]]
  BY <1>5 DEF PowersOfTwo
<1>7. PowersOfTwo[0] = 1 /\ \A n \in Nat : PowersOfTwo[n + 1] = 2 * PowersOfTwo[n]
  BY <1>6
<1> DEFINE S == {n \in Nat : PowersOfTwo[n] \in Nat \ {0}}
<1>8. S = Nat
  <2>1. S \in SUBSET Nat /\ 0 \in S /\ \A n \in S : n + 1 \in S
    BY <1>7
  <2> HIDE DEF S
  <2> QED BY <2>1, SetInduction
<1> QED
  BY <1>7, <1>8

-----------------------------------------------------------------------------
\* The delays.  A delay is converted out of range only where the base delay, doubled, hits 2^63
\* itself: it is a power of two of nanoseconds.

NeverBound == \A n \in Nat : BaseDelay * PowersOfTwo[n] # Int64Bound

LEMMA LimiterConstants ==
  /\ BaseDelay \in Nat /\ BaseDelay > 0 /\ MaxDelay \in Nat /\ BaseDelay <= MaxDelay
  /\ Int64Bound \in Nat /\ 2 * MaxDelay < Int64Bound /\ MaxDelay < Int64Bound
BY LimiterAssumption

LEMMA Doubled ==
  ASSUME NEW n \in Nat
  PROVE  /\ BaseDelay * PowersOfTwo[n] \in Nat
         /\ BaseDelay * PowersOfTwo[n] >= BaseDelay
         /\ BaseDelay * PowersOfTwo[n + 1] = 2 * (BaseDelay * PowersOfTwo[n])
<1>1. PowersOfTwo[n] \in Nat /\ PowersOfTwo[n] >= 1 /\ PowersOfTwo[n + 1] = 2 * PowersOfTwo[n]
  BY PowersDouble
<1>2. BaseDelay \in Nat
  BY LimiterConstants
<1>3. \A p \in Nat, b \in Nat : p >= 1 => b * p \in Nat /\ b * p >= b /\ b * (2 * p) = 2 * (b * p)
  OBVIOUS
<1> QED
  BY <1>1, <1>2, <1>3

\* Every delay fits an int64.
LEMMA DelaysTyped ==
  ASSUME NEW n \in Nat
  PROVE  Backoff(n) \subseteq -Int64Bound..(Int64Bound - 1)
<1> DEFINE backoff == BaseDelay * PowersOfTwo[n]
<1>1. backoff \in Nat
  BY Doubled
<1>2. Backoff(n) = IF backoff > Int64Bound THEN {MaxDelay}
                   ELSE {IF d > MaxDelay THEN MaxDelay ELSE d : d \in Converted(backoff)}
  BY DEF Backoff
<1> HIDE DEF backoff
<1>3. backoff <= Int64Bound => Converted(backoff) \subseteq -Int64Bound..(Int64Bound - 1)
  BY <1>1, LimiterConstants DEF Converted
<1> QED
  BY <1>1, <1>2, <1>3, LimiterConstants

\* Where nothing is out of range, the backoff doubles up to maxDelay.
LEMMA BackoffIs ==
  ASSUME NeverBound, NEW n \in Nat
  PROVE  LET backoff == BaseDelay * PowersOfTwo[n]
         IN  Backoff(n) = {IF backoff > MaxDelay THEN MaxDelay ELSE backoff}
<1> DEFINE backoff == BaseDelay * PowersOfTwo[n]
<1>1. backoff \in Nat /\ backoff # Int64Bound
  BY Doubled DEF NeverBound
<1>2. Backoff(n) = IF backoff > Int64Bound THEN {MaxDelay}
                   ELSE {IF d > MaxDelay THEN MaxDelay ELSE d : d \in Converted(backoff)}
  BY DEF Backoff
<1> HIDE DEF backoff
<1>3. Converted(backoff) = {backoff}
  BY <1>1 DEF Converted
<1>4. Backoff(n) = {IF backoff > MaxDelay THEN MaxDelay ELSE backoff}
  BY <1>1, <1>2, <1>3, LimiterConstants
<1> QED
  BY <1>4 DEF backoff

LEMMA BackoffGrows ==
  ASSUME NeverBound, NEW n \in Nat
  PROVE  /\ Backoff(n) \subseteq BaseDelay..MaxDelay
         /\ \A d \in Backoff(n), e \in Backoff(n + 1) : e > d \/ e = MaxDelay
<1> DEFINE b == BaseDelay * PowersOfTwo[n]
           c == BaseDelay * PowersOfTwo[n + 1]
<1>1. b \in Nat /\ b >= BaseDelay /\ c = 2 * b
  BY Doubled
<1>2. Backoff(n) = {IF b > MaxDelay THEN MaxDelay ELSE b}
  BY BackoffIs
<1>3. Backoff(n + 1) = {IF c > MaxDelay THEN MaxDelay ELSE c}
  BY BackoffIs
<1> HIDE DEF b, c
<1> QED
  BY <1>1, <1>2, <1>3, LimiterConstants

LEMMA BackoffFirst ==
  ASSUME NeverBound
  PROVE  Backoff(0) = {BaseDelay}
<1>1. BaseDelay * PowersOfTwo[0] = BaseDelay
  BY PowersDouble, LimiterConstants
<1> QED
  BY <1>1, BackoffIs, LimiterConstants

-----------------------------------------------------------------------------
\* Types.

LEMMA HistoryTyped ==
  ASSUME NEW f \in [Items -> FailureRequest], NEW i \in Items, now \in Nat
  PROVE  Forgotten(f, i) \in [Items -> FailureRequest]
BY DEF Forgotten, NoFailure, FailureRequest

LEMMA AttemptTyped ==
  ASSUME TypeOK, NEW i \in Items
  PROVE  /\ Attempted(i) \in [Items -> FailureRequest]
         /\ Delays(i) \subseteq -Int64Bound..(Int64Bound - 1)
         /\ Known(i) \in BOOLEAN /\ Expired(i) \in BOOLEAN
<1>1. failures[i].attempts \in Nat /\ failures[i].last \in Nat /\ now \in Nat
  BY DEF TypeOK, FailureRequest
<1>2. Attempted(i) \in [Items -> FailureRequest]
  BY <1>1 DEF TypeOK, Attempted, FailureRequest
<1>3. Backoff(failures[i].attempts) \subseteq -Int64Bound..(Int64Bound - 1)
  BY <1>1, DelaysTyped
<1>4. BaseDelay \in -Int64Bound..(Int64Bound - 1) /\ 0 \in -Int64Bound..(Int64Bound - 1)
  BY LimiterConstants
<1>5. Known(i) \in BOOLEAN /\ Expired(i) \in BOOLEAN
  BY DEF Known, Expired
<1> QED
  BY <1>2, <1>3, <1>4, <1>5 DEF Delays

LEMMA TypeInit == Init => TypeOK
BY LimiterConstants DEF Init, LimiterInit, TypeOK, NoFailure, FailureRequest

LEMMA TypeStep ==
  ASSUME TypeOK, [Next]_vars
  PROVE  TypeOK'
<1>1. ASSUME NEW i \in Items, Return(i) PROVE TypeOK'
  <2>1. failures' \in [Items -> FailureRequest]
    BY <1>1, HistoryTyped DEF Return, TypeOK
  <2>2. limited' \subseteq Items /\ credit' \in [Items -> Int]
    BY <1>1 DEF Return, TypeOK
  <2>3. UNCHANGED <<now, delay, askedAt>>
    BY <1>1 DEF Return
  <2> QED BY <2>1, <2>2, <2>3 DEF TypeOK
<1>2. ASSUME NEW i \in Items, Ask(i) PROVE TypeOK'
  <2>1. PICK d \in Delays(i) :
          /\ Asked(i, d)
          /\ limited' = IF d # 0 THEN limited \cup {i} ELSE limited
          /\ \/ d > 0 /\ failures' = Attempted(i) /\ credit' = [credit EXCEPT ![i] = @ + 1]
             \/ d <= 0 /\ failures' = Forgotten(Attempted(i), i) /\ UNCHANGED credit
    BY <1>2 DEF Ask
  <2>2. now' = now /\ now \in Nat
    BY <1>2 DEF Ask, TypeOK
  <2>3. failures' \in [Items -> FailureRequest]
    BY <2>1, <2>2, AttemptTyped, HistoryTyped
  <2>4. delay' \in [Items -> -Int64Bound..(Int64Bound - 1)] /\ askedAt' \in [Items -> Nat]
    BY <2>1, <2>2, AttemptTyped DEF Asked, TypeOK
  <2>5. limited' \subseteq Items /\ credit' \in [Items -> Int]
    BY <2>1 DEF TypeOK
  <2> QED BY <2>2, <2>3, <2>4, <2>5 DEF TypeOK
<1>3. CASE Elapse
  BY <1>3 DEF Elapse, Tick, TypeOK
<1>4. CASE UNCHANGED vars
  BY <1>4 DEF vars, limiterVars, TypeOK
<1> QED
  BY <1>1, <1>2, <1>3, <1>4 DEF Next, Horizon

\* Every variable keeps its type, for any delays: even where the float64 backoff is converted out
\* of range, what When returns is an int64.
THEOREM TypeCorrect == Spec => []TypeOK
<1> QED
  BY TypeInit, TypeStep, PTL DEF Spec

-----------------------------------------------------------------------------
\* The wrapper and its limiter.

\* As long as the history of i has not expired it says when i was asked about and how often, and
\* so what delay it was given.
HistoryOf(i) ==
  /\ failures[i].last <= now
  /\ askedAt[i] <= now
  /\ delay[i] > 0 /\ now - askedAt[i] <= 2 * MaxDelay =>
       /\ Known(i)
       /\ failures[i].last = askedAt[i]
       /\ delay[i] \in Backoff(failures[i].attempts - 1)

LimitInv ==
  /\ TypeOK
  /\ OnePassPerWhen
  /\ DelaysBounded
  /\ \A i \in Items : HistoryOf(i)

\* What a call of When answers: nothing for a history that has expired, a delay for any other.
LEMMA Answers ==
  ASSUME NeverBound, TypeOK, NEW i \in Items, NEW d \in Delays(i)
  PROVE  \/ Expired(i) /\ d = 0
         \/ ~Expired(i) /\ d \in BaseDelay..MaxDelay /\ d \in Backoff(failures[i].attempts)
<1>1. failures[i].attempts \in Nat
  BY DEF TypeOK, FailureRequest
<1>2. CASE ~Known(i)
  <2>1. failures[i].attempts = 0 /\ d = BaseDelay /\ ~Expired(i)
    BY <1>1, <1>2 DEF Known, Expired, Delays
  <2> QED BY <2>1, BackoffFirst, LimiterConstants
<1>3. CASE Known(i) /\ Expired(i)
  BY <1>3 DEF Delays
<1>4. CASE Known(i) /\ ~Expired(i)
  BY <1>1, <1>4, BackoffGrows DEF Delays
<1> QED
  BY <1>2, <1>3, <1>4

\* The two outcomes of a request that is not limited: it passes without a history, or waits.
LEMMA AskOutcome ==
  ASSUME NeverBound, TypeOK, NEW i \in Items, Ask(i)
  PROVE  /\ i \notin limited /\ now' = now
         /\ \E d \in Delays(i) :
              /\ delay' = [delay EXCEPT ![i] = d] /\ askedAt' = [askedAt EXCEPT ![i] = now]
              /\ \/ /\ Expired(i) /\ d = 0
                    /\ limited' = limited /\ credit' = credit
                    /\ failures' = [failures EXCEPT ![i] = NoFailure]
                 \/ /\ ~Expired(i) /\ d \in BaseDelay..MaxDelay /\ d \in Backoff(failures[i].attempts)
                    /\ limited' = limited \cup {i} /\ credit' = [credit EXCEPT ![i] = @ + 1]
                    /\ failures' = [failures EXCEPT ![i] = [attempts |-> @.attempts + 1, last |-> now]]
<1>1. PICK d \in Delays(i) :
        /\ Asked(i, d)
        /\ limited' = IF d # 0 THEN limited \cup {i} ELSE limited
        /\ \/ d > 0 /\ failures' = Attempted(i) /\ credit' = [credit EXCEPT ![i] = @ + 1]
           \/ d <= 0 /\ failures' = Forgotten(Attempted(i), i) /\ UNCHANGED credit
  BY DEF Ask
<1>0. i \notin limited /\ now' = now /\ delay' = [delay EXCEPT ![i] = d] /\ askedAt' = [askedAt EXCEPT ![i] = now]
  BY <1>1 DEF Ask, Asked
<1>2. CASE Expired(i) /\ d = 0
  <2>1. Attempted(i) = failures /\ Forgotten(failures, i) = [failures EXCEPT ![i] = NoFailure]
    BY <1>2 DEF Attempted, Expired, Forgotten
  <2>2. ~(d > 0) /\ ~(d # 0)
    BY <1>2
  <2>3. limited' = limited /\ credit' = credit /\ failures' = [failures EXCEPT ![i] = NoFailure]
    BY <1>1, <2>1, <2>2
  <2> QED BY <1>0, <1>2, <2>3
<1>3. CASE ~Expired(i) /\ d \in BaseDelay..MaxDelay /\ d \in Backoff(failures[i].attempts)
  <2>1. d > 0
    BY <1>3, LimiterConstants
  <2>2. Attempted(i) = [failures EXCEPT ![i] = [attempts |-> @.attempts + 1, last |-> now]]
    BY <1>3 DEF Attempted
  <2>3. limited' = limited \cup {i} /\ credit' = [credit EXCEPT ![i] = @ + 1] /\ failures' = Attempted(i)
    <3>1. d # 0 /\ ~(d <= 0)
      BY <1>3, <2>1, LimiterConstants
    <3> QED BY <1>1, <3>1
  <2> QED BY <1>0, <1>3, <2>2, <2>3
<1> QED
  BY <1>2, <1>3, Answers

LEMMA LimitInit == Init => LimitInv
<1> SUFFICES ASSUME Init PROVE LimitInv
  OBVIOUS
<1>1. TypeOK /\ limited = {} /\ now = 2 * MaxDelay + 1
  BY TypeInit DEF Init, LimiterInit
<1>2. \A i \in Items : failures[i].last = 0 /\ askedAt[i] = 0 /\ delay[i] = 0 /\ credit[i] = 0
  BY DEF Init, LimiterInit, NoFailure
<1> QED
  BY <1>1, <1>2, LimiterConstants DEF LimitInv, OnePassPerWhen, DelaysBounded, HistoryOf

LEMMA LimitStep ==
  ASSUME NeverBound, LimitInv, [Next]_vars
  PROVE  LimitInv'
<1>0. TypeOK /\ TypeOK' /\ now \in Nat
  BY TypeStep DEF LimitInv, TypeOK
<1>a. \A j \in Items : /\ failures[j].attempts \in Nat /\ failures[j].last \in Nat /\ askedAt[j] \in Nat
                       /\ delay[j] \in Int /\ credit[j] \in Int
  BY <1>0, LimiterConstants DEF TypeOK, FailureRequest
<1>1. ASSUME NEW i \in Items, Return(i) PROVE LimitInv'
  <2>1. /\ i \in limited /\ limited' = limited \ {i} /\ credit' = [credit EXCEPT ![i] = @ - 1]
        /\ failures' = Forgotten(failures, i) /\ UNCHANGED <<now, delay, askedAt>>
    BY <1>1 DEF Return
  <2>2. OnePassPerWhen'
    BY <1>0, <1>a, <2>1 DEF LimitInv, OnePassPerWhen, TypeOK
  <2>3. DelaysBounded'
    BY <2>1 DEF LimitInv, DelaysBounded
  <2>4. ASSUME NEW j \in Items PROVE HistoryOf(j)'
    <3>1. HistoryOf(j)
      BY DEF LimitInv
    <3>2. CASE failures'[j] = failures[j]
      BY <2>1, <3>1, <3>2 DEF HistoryOf, Known
    <3>3. CASE j = i /\ now - failures[i].last > 2 * MaxDelay /\ failures'[j] = NoFailure
      BY <1>0, <1>a, <2>1, <3>1, <3>3, LimiterConstants DEF HistoryOf, NoFailure
    <3> QED BY <1>0, <2>1, <3>2, <3>3 DEF Forgotten, TypeOK
  <2> QED BY <1>0, <2>2, <2>3, <2>4 DEF LimitInv
<1>2. ASSUME NEW i \in Items, Ask(i) PROVE LimitInv'
  <2>1. /\ i \notin limited /\ now' = now
    BY <1>0, <1>2, AskOutcome
  <2>2. PICK d \in Delays(i) :
          /\ delay' = [delay EXCEPT ![i] = d] /\ askedAt' = [askedAt EXCEPT ![i] = now]
          /\ \/ /\ Expired(i) /\ d = 0
                /\ limited' = limited /\ credit' = credit
                /\ failures' = [failures EXCEPT ![i] = NoFailure]
             \/ /\ ~Expired(i) /\ d \in BaseDelay..MaxDelay /\ d \in Backoff(failures[i].attempts)
                /\ limited' = limited \cup {i} /\ credit' = [credit EXCEPT ![i] = @ + 1]
                /\ failures' = [failures EXCEPT ![i] = [attempts |-> @.attempts + 1, last |-> now]]
    BY <1>0, <1>2, AskOutcome
  <2>3. OnePassPerWhen'
    BY <1>0, <1>a, <2>1, <2>2 DEF LimitInv, OnePassPerWhen, TypeOK
  <2>4. DelaysBounded'
    BY <1>0, <2>1, <2>2 DEF LimitInv, DelaysBounded, TypeOK
  <2>5. ASSUME NEW j \in Items PROVE HistoryOf(j)'
    <3>1. HistoryOf(j)
      BY DEF LimitInv
    <3>2. CASE j # i
      <4>1. failures'[j] = failures[j] /\ askedAt'[j] = askedAt[j] /\ delay'[j] = delay[j]
        BY <1>0, <2>2, <3>2 DEF TypeOK
      <4> QED BY <2>1, <3>1, <4>1 DEF HistoryOf, Known
    <3>3. CASE j = i
      <4>1. askedAt'[j] = now /\ delay'[j] = d
        BY <1>0, <2>2, <3>3 DEF TypeOK
      <4>2. CASE d = 0 /\ failures'[j] = NoFailure
        BY <1>0, <2>1, <4>1, <4>2 DEF HistoryOf, NoFailure
      <4>3. CASE /\ failures'[j] = [attempts |-> failures[i].attempts + 1, last |-> now]
                 /\ d \in Backoff(failures[i].attempts)
        <5>1. /\ failures'[j].last = now /\ failures'[j].attempts = failures[i].attempts + 1
              /\ failures'[j].attempts > 0 /\ failures'[j].attempts - 1 = failures[i].attempts
          BY <1>a, <4>3
        <5> QED BY <1>0, <2>1, <4>1, <4>3, <5>1 DEF HistoryOf, Known
      <4> QED BY <1>0, <2>2, <3>3, <4>2, <4>3 DEF TypeOK
    <3> QED BY <3>2, <3>3
  <2> QED BY <1>0, <2>3, <2>4, <2>5 DEF LimitInv
<1>3. CASE Elapse
  <2>1. now' = now + 1 /\ UNCHANGED <<failures, delay, askedAt, limited, credit>>
    BY <1>3 DEF Elapse, Tick
  <2>2. OnePassPerWhen' /\ DelaysBounded'
    BY <2>1 DEF LimitInv, OnePassPerWhen, DelaysBounded
  <2>3. ASSUME NEW j \in Items PROVE HistoryOf(j)'
    <3>1. HistoryOf(j)
      BY DEF LimitInv
    <3> QED BY <1>0, <1>a, <2>1, <3>1, LimiterConstants DEF HistoryOf, Known
  <2> QED BY <1>0, <2>2, <2>3 DEF LimitInv
<1>4. CASE UNCHANGED vars
  BY <1>0, <1>4 DEF vars, limiterVars, LimitInv, OnePassPerWhen, DelaysBounded, HistoryOf, Known
<1> QED
  BY <1>1, <1>2, <1>3, <1>4 DEF Next, Horizon

\* A request that was sent back is owed one pass, and no other is, as long as no delay is
\* converted out of range: else When answers a negative one, and the request is both marked and
\* let through.
THEOREM OnePassIsOwed ==
  ASSUME NeverBound
  PROVE  Spec => []OnePassPerWhen
<1>1. LimitInv => OnePassPerWhen
  BY DEF LimitInv
<1> QED
  BY <1>1, LimitInit, LimitStep, PTL DEF Spec

\* A request that was sent back waits for at least baseDelay and at most maxDelay, under the same
\* hypothesis.
THEOREM DelaysAreBounded ==
  ASSUME NeverBound
  PROVE  Spec => []DelaysBounded
<1>1. LimitInv => DelaysBounded
  BY DEF LimitInv
<1> QED
  BY <1>1, LimitInit, LimitStep, PTL DEF Spec

\* Only a call of When moves askedAt, and it moves it for the request that asked.
LEMMA OnlyAskAsks ==
  ASSUME TypeOK, [Next]_vars, NEW i \in Items, askedAt'[i] # askedAt[i]
  PROVE  Ask(i)
<1>1. ASSUME NEW j \in Items, Ask(j) PROVE i = j
  <2>1. \E d : askedAt' = [askedAt EXCEPT ![j] = now]
    BY <1>1 DEF Ask, Asked
  <2> QED BY <2>1 DEF TypeOK
<1>2. \A j \in Items : ~Return(j)
  BY DEF Return
<1>3. ~Elapse
  BY DEF Elapse, Tick
<1>4. ~UNCHANGED vars
  BY DEF vars, limiterVars
<1>5. \E j \in Items : Ask(j)
  BY <1>2, <1>3, <1>4 DEF Next, Horizon
<1> QED
  BY <1>1, <1>5

\* A request that keeps coming within the expiry of its history waits longer each time, until
\* maxDelay, under the same hypothesis.
THEOREM DelaysDoGrow ==
  ASSUME NeverBound
  PROVE  Spec => DelaysGrow
<1>1. ASSUME LimitInv, [Next]_vars, NEW i \in Items, askedAt'[i] # askedAt[i], delay[i] > 0,
             now - askedAt[i] <= 2 * MaxDelay
      PROVE  delay'[i] > delay[i] \/ delay'[i] = MaxDelay
  <2>1. TypeOK
    BY <1>1 DEF LimitInv
  <2>2. Ask(i)
    BY <1>1, <2>1, OnlyAskAsks
  <2>3. failures[i].attempts \in Nat /\ now \in Nat /\ askedAt[i] \in Nat
    BY <2>1 DEF TypeOK, FailureRequest
  <2>4. /\ failures[i].attempts > 0 /\ ~Expired(i)
        /\ delay[i] \in Backoff(failures[i].attempts - 1)
    <3>1. Known(i) /\ failures[i].last = askedAt[i] /\ delay[i] \in Backoff(failures[i].attempts - 1)
      BY <1>1 DEF LimitInv, HistoryOf
    <3> QED BY <1>1, <2>3, <3>1, LimiterConstants DEF Known, Expired
  <2>5. delay'[i] \in Backoff(failures[i].attempts)
    <3>1. PICK d \in Delays(i) :
            delay' = [delay EXCEPT ![i] = d] /\ (Expired(i) \/ d \in Backoff(failures[i].attempts))
      BY <2>1, <2>2, AskOutcome
    <3> QED BY <2>1, <2>4, <3>1 DEF TypeOK
  <2>6. failures[i].attempts - 1 \in Nat /\ (failures[i].attempts - 1) + 1 = failures[i].attempts
    BY <2>3, <2>4
  <2> QED BY <2>4, <2>5, <2>6, BackoffGrows
<1>2. LimitInv /\ [Next]_vars =>
        [\A i \in Items : /\ askedAt'[i] # askedAt[i]
                          /\ askedAt[i] # 0
                          /\ delay[i] > 0
                          /\ now - askedAt[i] <= 2 * MaxDelay
           => delay'[i] > delay[i] \/ delay'[i] = MaxDelay]_vars
  BY <1>1
<1> QED
  BY <1>2, LimitInit, LimitStep, PTL DEF Spec, DelaysGrow

\* A request that passes at once, after a quiet time, leaves no history behind, under the same
\* hypothesis.
THEOREM QuietDoesRestart ==
  ASSUME NeverBound
  PROVE  Spec => QuietRestarts
<1>1. ASSUME LimitInv, [Next]_vars, NEW i \in Items, askedAt'[i] # askedAt[i], i \notin limited'
      PROVE  ~Known(i)'
  <2>0. TypeOK /\ Ask(i)
    BY <1>1, OnlyAskAsks DEF LimitInv
  <2>1. failures' = [failures EXCEPT ![i] = NoFailure] \/ limited' = limited \cup {i}
    BY <2>0, AskOutcome
  <2>2. failures'[i] = NoFailure
    BY <1>1, <2>0, <2>1 DEF TypeOK
  <2> QED BY <2>2 DEF Known, NoFailure
<1>2. LimitInv /\ [Next]_vars =>
        [\A i \in Items : askedAt'[i] # askedAt[i] /\ i \notin limited' => ~Known(i)']_vars
  BY <1>1
<1> QED
  BY <1>2, LimitInit, LimitStep, PTL DEF Spec, QuietRestarts
===============================================================================
