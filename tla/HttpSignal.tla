------------------------------- MODULE HttpSignal -------------------------------
(***************************************************************************)
(* pkg/ratelimit/httpsignal: the Signal a response's rate-limit headers    *)
(* make.                                                                   *)
(*                                                                         *)
(* A header is the set of its value: {} if it is absent or malformed.      *)
(* Numbers of seconds and counts may have a fraction and are in halves,    *)
(* of a tick or of one request; dates and epochs are in ticks.             *)
(***************************************************************************)
EXTENDS Integers, Signal

CONSTANTS
  MaxSeconds, MaxCount,  \* what larger delays and counts are cut to, in halves
  MaxEpoch,              \* a later epoch is not a time
  NoKey                  \* a context without WithKey, or with an empty key

ASSUME HttpAssumption ==
  MaxSeconds \in Nat /\ MaxCount \in Nat /\ MaxEpoch \in Nat

\* What a server may answer.  Each header is read once, with Get.
RetryAfters == [isDate : {FALSE}, seconds : Int] \cup [isDate : {TRUE}, date : Nat]
Once(h)     == \A x, y \in h : x = y

HttpResponses ==
  {r \in [status : Nat, retryAfter : SUBSET RetryAfters, remaining : SUBSET Int, limit : SUBSET Int,
           used : SUBSET Int, reset : SUBSET Int, delay : SUBSET Int, resource : BOOLEAN] :
     /\ Once(r.retryAfter)
     /\ \A h \in {r.remaining, r.limit, r.used, r.reset, r.delay} : Once(h)}

\* A URL's host is a name in some spelling; in lower case only the name is left.
HostKey(host) == host.name

keyFor(req) == IF req.key # NoKey THEN req.key ELSE HostKey(req.host)

Value(h)   == IF h = {} THEN 0 ELSE CHOOSE v \in h : TRUE
Cut(v, max) == IF v > max THEN max ELSE v

parseSeconds(h) == {(Cut(v, MaxSeconds) + 1) \div 2 : v \in {x \in h : x >= 0}}
parseCount(h)   == {Cut(v, MaxCount) \div 2 : v \in {x \in h : x >= 0}}
parseEpoch(h)   == {t \in h : 0 < t /\ t <= MaxEpoch}

\* Delay-seconds or an HTTP-date, which may be past.
parseRetryAfter(h, now) ==
  parseSeconds({x.seconds : x \in {y \in h : ~y.isDate}})
    \cup {IF x.date > now THEN x.date - now ELSE 0 : x \in {y \in h : y.isDate}}

\* The counted quota that is left, or else the limit less what is used.
RemainingOf(r) ==
  LET counted == parseCount(r.remaining)
      derived == {IF l > u THEN l - u ELSE 0 : l \in parseCount(r.limit), u \in parseCount(r.used)}
  IN  IF counted # {} THEN counted ELSE derived

\* Mutant of Throttled: with quota left a 403 is taken for a matter of permissions.
ThrottledByQuota(r, retry, remaining) ==
  \/ r.status = 429
  \/ r.status = 403 /\ remaining = {0}
  \/ r.status = 503 /\ retry # {}

\* Whether r is a refusal, with the delay and the quota it names.
Throttled(r, retry, remaining) ==
  \/ r.status = 429
  \/ r.status = 403 /\ (retry # {} \/ remaining = {0})
  \/ r.status = 503 /\ retry # {}

Parse(r, now) ==
  LET retry     == parseRetryAfter(r.retryAfter, now)
      remaining == RemainingOf(r)
      throttled == Throttled(r, retry, remaining)
      delay     == parseSeconds(r.delay)
      wait      == IF delay # {} /\ ~throttled /\ Value(retry) = 0 THEN delay ELSE retry
  IN  [retryAfter |-> Value(wait), resetAt |-> Value(parseEpoch(r.reset)),
       remaining |-> Value(remaining),
       limit |-> IF remaining # {} THEN Value(parseCount(r.limit)) ELSE 0,
       hasQuota |-> remaining # {}, throttled |-> throttled]

\* Whether r carries anything to report.
Found(r, now) ==
  \/ Parse(r, now).throttled
  \/ parseRetryAfter(r.retryAfter, now) # {}
  \/ RemainingOf(r) # {}
  \/ \E h \in {r.limit, r.used} : parseCount(h) # {}
  \/ parseEpoch(r.reset) # {}
  \/ parseSeconds(r.delay) # {}
  \/ r.resource
===============================================================================
