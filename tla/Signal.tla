-------------------------------- MODULE Signal --------------------------------
(***************************************************************************)
(* pkg/ratelimit/signal.go: what a provider reports about a rate limit and *)
(* what it means to the governor.  Time is a natural number; 0 is the zero *)
(* time, which a signal that names no instant carries.                     *)
(***************************************************************************)
EXTENDS Naturals

\* A quota without counters has limit 0 and hasQuota FALSE.
SignalFields ==
  [retryAfter : Nat, resetAt : Nat, remaining : Nat, limit : Nat,
   hasQuota : BOOLEAN, throttled : BOOLEAN]

\* The later of now + RetryAfter and ResetAt; the zero time if s names neither.
Deadline(s, now) ==
  LET d == IF s.retryAfter > 0 THEN now + s.retryAfter ELSE 0
  IN  IF s.resetAt > d THEN s.resetAt ELSE d

advisoryQuotaDivisor == 4

Classify(s, now) ==
  LET low      == s.hasQuota /\ s.limit > 0 /\ s.remaining * advisoryQuotaDivisor <= s.limit
      advisory == low \/ s.retryAfter > 0 \/ (~s.hasQuota /\ s.resetAt > now)
  IN  IF s.throttled THEN "throttled" ELSE IF advisory THEN "advisory" ELSE "none"
===============================================================================
