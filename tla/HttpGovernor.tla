------------------------------ MODULE HttpGovernor ------------------------------
(***************************************************************************)
(* The Governor fed by httpsignal's Transport: the signals are what the    *)
(* responses to the gated calls say.  A RoundTrip reads the clock, parses  *)
(* and hands the signal to Observe, which reads it again at once: one step.*)
(***************************************************************************)
EXTENDS Governor, HttpSignal

CONSTANTS
  Requests,   \* the requests of a call: the host, and the key of its context
  Responses   \* what the server may answer

ASSUME ExchangesAssumption ==
  Responses \subseteq HttpResponses /\ \A req \in Requests : keyFor(req) \in Keys

VARIABLES
  asked,  \* auxiliary, per worker: the instant the refusal it reports names, in halves
  named   \* auxiliary, per key: the latest instant a refusal folded into it named, in halves

httpVars == <<vars, asked, named>>

\* Every instant that r, which comes at time at, names to the client, in halves.
NamedBy(r, at) ==
  {2 * at + x.seconds : x \in {y \in r.retryAfter : ~y.isDate}}
    \cup {2 * x.date : x \in {y \in r.retryAfter : y.isDate}}
    \cup {2 * t : t \in r.reset}

\* The responses that refuse the request because of a rate (the package's documentation).
Refusal(r) == \/ r.status = 429
              \/ r.status = 403 /\ (r.retryAfter # {} \/ r.remaining = {0})
              \/ r.status = 503 /\ r.retryAfter # {}

\* The last instant r names if it is a refusal; 0 if it is none, or names none.
RefusedUntil(r, at) ==
  IF Refusal(r) /\ NamedBy(r, at) # {}
  THEN CHOOSE t \in NamedBy(r, at) : \A u \in NamedBy(r, at) : u <= t
  ELSE 0

\* A request of worker w's call is answered with r, which has something to report.
RoundTrip(w, req, r) ==
  /\ Found(r, now)
  /\ Observe(w, keyFor(req), Parse(r, now))
  /\ asked' = [asked EXCEPT ![w] = RefusedUntil(r, now)]
  /\ UNCHANGED named

\* The governor takes the report of w in.
Fold(w) ==
  /\ ObserveLocked(w)
  /\ named' = [k \in Keys |-> IF \E x \in report[w] : x.key = k THEN LargerOf(named[k], asked[w])
                              ELSE named[k]]
  /\ asked' = [asked EXCEPT ![w] = 0]

\* Every other step of the governor.
GovernorStep ==
  /\ \/ \E w \in Workers, ks \in SUBSET Keys : Acquire(w, ks) \/ Defer(w, ks)
     \/ \E w \in Workers : Release(w) \/ Backstop(w)
     \/ RegisterReconciler
     \/ Snapshot(Keys)
     \/ Tick
  /\ UNCHANGED <<asked, named>>

HttpInit == /\ Init
            /\ asked = [w \in Workers |-> 0]
            /\ named = [k \in Keys |-> 0]

HttpNext ==
  \/ \E w \in Workers, req \in Requests, r \in Responses : RoundTrip(w, req, r)
  \/ \E w \in Workers : Fold(w)
  \/ GovernorStep

\* Time passes, signals are folded in (the mutex is free again and again), and every key is
\* read at least once a tick, by a call or by the metrics: capacity only rises when it is read.
ReadEachTick == now' # now => \A k \in Keys : ~maybeRaise(k)

HttpSpec == /\ HttpInit /\ [][HttpNext /\ ReadEachTick]_httpVars
            /\ WF_httpVars(Tick /\ ReadEachTick /\ UNCHANGED <<asked, named>>)
            /\ WF_httpVars(Snapshot(Keys) /\ UNCHANGED <<asked, named>>)
            /\ \A w \in Workers : WF_httpVars(Fold(w))

-----------------------------------------------------------------------------
\* No call goes to a key before the latest instant that a refusal for it named, in
\* whichever header and form, whatever served or refused responses come after it.
RefusalsHonoured ==
  [][\A k \in Keys : inFlight'[k] > inFlight[k] => 2 * now >= named[k]]_httpVars

\* Once signals stop, every key recovers to the ceiling and stays there.  (Nothing but reads
\* raises a capacity: maybeRaise.)
KeysRecover == <>[](\A k \in Keys : capacity[k] = ceiling)
===============================================================================
