------------------------------- MODULE CallGate -------------------------------
(***************************************************************************)
(* What the governor promises to those who call through it: a set of       *)
(* counting semaphores, one per key and one for all calls, whose limits    *)
(* move while calls hold them.  How limits move is left open; Governor     *)
(* implements this specification.                                          *)
(***************************************************************************)
EXTENDS Naturals, FiniteSets

CONSTANTS Clients, Keys

VARIABLES
  calls,   \* per client: the set of the key set of its call, or {} without a call
  limit,   \* per key: how many calls may enter
  total,   \* how many calls may run in all
  top,     \* what no limit exceeds
  closed   \* the keys no call may enter for now

vars == <<calls, limit, total, top, closed>>

InUse(k) == Cardinality({c \in Clients : \E ks \in calls[c] : k \in ks})
Running  == Cardinality({c \in Clients : calls[c] # {}})

Init ==
  /\ calls = [c \in Clients |-> {}]
  /\ top \in Nat \ {0}
  /\ limit \in [Keys -> 1..top]
  /\ total \in 1..top
  /\ closed \subseteq Keys

\* All or nothing: a call enters with a slot in each of its keys and one in all.  The limits
\* of its keys, and no others, may rise by one as it does.
Enter(c, ks) ==
  /\ calls[c] = {}
  /\ calls' = [calls EXCEPT ![c] = {ks}]
  /\ ks \cap closed = {}
  /\ limit' \in [Keys -> 1..top]
  /\ \A k \in Keys : limit'[k] = limit[k] \/ (k \in ks /\ limit'[k] = limit[k] + 1)
  /\ \A k \in ks : InUse(k) < limit'[k]
  /\ Running < total
  /\ UNCHANGED <<total, top, closed>>

Leave(c) ==
  /\ calls[c] # {}
  /\ calls' = [calls EXCEPT ![c] = {}]
  /\ UNCHANGED <<limit, total, top, closed>>

\* The limits move; no call is cut short, and no limit goes where a call waits forever.
Adjust ==
  /\ UNCHANGED calls
  /\ top' \in Nat /\ top' >= top
  /\ limit' \in [Keys -> 1..top']
  /\ total' \in 1..top'
  /\ closed' \subseteq Keys

Next ==
  \/ Adjust
  \/ \E c \in Clients : Leave(c)
  \/ \E c \in Clients, ks \in SUBSET Keys : Enter(c, ks)

Spec == Init /\ [][Next]_vars
===============================================================================
