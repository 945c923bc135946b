---------------------------- MODULE CreateHandshake ----------------------------
(***************************************************************************)
(* What the create handshake of Reconcile promises: a handshake is opened  *)
(* on the API server before the one request that may create the external   *)
(* resource, and closed only when no request is under way any more.  How   *)
(* stamps, grace periods and observations achieve it is left open;         *)
(* Reconciler implements this specification.                               *)
(***************************************************************************)
EXTENDS Naturals

VARIABLES
  open,      \* the stored object shows an unresolved create
  wire,      \* a Create request may still take effect
  resources  \* how many external resources exist

vars == <<open, wire, resources>>

Init == open = FALSE /\ wire = FALSE /\ resources \in {0, 1}

\* Only for a resource that does not exist, with no handshake open.  The writer may be
\* gone before it sends the request.
Open ==
  /\ ~open /\ ~wire /\ resources = 0
  /\ open' = TRUE
  /\ wire' \in BOOLEAN
  /\ UNCHANGED resources

Land == /\ wire
        /\ wire' = FALSE
        /\ resources' = resources + 1
        /\ UNCHANGED open

\* The request failed, or died with its sender.
Drop == wire /\ wire' = FALSE /\ UNCHANGED <<open, resources>>

Close == open /\ ~wire /\ open' = FALSE /\ UNCHANGED <<wire, resources>>

Remove == resources > 0 /\ resources' = resources - 1 /\ UNCHANGED <<open, wire>>

Next == Open \/ Land \/ Drop \/ Close \/ Remove

Spec == Init /\ [][Next]_vars

\* One request at a time, for a resource that does not exist, and never a second resource.
AtMostOne == /\ wire => open /\ resources = 0
             /\ resources <= 1
===============================================================================
