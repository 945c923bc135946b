--------------------------------- MODULE Meta ---------------------------------
(***************************************************************************)
(* The annotations of a managed resource and what pkg/meta reads from and  *)
(* writes to them: the create-handshake stamps and the policies.           *)
(*                                                                         *)
(* Time is a natural number of ticks, TicksPerSecond of them to a second.  *)
(* An absent annotation has its Go zero value: ZeroTime for a stamp, ""    *)
(* for a policy, 0 for the external name.                                  *)
(***************************************************************************)
EXTENDS Naturals

CONSTANT TicksPerSecond

ASSUME TicksPerSecondAssumption == TicksPerSecond \in Nat \ {0}

ManagementPolicies ==
  {"", "default", "observe-create-update", "observe-delete", "observe"}

DeletionPolicies == {"", "delete", "orphan"}

Annotations ==
  [pending   : Nat,                 \* external-create-pending
   succeeded : Nat,                 \* external-create-succeeded
   failed    : Nat,                 \* external-create-failed
   name      : Nat,                 \* external-name
   mgmt      : ManagementPolicies,  \* management-policy
   del       : DeletionPolicies,    \* deletion-policy
   paused    : {"", "true"}]        \* paused

ZeroTime == 0

\* A time formatted as RFC3339 and parsed back has lost its fraction of a second.
RFC3339(t) == t - (t % TicksPerSecond)

\* Mutant of SetExternalCreatePending: an earlier stamp is kept.
SetExternalCreatePendingOnce(a, t) == IF a.pending # ZeroTime THEN a ELSE [a EXCEPT !.pending = RFC3339(t)]

SetExternalCreatePending(a, t)   == [a EXCEPT !.pending = RFC3339(t)]
SetExternalCreateSucceeded(a, t) == [a EXCEPT !.succeeded = RFC3339(t)]
SetExternalCreateFailed(a, t)    == [a EXCEPT !.failed = RFC3339(t)]
SetExternalName(a, n)            == [a EXCEPT !.name = n]
RemovePending(a)                 == [a EXCEPT !.pending = ZeroTime]

\* a with every annotation that b sets: b overwrites and restores, it never removes.
AddAnnotations(a, b) ==
  [pending   |-> IF b.pending   # ZeroTime THEN b.pending   ELSE a.pending,
   succeeded |-> IF b.succeeded # ZeroTime THEN b.succeeded ELSE a.succeeded,
   failed    |-> IF b.failed    # ZeroTime THEN b.failed    ELSE a.failed,
   name      |-> IF b.name      # 0        THEN b.name      ELSE a.name,
   mgmt      |-> IF b.mgmt      # ""       THEN b.mgmt      ELSE a.mgmt,
   del       |-> IF b.del       # ""       THEN b.del       ELSE a.del,
   paused    |-> IF b.paused    # ""       THEN b.paused    ELSE a.paused]

ExternalCreateIncomplete(a) ==
  LET latest == IF a.failed > a.succeeded THEN a.failed ELSE a.succeeded
  IN  a.pending # ZeroTime /\ a.pending > latest

\* Mutant of ExternalCreateSucceededDuring: the comparison is turned round.
ExternalCreateSucceededAfter(a, now, d) == a.succeeded # ZeroTime /\ now >= a.succeeded + d

\* Mutant of ExternalCreatePendingDuring: the period is left out.
ExternalCreatePendingAt(a, now, d) == a.pending # ZeroTime /\ now < a.pending

\* time.Since(t) < d, at time now.
ExternalCreateSucceededDuring(a, now, d) == a.succeeded # ZeroTime /\ now < a.succeeded + d
ExternalCreatePendingDuring(a, now, d)   == a.pending   # ZeroTime /\ now < a.pending + d

IsPaused(a) == a.paused = "true"

ManagementPolicy(a) == IF a.mgmt = "" THEN "default" ELSE a.mgmt
DeletionPolicy(a)   == IF a.del = "" THEN "delete" ELSE a.del

ShouldDelete(a) ==
  \/ DeletionPolicy(a) = "delete" /\ ManagementPolicy(a) = "default"
  \/ ManagementPolicy(a) = "observe-delete"

ShouldOnlyObserve(a) == ManagementPolicy(a) = "observe"
ShouldCreate(a)      == ManagementPolicy(a) \in {"default", "observe-create-update"}
ShouldUpdate(a)      == ManagementPolicy(a) \in {"default", "observe-create-update"}
===============================================================================
