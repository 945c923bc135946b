----------------------------- MODULE MCHttpGovernor -----------------------------
(* A finite instance of HttpGovernor: one key, reached through its host,     *)
(* spelled in upper case, and through the context of a request to another.   *)
EXTENDS HttpGovernor

CONSTANTS k1, otherKey

MCRequests == {[host |-> [name |-> k1, upper |-> TRUE], key |-> NoKey],
               [host |-> [name |-> otherKey, upper |-> FALSE], key |-> k1]}

Bare(status) ==
  [status |-> status, retryAfter |-> {}, remaining |-> {}, limit |-> {}, used |-> {},
   reset |-> {}, delay |-> {}, resource |-> FALSE]
Seconds(halves) == {[isDate |-> FALSE, seconds |-> halves]}
Date(t)         == {[isDate |-> TRUE, date |-> t]}

\* Refusals by delay, by date with quota left, and by reset; a served request that leaves
\* little quota; responses that slow nothing down.
MCResponses ==
  {[Bare(429) EXCEPT !.retryAfter = Seconds(3), !.delay = {8}],
   [Bare(403) EXCEPT !.retryAfter = Date(4), !.remaining = {6}, !.limit = {8}],
   [Bare(403) EXCEPT !.remaining = {0}, !.limit = {8}, !.reset = {4}],
   [Bare(403) EXCEPT !.remaining = {6}, !.limit = {8}, !.reset = {5}],
   [Bare(200) EXCEPT !.limit = {8}, !.used = {7}, !.resource = TRUE],
   [Bare(200) EXCEPT !.remaining = {8}, !.limit = {8}, !.reset = {5}]}
===============================================================================
