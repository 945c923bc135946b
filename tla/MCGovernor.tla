------------------------------ MODULE MCGovernor ------------------------------
(* Finite instances of Governor: a few signals of each kind over two keys.   *)
EXTENDS Governor, TLC

KeySymmetry == Permutations(Keys)

Plain(throttled) ==
  [retryAfter |-> 0, resetAt |-> 0, remaining |-> 0, limit |-> 0, hasQuota |-> FALSE,
   throttled |-> throttled]

\* Two refusals that name different deadlines, and an advisory low quota.
MCSignals ==
  {[Plain(TRUE) EXCEPT !.retryAfter = 2],
   [Plain(TRUE) EXCEPT !.resetAt = 3],
   [Plain(FALSE) EXCEPT !.hasQuota = TRUE, !.remaining = 1, !.limit = 4]}

\* An unreadable cpu.pressure next to a large cache of inactive files; CPU pressure without
\* a memory limit; a working set at the soft and at the hard ratio.
MCSamples ==
  LET Files == [dir |-> TRUE, pressure |-> {0}, max |-> {100}, current |-> {90}, inactive |-> {40}]
  IN  {[Files EXCEPT !.pressure = {}],
       [Files EXCEPT !.pressure = {60}, !.max = {}],
       [Files EXCEPT !.inactive = {10}],
       [Files EXCEPT !.inactive = {0}]}
===============================================================================
