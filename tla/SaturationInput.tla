--------------------------- MODULE SaturationInput ---------------------------
(***************************************************************************)
(* pkg/ratelimit/saturation.go: what the sampler reads from the cgroup     *)
(* files and what it makes of it.  A number is in a set of at most one     *)
(* element, which is empty when the file is missing or does not parse;     *)
(* pressure is avg10 of the "some" line, max is empty without a limit.     *)
(***************************************************************************)
EXTENDS Naturals

CONSTANTS
  ExperimentalMemoryWorkingSet,
  CPUPressureThreshold, WorkingSetSoftRatio, WorkingSetHardRatio  \* in percent

\* What withDefaults lets pass.
ASSUME SaturationAssumption ==
  /\ ExperimentalMemoryWorkingSet \in BOOLEAN
  /\ CPUPressureThreshold \in 1..100
  /\ WorkingSetHardRatio \in 1..100
  /\ WorkingSetSoftRatio \in 1..WorkingSetHardRatio

CgroupFiles ==
  [dir : BOOLEAN, pressure : SUBSET Nat, max : SUBSET Nat, current : SUBSET Nat, inactive : SUBSET Nat]

\* The reading is disabled as soon as one of its files is; an inactive_file above
\* memory.current, which is read earlier, counts as an empty working set.
readWorkingSet(f) ==
  {[used |-> IF c > i THEN c - i ELSE 0, limit |-> m] :
     m \in f.max \ {0}, c \in f.current, i \in f.inactive}

\* One sample: each input is read on its own, the working set only if it is switched on.
read(f) ==
  [cpuPressure |-> IF f.dir THEN f.pressure ELSE {},
   workingSet  |-> IF f.dir /\ ExperimentalMemoryWorkingSet THEN readWorkingSet(f) ELSE {}]

\* evaluate: a disabled input is over no threshold.
CPUSaturated(smp)      == \E p \in smp.cpuPressure : p > CPUPressureThreshold
MemoryOver(smp, ratio) == \E w \in smp.workingSet : w.used * 100 >= ratio * w.limit
Hard(smp)              == MemoryOver(smp, WorkingSetSoftRatio) /\ MemoryOver(smp, WorkingSetHardRatio)
Saturated(smp)         == CPUSaturated(smp) \/ MemoryOver(smp, WorkingSetSoftRatio)
===============================================================================
