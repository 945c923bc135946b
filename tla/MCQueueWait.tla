------------------------------ MODULE MCQueueWait ------------------------------
EXTENDS QueueWait, TLC

Symmetry == Permutations(Items) \cup Permutations(Callers) \cup Permutations(Workers)
===============================================================================
