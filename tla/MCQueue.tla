------------------------------- MODULE MCQueue -------------------------------
\* Queue on small instances.
EXTENDS Queue
DifferentPriorities ==
  CHOOSE priority \in [Tasks -> 1 .. Cardinality(Tasks)] : IsInjective(priority)
PermuteItems == Permutations(Items)
=============================================================================
