---------------------------- MODULE MCEventGroups ----------------------------
\* EventGroups on small instances.
EXTENDS EventGroups, TLC
SamePriority == [t \in Tasks |-> 1]
\* Sound where all tasks start with the same priority.
PermuteTasksAndBits == Permutations(Tasks) \cup Permutations(Bits)
\* Bound: one task at a time is between the two halves of the reset of its event item.
\* Each task resets an item of its own.
OneReset == Cardinality({t \in Tasks : pc[t] = "reset"}) <= 1
=============================================================================
