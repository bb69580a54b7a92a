------------------------------- MODULE MCMutex -------------------------------
\* Mutex on small instances.
EXTENDS Mutex
LowestPriority == [t \in Tasks |-> 1]
\* Sound where all tasks start with the same priority.
PermuteTasksAndMutexes == Permutations(Tasks) \cup Permutations(Mutexes)
=============================================================================
