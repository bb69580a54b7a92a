------------------------------- MODULE MCTasks -------------------------------
\* Tasks on small instances.
EXTENDS Tasks

SamePriority == [t \in AllTasks |-> IF t = Idle THEN 0 ELSE 1]

\* Sound where the priorities do not tell the tasks apart and no liveness is
\* checked.
PermuteTasks == Permutations(Tasks)
=============================================================================
