SPECIFICATION Spec
CONSTANTS
  Tasks = {a, b, c}
  NoTask = NoTask
  Mutexes = {r, s}
  Recursive = {r, s}
  configMAX_PRIORITIES = 3
  InitialPriority <- LowestPriority
  BlockTimes = {"finite", "forever"}
  MaxRecursion = 2
INVARIANTS
  TypeOK
  BasePriorityRestored
  HolderNotOutranked
  NoWaiterForgotten
SYMMETRY PermuteTasksAndMutexes
CHECK_DEADLOCK FALSE
