SPECIFICATION Spec
CONSTANTS
  Tasks = {a, b, c}
  NoTask = NoTask
  Bits = {r, s}
  Priorities = {1, 2}
  InitialPriority <- SamePriority
  BlockTimes = {"none", "finite"}
  WaitOptions = {{}, {"clear", "all"}}
INVARIANTS
  TypeOK
  NoWaiterForgotten
  ReleasedWithItsBits
PROPERTIES
  SameWaitSameRelease
  
SYMMETRY PermuteTasksAndBits
CONSTRAINT OneReset
