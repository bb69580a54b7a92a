SPECIFICATION Spec
CONSTANTS
  Tasks = {a, b}
  NoTask = NoTask
  uxPriority <- DifferentPriorities
  Items = {x, y}
  Token = token
  BlockTimes = {"none", "finite"}
  MaxLength = 2
  MaxLocked = 2
INVARIANTS
  TypeOK
  NoReceiverForgotten
  NoSenderForgotten
PROPERTY IsFifo
SYMMETRY PermuteItems
