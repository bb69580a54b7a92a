SPECIFICATION Spec
CONSTANTS
  TickPriority = 0
  MaxSyscallPriority = 10
  MaxNesting = 2
  MaxInterrupts = 6
INVARIANT TicksConserved
