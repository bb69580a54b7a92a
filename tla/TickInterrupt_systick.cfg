SPECIFICATION Spec
CONSTANTS
  TickPriority = 15
  MaxSyscallPriority = 10
  MaxNesting = 2
  MaxInterrupts = 6
INVARIANT TicksConserved
PROPERTY KernelNotInterrupted
