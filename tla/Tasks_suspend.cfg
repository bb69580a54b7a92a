SPECIFICATION Spec
CONSTANTS
  Tasks = {a, b}
  Idle = idle
  NoTask = NoTask
  MaxPriority = 1
  InitialPriority <- SamePriority
  MaxDelay = 2
  IdleThreshold = 2
  SleepMargin = 1
  Calls = {"vTaskSuspend", "vTaskResume", "xTaskResumeFromISR", "vTaskPrioritySet", "vTaskPlaceOnEventList", "xTaskRemoveFromEventList"}
  Delays = {1}
  MaxNesting = 1
  MaxPended = 0
INVARIANTS
  OneListPerItem
  TopReadyPriorityExact
PROPERTIES
  SwitchToHighest
  SuspendedNeverRuns
SYMMETRY PermuteTasks
