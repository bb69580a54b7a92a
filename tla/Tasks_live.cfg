SPECIFICATION FairSpec
CONSTANTS
  Tasks = {a, b}
  Idle = idle
  NoTask = NoTask
  MaxPriority = 1
  InitialPriority <- SamePriority
  MaxDelay = 3
  IdleThreshold = 2
  SleepMargin = 1
  Calls = {"vTaskDelay", "taskYIELD"}
  Delays = {1, 2}
  MaxNesting = 1
  MaxPended = 1
PROPERTIES
  ReadyTaskRuns
  DelayedTaskWakes
