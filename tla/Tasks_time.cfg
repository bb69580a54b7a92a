SPECIFICATION Spec
CONSTANTS
  Tasks = {a, b}
  Idle = idle
  NoTask = NoTask
  MaxPriority = 1
  InitialPriority <- SamePriority
  MaxDelay = 3
  IdleThreshold = 2
  SleepMargin = 1
  Calls = {"xTaskCreate", "vTaskDelay", "vTaskDelayUntil", "vTaskSuspend", "vTaskResume"}
  Delays = {1, 2, 3}
  MaxNesting = 1
  MaxPended = 2
INVARIANTS
  TypeOK
  NoTaskOverdue
  SleepsOnlyWhenIdle
PROPERTIES
  TimeoutsKeepTime
  PeriodKept
  IsScheduler
