SPECIFICATION Spec
CONSTANTS
  Tasks = {a, b}
  Idle = idle
  NoTask = NoTask
  MaxPriority = 1
  InitialPriority <- SamePriority
  MaxDelay = 2
  IdleThreshold = 2
  SleepMargin = 1
  Calls = {"ulTaskNotifyTake", "xTaskNotifyWait", "xTaskNotify", "xTaskNotifyFromISR", "xTaskNotifyStateClear", "vTaskSuspendAll"}
  Delays = {1}
  MaxNesting = 1
  MaxPended = 1
INVARIANTS
  NotificationNotLost
  NothingPendingWhenRunning
  NoAssertFails
SYMMETRY PermuteTasks
