SPECIFICATION Spec
CONSTANTS
  ulReloadValueForOneTick = 3
  xMaximumPossibleSuppressedTicks = 3
  IdleThreshold = 2
  MaxIdle = 4
  Levels = {slow, fast}
  slow = slow
  fast = fast
INVARIANT StepFitsIdleTime
