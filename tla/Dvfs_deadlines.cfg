SPECIFICATION Spec
CONSTANTS
  numberOfTasks = 3
  availableFrequencyLevels = 8
  frequencyStages <- DefaultStages
  mValues <- PllFactors
  TickParts = 330
  PeriodChoices = {2, 3, 4, 6, 12}
  ComputeChoices = {1, 2, 3}
  Horizon = 24
INVARIANTS
  TypeOK
  BudgetWithinJob
PROPERTIES
  LateByOneJobAtMost
  LevelSuffices
