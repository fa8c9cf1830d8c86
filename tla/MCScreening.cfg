SPECIFICATION ScreenSpec
CONSTANTS
  Workloads <- MCWorkloads
  Short = 1
  Middle = 2
  PerBucket = 1
  EarlyTurns = 2
  CohortSize = 2
  High = 2
  Low = 1
  Period = 2
  Hazards = {0, 5}
  Capacity = 6
INVARIANTS TurnsInOrder NothingLost CohortStaysActive ArrivalsFollowRate SimulatesLRU CohortsHit
PROPERTIES ScreeningEnds
CHECK_DEADLOCK FALSE
