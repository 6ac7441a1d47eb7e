SPECIFICATION Spec
CONSTANTS
  NStages = 2
  Drives = 2
  MaxMishaps = 2
INVARIANTS
  CompletedIsTrue
  HeardStopEndsRun
PROPERTIES
  NoVerdictLowered
  ClockStands
CHECK_DEADLOCK FALSE
