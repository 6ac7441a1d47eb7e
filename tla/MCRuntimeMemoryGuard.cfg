CONSTANTS
  w1 = w1
  w2 = w2
  Unread = Unread
  Workers <- MCWorkers
  Levels <- MCLevels
  Requests <- MCRequests
  Reserve = 2
  Emergency = 1
  EmergencySamples = 3
  MaxClaims = 3
SPECIFICATION FairSpec
CHECK_DEADLOCK FALSE
INVARIANTS
  GrowthWithinSample
PROPERTIES
  NoGrowthUnderPressure
  WorkersStop
