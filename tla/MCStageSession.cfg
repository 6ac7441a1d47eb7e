CONSTANTS
  d1 = d1
  d2 = d2
  Devices <- MCOneDevice
  MaxSession = 2
  MaxCrash = 1
SPECIFICATION Spec
CHECK_DEADLOCK FALSE
INVARIANTS
  NoOverlapInProcess
  ExclusiveDevice
