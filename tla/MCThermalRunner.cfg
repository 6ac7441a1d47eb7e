SPECIFICATION Spec
CONSTANTS
  Drives = {1, 2}
  MaxRuns = 2
  MaxMishaps = 2
INVARIANTS
  DescriptorOutlivesWorker
  VerdictTruthful
PROPERTIES
  NoLaunchInEmergency
  RunEnds
CHECK_DEADLOCK FALSE
