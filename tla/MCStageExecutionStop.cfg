CONSTANTS
  Entries = 2
  GpuSlots <- MCTwoGpus
  MaxStage = 1
  MaxGen = 2
  MaxInterrupt = 1
SPECIFICATION Spec
CHECK_DEADLOCK FALSE
INVARIANT OperatorStopStopsWorkers
