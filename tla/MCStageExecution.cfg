CONSTANTS
  Entries = 2
  GpuSlots <- MCOneGpu
  MaxStage = 2
  MaxGen = 3
  MaxInterrupt = 2
SPECIFICATION FairSpec
CHECK_DEADLOCK FALSE
INVARIANTS
  NormalEndLeavesNothing
  OneWorkerPerSlot
  MarkerCoversWorkers
PROPERTIES
  RunEnds
