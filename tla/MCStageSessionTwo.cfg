CONSTANTS
  d1 = d1
  d2 = d2
  Devices <- MCTwoDevices
  MaxSession = 1
  MaxCrash = 1
SPECIFICATION FairSpec
CHECK_DEADLOCK FALSE
INVARIANTS
  CleanFinishLeavesNothing
  ReportMatchesCommits
PROPERTIES
  GatesAreStageGates
  FinishTerminates
  OrphanedSupervisorEnds
