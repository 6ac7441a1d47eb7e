CONSTANTS
  g1 = g1
  g2 = g2
  primary = primary
  supervisor = supervisor
  None = None
  Guards <- MCGuards
  Revokers <- MCRevokers
  Owner = supervisor
  Deadline = 1
  Horizon = 2
SPECIFICATION FairSpec
CHECK_DEADLOCK FALSE
INVARIANTS
  AdmittedSampledBeforeRequest
  ConfirmedMeansNoneInFlight
  OneCommitAfterDeadline
PROPERTIES
  NoAdmissionAfterClosure
  ImplementsStageGate
  GuardsLeaveTheGate
