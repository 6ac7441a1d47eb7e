SPECIFICATION Spec
CONSTANTS
  Managers = {m1, m2}
  MaxDirs = 3
  Commands = 2
  MaxMishaps = 2
  MaxCrashes = 2
  MaxMoves = 1
INVARIANTS
  InterruptedIsRecoverable
  RecordTruthful
PROPERTIES
  LiveInstallerKeepsItsEnvironment
  OperationEnds
CHECK_DEADLOCK FALSE
