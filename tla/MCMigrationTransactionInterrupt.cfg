SPECIFICATION Spec
CONSTANTS
  Actions = 4
  Operation <- MCOperation
  Inside <- MCInside
  MaxFaults = 0
  MaxTouched = 0
  MaxInterrupts = 1
INVARIANTS
  OriginalSurvives
CHECK_DEADLOCK FALSE
