SPECIFICATION Spec
CONSTANTS
  Actions = 4
  Operation <- MCOperation
  Inside <- MCInside
  MaxFaults = 2
  MaxTouched = 2
  MaxInterrupts = 2
INVARIANTS
  OriginalKept
  JournalWrittenAhead
  OutcomeTruthful
PROPERTIES
  LateWritesKept
CHECK_DEADLOCK FALSE
