CONSTANTS
  Entries = 4
  Vulkan <- MCVulkan
  Allowance <- MCAllowance
  ReapTime = 2
  MaxCalls = 2
SPECIFICATION Spec
CHECK_DEADLOCK FALSE
INVARIANTS
  LateByOneReap
  CallBounded
  StoppedLeavesNone
PROPERTY NoEarlyKill
