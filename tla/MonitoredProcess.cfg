CONSTANTS
  MaxCalls = 2
  MaxCrashes = 1
SPECIFICATION MPSpec
INVARIANTS
  TreeIsRecorded
  SuccessLeavesNothing
  ForeignUntouched
PROPERTY CallReturns
CHECK_DEADLOCK FALSE
