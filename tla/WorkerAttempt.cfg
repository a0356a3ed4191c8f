CONSTANTS
  a = a
  b = b
  x = x
  Changes <- MCChanges
  InScope <- MCInScope
  MaxAttempts = 2
  MaxInterrupts = 1
  MaxSelfCommits = 1
  MaxOthers = 1
  MaxLate = 1
SYMMETRY MCSymmetry
SPECIFICATION WASpec
INVARIANTS
  AttemptPreserved
  RejectedLeavesNothing
PROPERTY
  DoneIsDelivered
CHECK_DEADLOCK FALSE
