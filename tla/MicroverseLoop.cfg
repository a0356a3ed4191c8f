SPECIFICATION Spec
CONSTANTS
    MaxExp = 2
    TargetGain = 2
    FailureLimit = 2
    MaxUpsets = 2
    MaxEdits = 1
INVARIANTS
    PromotionRecorded
    LedgerAgrees
PROPERTIES
    RejectedEvidenceKept
    AttemptSettles
CHECK_DEADLOCK FALSE
