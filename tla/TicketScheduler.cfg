CONSTANTS
  first = first
  second = second
  other = other
  NoTicket = NoTicket
  Tickets = {first, second, other}
  DependsOn <- Dependencies
  Position <- ManifestOrder
  Failures <- SomeFailures
  UnchangedLimit = 2
  MaxTicketFailures = 3
  TroubleBound = 3
SPECIFICATION FairSpec
INVARIANTS
  DoneNeedsDependencies
  AttemptsAreAuthorized
  ReleaseSeesNoQueuedTicket
PROPERTIES
  CancelledStaysInactive
  SessionEnds
CHECK_DEADLOCK FALSE
