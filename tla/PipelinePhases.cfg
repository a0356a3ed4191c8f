SPECIFICATION PPSpec
CONSTANTS
  first = first
  second = second
  Tickets = {first, second}
  Needs <- MCNeeds
  Catalog = 1
  Mechanisms = 2
  Shards = 1
  CheckStrategies = 1
  MaxHead = 2
  Environments = 2
  MaxEvidence = 2
  MaxUpsets = 1
INVARIANTS CompletedMeansReviewed RefusedHeadStaysRefused RefusalsFirst
PROPERTIES  RefusalWorkedOff
