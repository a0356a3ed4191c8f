CONSTANTS
  blue = blue
  green = green
  receipt1 = receipt1
  handoff1 = handoff1
  handoff2 = handoff2
  payload1 = payload1
  payload2 = payload2
  Lanes = {blue, green}
  NoLane = NoLane
  FirstLane = blue
  Requests = {handoff1, handoff2}
  NoRequest = NoRequest
  Receipts = {receipt1}
  Payloads = {payload1}
  NoItem = NoItem
  ExclusiveOperation = FALSE
  MaxEvents = 6
SYMMETRY Names
SPECIFICATION Spec
CHECK_DEADLOCK FALSE
INVARIANTS
  FencedWrites
PROPERTIES
  NoLeaseTheft
  ImplementsFencedOwnership
