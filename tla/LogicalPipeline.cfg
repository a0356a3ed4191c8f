CONSTANTS
  blue = blue
  green = green
  receipt1 = receipt1
  handoff1 = handoff1
  handoff2 = handoff2
  payload1 = payload1
  payload2 = payload2
  Lanes = {blue, green}
  NoLane = NoLane
  FirstLane = blue
  Requests = {handoff1}
  NoRequest = NoRequest
  Receipts = {receipt1}
  Payloads = {payload1, payload2}
  NoItem = NoItem
  ExclusiveOperation = TRUE
  MaxEvents = 6
SPECIFICATION FairSpec
CHECK_DEADLOCK FALSE
INVARIANTS
  FileValid
  RevisionAdmitsOneTarget
PROPERTIES
  NeverStuck
