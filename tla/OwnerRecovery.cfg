CONSTANTS
  Modes = {"process", "tmux"}
  MaxSups = 3
  MaxEpoch <- Rollovers
  MaxEvents = 2
SPECIFICATION ORSpec
PROPERTIES
  RolloverOwned
  LiveOwnerStays
CHECK_DEADLOCK FALSE
