CONSTANTS
  Children = {c1, c2}
  Cancellers = {k1}
  Daemon = daemon
  NoId = none
  MaxKills = 1
SPECIFICATION CRSpec
INVARIANTS
  NothingForgotten
PROPERTY
  CancellationCompletes
CHECK_DEADLOCK FALSE
