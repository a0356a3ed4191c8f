CONSTANTS
  writer1 = writer1
  writer2 = writer2
  writer3 = writer3
  reader = reader
  Writers = {writer1, writer2}
  Readers = {reader}
  NoProcess = NoProcess
  StaleAtOnce = FALSE
  MaxDeaths = 2
SPECIFICATION FairSpec
CHECK_DEADLOCK FALSE
INVARIANTS
  MutualExclusion
  NoLostUpdate
PROPERTIES
  CallersFinish
