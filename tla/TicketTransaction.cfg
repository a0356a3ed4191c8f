CONSTANTS
  process1 = process1
  process2 = process2
  process3 = process3
  manifest = manifest
  stateJson = stateJson
  Processes = {process1, process2}
  Files = {manifest, stateJson}
  StateJson = stateJson
  Requests <- MCRequests
  Original = Original
  NoProcess = NoProcess
  MaxChanges = 2
  MaxDeaths = 1
SPECIFICATION FairSpec
INVARIANTS
  OneTransaction
PROPERTIES
  ImplementsAtomicFiles
  InterruptedIsUndone
CHECK_DEADLOCK FALSE
