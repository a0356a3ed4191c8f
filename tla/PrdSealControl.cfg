CONSTANTS
  original = original
  revised = revised
  launcher = launcher
  operator = operator
  Contracts = {original, revised}
  NoContract = NoContract
  Processes = {launcher, operator}
  NoProcess = NoProcess
SPECIFICATION FairSpec
INVARIANTS
  ExecutionUnderItsSeal
PROPERTIES
  SealedContractStands
  SealedPrdBegins
