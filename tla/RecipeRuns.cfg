SPECIFICATION Spec
CONSTANTS
  m1 = m1
  m2 = m2
  Machines <- BothMachines
  Matches <- OneOrTwo
  Names = {n1}
  Root = Root
  MaxRuns = 2
  Faults = {"raise", "death"}
INVARIANTS
  NothingMappedWhenIdle
  CleanupIsComplete
  NoForeignNamespaces
PROPERTIES
  TestStartsConnected
  RunReturns
CHECK_DEADLOCK FALSE
