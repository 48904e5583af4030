SPECIFICATION Spec
CONSTANTS
  PoolSets <- MCPoolSets
  Calls <- MCCalls
  MaxCalls = 2
  None = None
INVARIANTS
  SearchConsistent
  YieldsMatches
  YieldsAll
  YieldsOnce
PROPERTIES
  SearchReturns
CHECK_DEADLOCK FALSE
