SPECIFICATION Spec
CONSTANTS
  MaxJobs = 2
  AlarmPoints = {"select"}
INVARIANTS
  NothingLost
  CleanupCollectsKilled
PROPERTIES
  WaitReturns
CHECK_DEADLOCK FALSE
