SPECIFICATION Spec
CONSTANTS
  MaxJobs = 1
  AlarmPoints = {"select"}
INVARIANT
  UpdatesHandledFirst
CHECK_DEADLOCK FALSE
