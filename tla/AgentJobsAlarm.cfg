SPECIFICATION Spec
CONSTANTS
  MaxJobs = 2
  AlarmPoints = {"select", "recv", "process"}
INVARIANTS
  ReportedOnce
PROPERTIES
  RpcReturns
  KilledIsReported
  ImplementsService
CHECK_DEADLOCK FALSE
