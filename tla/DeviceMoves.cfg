SPECIFICATION Spec
CONSTANTS
  Physical = {eth0}
  Soft = {br0}
  NetNs = {n1, n2}
  Root = Root
  MaxIdx = 2
  MaxOps = 2
  MaxRuns = 2
  Faults = {"timeout", "overflow", "raise"}
INVARIANTS
  ViewConsistent
  CommandsMeetTheirDevice
  OnlyStaleEventsFail
PROPERTIES
  MovesFromRootComplete
CHECK_DEADLOCK FALSE
