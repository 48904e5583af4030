SPECIFICATION Spec
CONSTANTS
    Confs = 2
    Iterations = 2
    MaxFaults = 2
    Setups <- MCSetups
INVARIANTS
    QuietAfterIteration
    FlowsAreCovered
    OwnResults
CHECK_DEADLOCK FALSE
