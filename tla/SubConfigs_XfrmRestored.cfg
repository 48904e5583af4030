SPECIFICATION Spec
CONSTANTS
  Recipes = {"SimpleNetwork", "XDPDrop", "Tunable", "CTInsertionRate", "RuleScale"}
  MaxAsked = 1
  MaxFaults = 0
INVARIANT XfrmRestored
CHECK_DEADLOCK FALSE
