SPECIFICATION Spec
CONSTANTS
  Recipes = {"SimpleNetwork", "XDPDrop", "Tunable", "CTInsertionRate", "RuleScale"}
  MaxAsked = 2
  MaxFaults = 1
INVARIANTS
  SettingsInEffect
  RemovalRestores
  RemovalBlockedOnlyBy
PROPERTIES
  AdaptiveOffFirst
CHECK_DEADLOCK FALSE
