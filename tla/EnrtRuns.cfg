SPECIFICATION Spec
CONSTANTS
  Recipes <- AllRecipes
  MTUs = {0, 1280, 9000}
  MayFail = TRUE
INVARIANTS
  StepsAccepted
  AddressesInOrder
  PingPairsAsPromised
  MtuRestored
  RunsGiveBack
CHECK_DEADLOCK FALSE
