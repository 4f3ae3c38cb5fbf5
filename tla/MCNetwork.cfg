CONSTANTS
  P2P = 9
  MaxNumber = 5
  MaxPoint = 5
  Domain = 1
  Scenarios <- MCScenarios
  Reroutes <- MCReroutes
  MaxLost = 2
  MaxReroutes = 1
SPECIFICATION Spec
INVARIANTS OneFate RelayedOnce NetMailResolved AreaSpreads
CHECK_DEADLOCK FALSE
