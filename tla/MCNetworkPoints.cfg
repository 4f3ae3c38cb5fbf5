CONSTANTS
  P2P = 9
  MaxNumber = 5
  MaxPoint = 5
  Domain = 1
  Scenarios <- PointScenarios
  Reroutes <- MCReroutes
  MaxLost = 1
  MaxReroutes = 1
SPECIFICATION Spec
INVARIANTS AreaSpreads
CHECK_DEADLOCK FALSE
