CONSTANTS
  P2P = 9
  MaxNumber = 5
  MaxPoint = 5
  Domain = 1
  Lines <- MCLines
  Contexts <- MCContexts
  AppKeys = {"k1"}
  MaxLines = 4
  MaxRefusals = 1
SPECIFICATION Spec
INVARIANTS BranchesAreReal SegmentsAgree
CHECK_DEADLOCK FALSE
