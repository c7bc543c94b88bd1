SPECIFICATION FairSpec
CONSTANTS
  N = 6
  Premises <- MCPremises
INVARIANTS SearchRight CheckedBoard
PROPERTY Finishes
CHECK_DEADLOCK FALSE
