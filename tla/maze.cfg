SPECIFICATION FairSpec
CONSTANTS
  Rows = 5
  Columns = 5
  RX = 1
  RY = 2
  Starts <- MCStarts
  Mazes <- MCMazes
INVARIANTS InStep MapTrue AnswerRight
PROPERTY Ends
CHECK_DEADLOCK FALSE
