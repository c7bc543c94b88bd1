SPECIFICATION FairSpec
CONSTANTS
  NFiles = 3
  TotalPackets <- MCTotalPackets
  Window = 2
  InitSend = 2
  InitBitmaps <- MCNoBits
PROPERTY InitAckSent
CHECK_DEADLOCK FALSE
