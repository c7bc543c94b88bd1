SPECIFICATION FairSpec
CONSTANTS
  NFiles = 3
  TotalPackets <- MCTotalPackets
  Window = 2
  InitSend = 2
  InitBitmaps <- MCAnyBitmap
INVARIANTS SavedComplete AcksHonest FinishMeansAll
PROPERTIES StoredForGood TransferImplemented Completes
CHECK_DEADLOCK FALSE
