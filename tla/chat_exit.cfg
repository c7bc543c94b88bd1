SPECIFICATION Spec
CONSTANTS
  u1 = u1
  u2 = u2
  t1 = t1
  t2 = t2
  Users = {u1, u2}
  Texts = {t1, t2}
  NoOne = NoOne
  NoText = NoText
  MaskText <- MCMaskText
  MaskName <- MCMaskName
  HistoryMax = 3
  Passwds = {p1}
  Rooms = {1}
  Fds <- MCFds2
  Abrupt = FALSE
  EndReads <- Boolean
INVARIANTS PinIsLine DeliveredToRoom SessionIsolation
PROPERTIES RoomLogsImplemented RoomIsTold
CHECK_DEADLOCK FALSE
