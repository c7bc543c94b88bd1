SPECIFICATION Spec
CONSTANTS
  u1 = u1
  u2 = u2
  t1 = t1
  t2 = t2
  Users = {u1, u2}
  Texts = {}
  NoOne = NoOne
  NoText = NoText
  MaskText <- MCMaskText
  MaskName <- MCMaskName
  HistoryMax = 1
  Passwds = {p1}
  Rooms = {1, 2}
  Fds <- MCFds2
  Abrupt = TRUE
  EndReads <- AlwaysFalse
INVARIANTS RoomsConsistent SessionsDistinct SessionsSettled
PROPERTY LobbyImplemented
CHECK_DEADLOCK FALSE
