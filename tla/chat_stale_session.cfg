SPECIFICATION Spec
CONSTANTS
  u1 = u1
  u2 = u2
  t1 = t1
  t2 = t2
  Users = {u1}
  Texts = {}
  NoOne = NoOne
  NoText = NoText
  MaskText <- MCMaskText
  MaskName <- MCMaskName
  HistoryMax = 1
  Passwds = {p1}
  Rooms = {1}
  Fds <- MCFds2
  Abrupt = TRUE
  EndReads <- AlwaysFalse
INVARIANT SessionNeedsLogin
CHECK_DEADLOCK FALSE
