SPECIFICATION FairSpec
CONSTANTS
  h1 = h1
  s1 = s1
  s2 = s2
  Clients <- MCClients
  None = None
  Port <- MCPort
  Requests <- MCRequests
  Garbage <- MCGarbage
  Fds = {4, 5, 6}
  Capacity = 2
INVARIANTS DescriptorsOwned DefinedWhileSmall
PROPERTY HttpAnswered
CHECK_DEADLOCK FALSE
