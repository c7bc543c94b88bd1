SPECIFICATION Spec
CONSTANTS
  c1 = c1
  c2 = c2
  Clients <- MCClients
  None = None
  AddrBase = 2
  MyAddr = 4
  Header = 69
  Destinations <- MCDestinations
  MaxRequests = 3
  MaxInFlight = 1
  Faulty = TRUE
INVARIANTS RoutesToHolder ServerKeepsItsAddress
PROPERTY PoolImplemented
CHECK_DEADLOCK FALSE
