SPECIFICATION FairSpec
CONSTANTS
  c1 = c1
  c2 = c2
  Clients <- MCClients
  None = None
  AddrBase = 2
  MyAddr = 4
  Header = 69
  Destinations <- MCEverybody
  MaxRequests = 2
  MaxInFlight = 2
  Faulty = FALSE
INVARIANTS ClientsSurvive ClientsAddressed
PROPERTIES ClientsComeUp TunServed
CHECK_DEADLOCK FALSE
