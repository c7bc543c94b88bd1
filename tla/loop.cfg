SPECIFICATION Spec
CONSTANTS
  MaxClients = 2
  Fds <- MCFds3
  Backlog = 1
INVARIANTS TypeOK SlotsOpen NeverBlocks NobodyForgotten
PROPERTIES ConnectionsServed ClientsAccepted
CHECK_DEADLOCK FALSE
