SPECIFICATION Spec
CONSTANTS
  MaxServers = 1
  MaxClients = 1
  MaxConns = 1
  MaxStamps = 3
  MaxEvents = 2
CHECK_DEADLOCK FALSE
INVARIANT
  NoEventDropped
