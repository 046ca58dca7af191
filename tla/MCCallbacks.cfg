SPECIFICATION Spec
CONSTANTS
  MaxServers = 2
  MaxClients = 1
  MaxConns = 1
  MaxStamps = 3
  MaxEvents = 2
CHECK_DEADLOCK FALSE
INVARIANTS
  TypeOK
  MethodIsOwn
  ParamsInForce
  OnlyClientOpenDropped
  PollsPartition
  StaleBeforeFresh
