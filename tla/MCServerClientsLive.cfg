SPECIFICATION FairSpec
CONSTANTS
  Conns = {c1, c2}
  NoConn = NoConn
  MaxMessages = 0
  MaxCommands = 1
INVARIANT
  CommandComplete
PROPERTIES
  StopEmptiesMaps
  Announced
