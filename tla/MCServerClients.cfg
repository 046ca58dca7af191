SPECIFICATION Spec
CONSTANTS
  Conns = {c1, c2, c3}
  NoConn = NoConn
  MaxMessages = 2
  MaxCommands = 0
SYMMETRY Symmetric
INVARIANTS
  TypeOK
  MapsAgree
  NoStaleEntry
  SessionWellFormed
  OnlyCloseOvertaken
