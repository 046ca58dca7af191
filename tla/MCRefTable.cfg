SPECIFICATION Spec
CONSTANTS
  Processes = {p1, p2}
  Main = Main
  Loop = Loop
  Objects = {o1, o2, o3}
  None = None
  NoThread = NoThread
  MaxId = 3
  Strays = {0}
  HandlesPrivate = TRUE
SYMMETRY Symmetric
INVARIANTS
  TypeOK
  TableSound
  CallbackRefAlive
  NoQuietDrop
  CommandRefAlive
