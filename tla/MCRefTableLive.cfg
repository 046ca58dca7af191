SPECIFICATION FairSpec
CONSTANTS
  Processes = {p1, p2}
  Main = Main
  Loop = Loop
  Objects = {o1, o2}
  None = None
  NoThread = NoThread
  MaxId = 2
  Strays = {}
  HandlesPrivate = TRUE
PROPERTIES
  CommandsReturn
  ExitReturns
  LoopGivesBack
