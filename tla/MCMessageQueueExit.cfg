SPECIFICATION Spec
CONSTANTS
  t1 = t1
  t2 = t2
  e1 = e1
  e2 = e2
  CallbackThreads = {t1, t2}
  Pollers = {p1}
  Loop = Loop
  Main = Main
  NoThread = NoThread
  Endpoints = {e1, e2}
  EndpointOf <- MCEndpointOf
  Methods = {onEvent, absent}
  Installed = {onEvent}
  MaxMessages = 3
  EndpointsStoppedFirst = FALSE
INVARIANT
  NoListRace
