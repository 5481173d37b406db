SPECIFICATION FairSpec
CONSTANTS
  Proxies = {p1}
  Clients = {c1}
  Killers = {}
  None = None
  Blank = Blank
  ClientDataRoot = d2
  DefaultDataRoot = d1
  MaxFaults = 0
PROPERTIES
  EveryClientServed
CHECK_DEADLOCK FALSE
