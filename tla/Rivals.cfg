SPECIFICATION FairSpec
CONSTANTS
  Proxies = {p1, p2}
  Clients = {c1, c2}
  Killers = {}
  None = None
  Blank = Blank
  ClientDataRoot = d1
  DefaultDataRoot = d1
  MaxFaults = 0
PROPERTIES
  ServedDespiteRivals
CHECK_DEADLOCK FALSE
