SPECIFICATION Spec
CONSTANTS
  Proxies = {p1, p2, p3}
  Clients = {c1}
  Killers = {}
  None = None
  Blank = Blank
  ClientDataRoot = d1
  DefaultDataRoot = d1
  MaxFaults = 0
INVARIANTS
  Exclusive
CHECK_DEADLOCK FALSE
