SPECIFICATION Spec
CONSTANTS
  Proxies = {p1, p2}
  Clients = {c1}
  Killers = {k1, k2}
  None = None
  Blank = Blank
  ClientDataRoot = d1
  DefaultDataRoot = d1
  MaxFaults = 0
SYMMETRY Symmetry
INVARIANTS
  NothingLeftBehind
  PanicNeedsRival
CHECK_DEADLOCK FALSE
