SPECIFICATION FairSpec
CONSTANTS
  Proxies = {p1, p2}
  Clients = {c1}
  Killers = {k1}
  None = None
  Blank = Blank
  ClientDataRoot = d1
  DefaultDataRoot = d1
  MaxFaults = 0
PROPERTIES
  ClientServed
  CancelledProxyEnds
  WaitReturns
CHECK_DEADLOCK FALSE
