SPECIFICATION Spec
CONSTANTS
  r1 = r1
  r2 = r2
  r3 = r3
  None = None
  pods = pods
  events = events
  pod = pod
  Pod = Pod
  Event = Event
  Requests <- Requests2
  Resources <- Resources2
  Kinds <- Kinds2
  KindFor <- KindFor2
  Asks <- Asks2
INVARIANTS
  EnsureSucceeds
CHECK_DEADLOCK FALSE
