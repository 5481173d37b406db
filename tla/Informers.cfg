SPECIFICATION FairSpec
CONSTANTS
  r1 = r1
  r2 = r2
  r3 = r3
  None = None
  pods = pods
  events = events
  pod = pod
  Pod = Pod
  Event = Event
  Requests <- Requests3
  Resources <- Resources3
  Kinds <- Kinds2
  KindFor <- KindFor3
  Asks <- Asks3
INVARIANTS
  TypeOK
  ReadsAreIndexed
  ConflictNeedsAbort
PROPERTIES
  ImplementsService
  EveryRequestEnds
CHECK_DEADLOCK FALSE
