SPECIFICATION FairSpec
CONSTANTS
  Requests = {r1, r2, r3}
  MaxIdle = 3
INVARIANTS
  TypeOK
  PanicNeedsFailedListen
  SignalIsNoError
  SocketIsServed
PROPERTIES
  CancelEndsProcess
  IdleEndsProcess
  FileIsKept
CHECK_DEADLOCK FALSE
