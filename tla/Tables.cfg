SPECIFICATION FairSpec
CONSTANTS
  Requests = {r1, r2, r3}
  None = None
  Foo = Foo
  FooList = FooList
  Pod = Pod
  Odd = Odd
  foos = foos
  Types <- TypesMC
  Builtin <- BuiltinMC
  Convertible = {Pod}
  Crds = {foos}
  CrdOf <- CrdOfMC
  MaxEdits = 3
INVARIANTS
  TypeOK
  TablesStay
PROPERTIES
  FrozenOnceAnswered
  EveryRequestAnswered
CHECK_DEADLOCK FALSE
