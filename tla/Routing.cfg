SPECIFICATION Spec
CONSTANTS
  Bad = Bad
  ApiPrefix = "/"
  Queries <- QueriesMC
  Rejected <- RejectedMC
  Kinds = {"Pod", "Event", "EventsEvent", "Namespace", "Secret", "Foo"}
  Universe <- UniverseMC
INVARIANTS
  TypeOK
  CachedIsHandled
  ListMatchesServer
  NoSelectorIsLost
