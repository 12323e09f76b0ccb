SPECIFICATION ComponentsSpec
CONSTANTS
  Exercised = {"LogStreamLifecycle", "VirtualPaths", "ServiceListener"}
  LogRequests = {"r1", "r2", "r3"}
  Streams = {"r1", "r2"}
  Unread = {"r2"}
  WaitSlices = 1
  ReplaceBudget = 1
  Paths <- MCPaths
  Methods = {"GET", "POST"}
  PathOffers <- MCPathOffers
  PatternOffers <- MCPatternOffers
  Owners = {"a", "b", "d"}
  ServiceNames = {"store", "other"}
  NameOf <- MCNameOf
  Matching = {"a", "b"}
  RegistrationBudget = 2
INVARIANTS
  LogStreamTypeOK CountIsExact ServedFromMappedCode
  VirtualPathsTypeOK SpecializationHolds ServedByTheDeepest
  ServiceListenerTypeOK NoServiceMissed ToldOnce StaleOnlyFromInit
PROPERTIES
  NobodyEntersAStoppedBundle StopReturns StreamsAreClosed
  OthersGoOnServing ImplementsGate
CHECK_DEADLOCK FALSE
