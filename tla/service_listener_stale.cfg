SPECIFICATION ComponentsSpec
CONSTANTS
  Exercised = {"ServiceListener"}
  LogRequests = {"r1", "r2", "r3"}
  Streams = {"r1"}
  Unread = {}
  WaitSlices = 1
  ReplaceBudget = 1
  Paths <- MCPaths
  Methods = {"GET", "POST"}
  PathOffers <- MCPathOffers
  PatternOffers <- MCPatternOffers
  Owners = {"a", "b", "d"}
  ServiceNames = {"store", "other"}
  NameOf <- MCNameOf
  Matching = {"a", "b"}
  RegistrationBudget = 2
INVARIANT UnregisteredIsForgotten
CHECK_DEADLOCK FALSE
