SPECIFICATION SafetySpec
CONSTANTS
  BootOrder <- MCBootOrder
  BootVersion = 1
  Versions = {1, 2}
  Needs <- MCNeeds
  RunLevel <- MCRunLevel
  Self = "watcher"
  Deferred = {"ui"}
  Manageable = {}
  Deployable <- MCDeployable
  Faults = FALSE
  DeployBudget = 1
  RequestBudget = 0
  LoadBudget = 4
INVARIANT StoredIsLoaded
CHECK_DEADLOCK FALSE
