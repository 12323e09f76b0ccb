SPECIFICATION Spec
CONSTANTS
  BootOrder <- MCBootOrder
  BootVersion = 1
  Versions = {1, 2}
  Needs <- MCNoNeeds
  RunLevel <- MCRunLevel
  Self = "watcher"
  Deferred = {"ui"}
  Manageable = {}
  Deployable <- MCDeployable
  Faults = FALSE
  DeployBudget = 1
  RequestBudget = 0
  LoadBudget = 4
PROPERTY ShutdownEnds
CHECK_DEADLOCK FALSE
