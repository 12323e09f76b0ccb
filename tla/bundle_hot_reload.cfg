SPECIFICATION SafetySpec
CONSTANTS
  BootOrder <- MCBootOrder
  BootVersion = 1
  Versions = {1, 2}
  Needs <- MCNeeds
  RunLevel <- MCRunLevel
  Self = "watcher"
  Deferred = {"ui"}
  Manageable = {"ui"}
  Deployable <- MCDeployable
  Faults = TRUE
  DeployBudget = 2
  RequestBudget = 1
  LoadBudget = 5
INVARIANTS RunsWhatIsStored IInv
PROPERTIES WatcherSpares StartedOnItsDependencies ImplementsDirectory
CHECK_DEADLOCK FALSE
