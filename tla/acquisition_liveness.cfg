SPECIFICATION FairSpec
CONSTANTS
  Commands <- AllCommands
  Faults = TRUE
  BatchLimit = 1
  MaxPendingFrames = 1
  CounterModulus = 4
  FrameBudget = 1
  CommandBudget = 2
  CrashBudget = 0
PROPERTIES
  CommandsAnswered
  ShutdownStopsReader
