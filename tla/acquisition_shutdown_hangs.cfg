SPECIFICATION FairSpec
CONSTANTS
  Commands = {}
  Faults = FALSE
  BatchLimit = 1
  MaxPendingFrames = 1
  CounterModulus = 4
  FrameBudget = 1
  CommandBudget = 0
  CrashBudget = 0
PROPERTIES
  ShutdownCompletes
