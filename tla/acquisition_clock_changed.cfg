SPECIFICATION Spec
CONSTANTS
  Commands = {"divider-update-reference"}
  Faults = FALSE
  BatchLimit = 1
  MaxPendingFrames = 1
  CounterModulus = 4
  FrameBudget = 1
  CommandBudget = 1
  CrashBudget = 0
INVARIANTS
  RunningClockSafe
