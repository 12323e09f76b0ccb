SPECIFICATION Spec
CONSTANTS
  Commands = {"start", "stop"}
  Faults = FALSE
  BatchLimit = 2
  MaxPendingFrames = 3
  CounterModulus = 8
  FrameBudget = 3
  CommandBudget = 2
  CrashBudget = 1
INVARIANTS
  TypeOK
  QueueIsCurrent
  FrameAccounting
PROPERTIES
  NeverShowsOlder
  ImplementsFrameStream
