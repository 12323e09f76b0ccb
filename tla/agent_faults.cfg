SPECIFICATION ProcessSpec
CONSTANTS
  Commands <- AllCommands
  Faults = TRUE
  BatchLimit = 1
  MaxPendingFrames = 1
  CounterModulus = 4
  FrameBudget = 1
  CommandBudget = 2
  CrashBudget = 1
  Outputs = {0, 1, 3, 6}
  Radix = 2
  PowerUp <- MCPowerUp
  ApplyRequests <- MCApplyRequests
  References = {2}
  FallbackReference = 1
  SafeHz = 1
  Partitions = {"card"}
  DividerCommands = 2
  DividerFaults = 1
  DividerRestarts = 2
INVARIANTS
  NoUnmappedAccess FlagsAgree IInv
  ClockDividerTypeOK AppliedSurvives
PROPERTY StartedOnSafeClock
