SPECIFICATION Spec
CONSTANTS
  Actions = {"start", "divider-apply"}
  CallBudget = 2
  LaunchBudget = 2
  IncidentBudget = 1
INVARIANTS TypeOK AnsweredWasCarriedOut ManagerIsExclusive NeverGoesBack IInv
PROPERTIES ImplementsService CallReturns
CHECK_DEADLOCK FALSE
