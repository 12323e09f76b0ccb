SPECIFICATION Spec
CONSTANTS
  Actions = {"start"}
  CallBudget = 2
  LaunchBudget = 1
  IncidentBudget = 1
INVARIANT AnswerMeansCarriedOut
CHECK_DEADLOCK FALSE
