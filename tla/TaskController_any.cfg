SPECIFICATION Spec
CONSTANTS
  WarmUp = FALSE
  MaxActivations = 2
  MaxGoals = 3
  Discipline = {}
INVARIANTS
  TypeOK
  OneGoalPerRequest
CHECK_DEADLOCK FALSE
