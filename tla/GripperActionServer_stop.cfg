SPECIFICATION Spec
CONSTANTS
  Goals = {"open", "grip"}
  Task <- MCTask
  Target <- MCTarget
  MaxWidth = 1
  Discipline = {"waits_for_result"}
  MaxFaults = 0
INVARIANTS
  StopAborts
CHECK_DEADLOCK FALSE
