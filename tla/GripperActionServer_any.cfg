SPECIFICATION FairSpec
CONSTANTS
  Goals = {"home", "close_command", "wide"}
  Task <- MCTask
  Target <- MCTarget
  MaxWidth = 1
  Discipline = {}
  MaxFaults = 1
INVARIANTS
  TypeOK
  NoMotionAfterEnd
PROPERTIES
  ImplementsActionGoals
  EveryGoalEnds
CHECK_DEADLOCK FALSE
