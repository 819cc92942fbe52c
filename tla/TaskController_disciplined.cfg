SPECIFICATION FairSpec
CONSTANTS
  WarmUp = TRUE
  MaxActivations = 2
  MaxGoals = 4
  Discipline = {"server_up", "timer_in_time", "settles_first", "configured", "hand_in_order"}
PROPERTIES
  GraspIsSentInGrasp
  GraspEndsOnOwnResult
  HandRestsWhenGrasped
  TaskEnds
  EveryRequestIsSent
CHECK_DEADLOCK FALSE
