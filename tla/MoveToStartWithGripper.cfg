SPECIFICATION FairSpec
CONSTANTS
  Steps <- MCSteps
  max_iters = 3
  eps = 1
  Lower = 0
  Upper = 3
  Configurations = {0, 1, 2, 3}
  Goals = {0, 2}
  Targets = {3}
  Residues = {0, 1}
  move_duration = 2
  Periods = {1, 2}
  finish_tolerance = 1
  MaxActivations = 2
  MaxPushes = 1
INVARIANTS
  TypeOK
  GoalIsConfiguredOrSolved
PROPERTIES
  ReferenceKeepsPace
  MotionEnds
CHECK_DEADLOCK FALSE
