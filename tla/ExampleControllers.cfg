SPECIFICATION FairSpec
CONSTANTS
  Clients = {"controller", "user"}
  Setters = {"set_full_collision_behavior"}
  Controllers <- MCControllers
  MaxActivations = 2
INVARIANTS
  TypeOK
  FreshStart
  EveryUpdateCommands
PROPERTIES
  ConfigureEnds
  DestructorReturns
CHECK_DEADLOCK FALSE
