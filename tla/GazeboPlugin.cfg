SPECIFICATION Spec
CONSTANTS
  N = 4
  InModel = {1, 3, 4}
  Offers <- MCOffers
  Mimics <- MCMimics
  Controllers = {"torques", "positions", "velocities", "finger"}
  Claims <- MCClaims
  ArmJoints = 2
  Links <- MCLinks
  Root = "base"
  Children <- MCChildren
  Movable <- MCMovable
  Period = 2
  DefaultPeriod = 1
  JointsAreShared = FALSE
  MaxSwitches = 3
INVARIANTS
  TypeOK
  ReleasedJointRests
  ChainIsTheArm
PROPERTIES
  HeldJointObeysHolder
