SPECIFICATION Spec
CONSTANTS
  Kinds = {"cartesian impedance", "joint impedance", "gravity compensation"}
  Joints <- MCJoints
  EffortLimits <- MCEffortLimits
  m_delta_tau_max = 1
  MaxError = 1
  Stiffness = 1
  Poses <- MCPoses
  NaN = NaN
  Rest <- MCRest
  AnyEffort <- MCAnyEffort
  MaxActivations = 2
INVARIANTS
  TypeOK
  EffortWithinLimits
  FollowsWhatWasSent
  ActiveHoldsItsHandles
PROPERTIES
  TorqueRateBounded
CHECK_DEADLOCK FALSE
