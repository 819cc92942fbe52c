SPECIFICATION FairSpec
CONSTANTS
  Controllers = {"torque", "speed", "posture", "twist", "twist_elbow", "pose", "pose_elbow", "all", "gripper"}
  Uses <- MCUses
  Discipline = {"one_at_a_time", "stop_before_start", "idle_before_deactivate"}
  MaxFaults = 0
INVARIANTS
  CommandReachesItsMode
  SwitchedModeHasControl
  HeldModesRun
PROPERTIES
  SessionIsCommanded
