SPECIFICATION Spec
CONSTANTS
  Controllers = {"posture", "pose_elbow", "mixed"}
  Uses <- MCUses
  Discipline = {}
  MaxFaults = 1
INVARIANTS
  TypeOK
  ControlMatchesFlags
  FirstWriteAfterRead
