SPECIFICATION Spec
CONSTANTS
  Controllers = {"torque", "speed"}
  Uses <- MCUses
  Discipline = {"one_at_a_time", "idle_before_deactivate"}
  MaxFaults = 0
INVARIANTS
  SwitchedModeHasControl
