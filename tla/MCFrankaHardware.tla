-------------------------- MODULE MCFrankaHardware --------------------------
(***************************************************************************)
(* FrankaHardware for TLC: the controllers of a run by name, each with the *)
(* interfaces it claims.  "torque", "speed" and "posture" command the      *)
(* joints, "twist" and "pose" the tool, "twist_elbow" and "pose_elbow" the *)
(* tool and the elbow.  "elbow" commands the elbow alone, "mixed" claims   *)
(* all efforts and one joint position, "all" every interface (the default  *)
(* of a controller that configures none), "gripper" other hardware only.   *)
(***************************************************************************)
EXTENDS FrankaHardware

All(ks) == {x \in Exported : x[1] \in ks}

MCUses ==
  [c \in Controllers |->
     CASE c = "torque"      -> All({"effort"})
       [] c = "speed"       -> All({"velocity"})
       [] c = "posture"     -> All({"position"})
       [] c = "twist"       -> All({"cartesian_velocity"})
       [] c = "twist_elbow" -> All({"cartesian_velocity", Elbow})
       [] c = "pose"        -> All({"cartesian_pose_command"})
       [] c = "pose_elbow"  -> All({"cartesian_pose_command", Elbow})
       [] c = "elbow"       -> All({Elbow})
       [] c = "mixed"       -> All({"effort"}) \cup {<<"position", 1>>}
       [] c = "all"         -> Exported
       [] c = "gripper"     -> {<<"gripper", 1>>}]
=============================================================================
