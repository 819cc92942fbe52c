----------------------- MODULE MCGripperActionServer -----------------------
(***************************************************************************)
(* GripperActionServer for TLC: goals by name.  Widths are 0 (closed) to   *)
(* MaxWidth; "wide" asks for a width the gripper does not have.            *)
(***************************************************************************)
EXTENDS GripperActionServer

MCTask ==
  [g \in Goals |-> CASE g = "home" -> "homing"
                     [] g = "open" -> "move"
                     [] g = "grip" -> "grasp"
                     [] OTHER -> "gripper_command"]

MCTarget ==
  [g \in Goals |-> CASE g \in {"home", "grip", "close_command"} -> 0
                     [] g = "wide" -> MaxWidth + 1
                     [] OTHER -> MaxWidth]
=============================================================================
