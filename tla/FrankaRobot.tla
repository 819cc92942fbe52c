---------------------------- MODULE FrankaRobot ----------------------------
(***************************************************************************)
(* franka_hardware::Robot (franka_hardware/src/robot.cpp): the wrapper of  *)
(* the libfranka connection.  A robot is in at most one external control   *)
(* session (active_control_), and keeps one *_interface_active_ flag per   *)
(* control mode that decides how a command vector is dispatched.           *)
(*                                                                         *)
(* The operators act on a record s that has at least the fields            *)
(*   control   the mode of the session active_control_ holds, or NoControl *)
(*   active    the set of modes whose *_interface_active_ flag is set      *)
(*   measured  history: the command buffers loaded from a measured robot   *)
(*             state since the session began                               *)
(***************************************************************************)
EXTENDS Naturals

JointModes     == {"effort", "velocity", "position"}
CartesianModes == {"cartesian_velocity", "cartesian_pose_command"}
Modes          == JointModes \cup CartesianModes
Elbow          == "elbow_command"

\* The command interface types of the hardware: the five control modes and
\* the elbow, which is commanded along with a Cartesian mode only.
Kinds == Modes \cup {Elbow}

NoControl == "no_control"
Nowhere   == "nowhere"      \* the target of a writeOnce that throws

\* Length of each command vector.
CommandSize ==
  [k \in Kinds |-> CASE k \in JointModes -> 7
                     [] k = "cartesian_velocity" -> 6
                     [] k = "cartesian_pose_command" -> 16
                     [] k = Elbow -> 2]

kMaxNumberOfJoints                == 7
kMaxNumberOfCartesianVelocities   == 6
kMaxNumberOfCartesianPoseCommands == 16
kMaxNumberOfElbowCommands         == 2

\* A slip in stopRobot(): the session ends and the mode flags stay.
StopRobotKeepsFlags(s) ==
  IF s.control = NoControl THEN s ELSE [s EXCEPT !.control = NoControl]

\* stopRobot(): only a running session is ended, and its flags with it.
stopRobot(s) ==
  IF s.control = NoControl
  THEN s
  ELSE [s EXCEPT !.control = NoControl, !.active = {}]

\* initialize*Interface() when libfranka grants the session, at once or after
\* automaticErrorRecovery().  When it does not, the call throws before it
\* assigns anything, which the caller models.
initializeInterface(s, m) ==
  [s EXCEPT !.control = m, !.active = @ \cup {m}, !.measured = {}]

\* The joint writer writeOnce() dispatches to, in the order of its branches.
JointWriter(s) ==
  IF "effort" \in s.active THEN "effort"
  ELSE IF "velocity" \in s.active THEN "velocity" ELSE "position"

\* writeOnce(command): the mode as which a vector of the given size is sent.
\* Only an upper bound on the size is checked.
writeOnce(s, size) ==
  IF s.control = NoControl THEN Nowhere
  ELSE IF s.active \cap JointModes # {} /\ size <= kMaxNumberOfJoints
  THEN JointWriter(s)
  ELSE IF /\ "cartesian_velocity" \in s.active
          /\ size <= kMaxNumberOfCartesianVelocities
  THEN "cartesian_velocity"
  ELSE IF /\ "cartesian_pose_command" \in s.active
          /\ size <= kMaxNumberOfCartesianPoseCommands
  THEN "cartesian_pose_command"
  ELSE Nowhere

\* writeOnce(cartesian_command, elbow_command): both sizes must be exact.
writeOnceWithElbow(s, size, elbowSize) ==
  IF s.control = NoControl \/ elbowSize # kMaxNumberOfElbowCommands
  THEN Nowhere
  ELSE IF /\ "cartesian_velocity" \in s.active
          /\ size = kMaxNumberOfCartesianVelocities
  THEN "cartesian_velocity"
  ELSE IF /\ "cartesian_pose_command" \in s.active
          /\ size = kMaxNumberOfCartesianPoseCommands
  THEN "cartesian_pose_command"
  ELSE Nowhere
=============================================================================
