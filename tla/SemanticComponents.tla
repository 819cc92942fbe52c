-------------------------- MODULE SemanticComponents --------------------------
(***************************************************************************)
(* The semantic components of franka_semantic_components/src that the      *)
(* example controllers use: handles on the interfaces a controller was     *)
(* loaned, and the checks a command passes.                                *)
(*                                                                         *)
(* Every activation loans a controller its interfaces anew.  handles is    *)
(* the sequence of activations whose interfaces a component holds:         *)
(* assigning appends the interfaces of one activation, a release drops all.*)
(***************************************************************************)
EXTENDS Naturals, Sequences

NoComponent == [elbow |-> FALSE, commands |-> 0, states |-> 0]

\* FrankaCartesianPoseInterface(command_elbow_active).
CartesianPoseInterface(elbow) ==
  [elbow |-> elbow, commands |-> IF elbow THEN 18 ELSE 16, states |-> IF elbow THEN 18 ELSE 16]

\* FrankaCartesianVelocityInterface(command_elbow_active).
CartesianVelocityInterface(elbow) ==
  [elbow |-> elbow, commands |-> IF elbow THEN 8 ELSE 6, states |-> IF elbow THEN 2 ELSE 0]

\* assign_loaned_*_interfaces(): get_ordered_interfaces() appends.
Assign(handles, activation) == Append(handles, activation)

release_interfaces == <<>>

\* set_values() compares the room of the vector with the number of interfaces.
set_values(component, capacity, handles) == capacity = component.commands * Len(handles)

\* setCommand() with a pose of 16 values, and the two of an elbow or not.
PoseCommandSize(withElbow) == IF withElbow THEN 16 + 2 ELSE 16

\* setCommand() with a twist of 6 values, and the two of an elbow or not.
VelocityCommandSize(withElbow) == IF withElbow THEN 6 + 2 ELSE 6

CommandSizeOf(component, withElbow) ==
  IF component.commands \in {16, 18} THEN PoseCommandSize(withElbow)
  ELSE VelocityCommandSize(withElbow)

\* Either setCommand(): the elbow has to be commanded exactly if it is claimed.
setCommand(component, withElbow, handles) ==
  /\ component.elbow = withElbow
  /\ set_values(component, CommandSizeOf(component, withElbow), handles)

\* FrankaRobotModel::initialize(): the pointers are read, once, through the
\* first of the interfaces with the right name; without one it throws.
initialize(handles, from) == IF from # 0 \/ handles = <<>> THEN from ELSE Head(handles)
=============================================================================
