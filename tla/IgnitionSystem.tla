--------------------------- MODULE IgnitionSystem ---------------------------
(***************************************************************************)
(* ign_ros2_control::IgnitionSystem, the hardware component of the         *)
(* simulated robot: for each joint it keeps the interfaces that drive it   *)
(* (joint_control_method) and the commands the controllers wrote, and      *)
(* write() turns them into command components of the simulation.           *)
(*                                                                         *)
(* A component that carries a command is a tuple: the interface and the    *)
(* controller it came from, or the joint it mimics.  Values, units and the *)
(* sensors are left out.                                                   *)
(***************************************************************************)
EXTENDS Integers, Sequences, FiniteSets

CONSTANTS
  N,            \* number of joints of the component
  InModel,      \* those that are in the simulated model
  Offers,       \* the command interfaces of each joint
  Mimics,       \* a mimic joint's <<mimicked joint, its first state interface>>
  Controllers,  \* the controllers that can be loaded
  Claims,       \* the <<joint, interface>> pairs each controller claims
  ArmJoints     \* the size of the arrays of joint positions and efforts (7)

Interfaces == {"position", "velocity", "effort"}   \* ControlMethod_
Joints     == 1 .. N
Nobody     == "nobody"

ASSUME JointsAssumption ==
  /\ N \in Nat /\ ArmJoints \in Nat
  /\ InModel \subseteq Joints
  /\ Offers \in [Joints -> SUBSET Interfaces]
  /\ \A j \in DOMAIN Mimics : j \in Joints /\ Mimics[j][1] \in Joints
  /\ Claims \in [Controllers -> SUBSET (Joints \X Interfaces)]
  /\ \A c \in Controllers : \A p \in Claims[c] : p[2] \in Offers[p[1]]
  /\ Nobody \notin Controllers

VARIABLES
  method,     \* joint_control_method
  cmd,        \* joint_position_cmd, joint_velocity_cmd, joint_effort_cmd:
              \* the controller that wrote each
  velocity,   \* JointVelocityCmd of each joint
  force       \* JointForceCmd of each joint

joints == <<method, cmd, velocity, force>>

Absent == <<"absent">>   \* the joint has no such component
Zero   == <<"zero">>

Sources == Interfaces \X (Controllers \cup {Nobody})
Command == {Absent, Zero}
           \cup Sources
           \cup {<<"effort", c, "plus garbage">> : c \in Controllers \cup {Nobody}}
           \cup {<<"mimic", j>> : j \in Joints}

JointsTypeOK ==
  /\ method \in [Joints -> SUBSET Interfaces]
  /\ cmd \in [Joints -> [Interfaces -> Controllers \cup {Nobody}]]
  /\ velocity \in [Joints -> Command]
  /\ force \in [Joints -> Command]

\* initSim() lets every joint that offers efforts be driven by them, so that
\* its weight is compensated before a controller starts.
initSim ==
  /\ method = [j \in Joints |-> IF j \in InModel THEN Offers[j] \cap {"effort"} ELSE {}]
  /\ cmd = [j \in Joints |-> [i \in Interfaces |-> Nobody]]
  /\ velocity = [j \in Joints |-> Absent]
  /\ force = [j \in Joints |-> Absent]

\* The interfaces a mimic joint follows: the search ends at the first state
\* interface, and efforts are followed when that one is the velocity.
InterfacesToMimic(j) ==
  CASE Mimics[j][2] = "position" -> {"position"}
    [] Mimics[j][2] = "velocity" -> {"velocity", "effort"}
    [] OTHER -> {}

-----------------------------------------------------------------------------
(* perform_command_mode_switch(start, stop)                                *)

ClaimsOf(cs) == UNION {Claims[c] : c \in cs}

On(j, ifaces) == {i \in Interfaces : <<j, i>> \in ifaces}

\* The masks that clear the stopped interfaces are zero, so that any stop clears
\* all of a joint's; those that start are set after it.
MethodAfter(m, started, stopped) ==
  IF stopped = {} THEN m \cup started ELSE started

perform_command_mode_switch(start, stop) ==
  method' = [j \in Joints |->
               MethodAfter(method[j], On(j, ClaimsOf(start)), On(j, ClaimsOf(stop)))]

-----------------------------------------------------------------------------
(* write()                                                                 *)

\* A component that is not there yet is created, with a zero; an existing one
\* gets the command.
CreateOrSet(component, command) ==
  IF component = Absent THEN Zero ELSE command

\* The branch that drives joint j, in the order of the tests.
Driver(j) ==
  IF j \notin InModel               THEN "none"
  ELSE IF "velocity" \in method[j]  THEN "velocity"
  ELSE IF "position" \in method[j]  THEN "position"
  ELSE IF "effort" \in method[j]    THEN "effort"
  ELSE IF Offers[j] # {}            THEN "rest"
  ELSE "none"

\* Slips: the velocity of a position error is set once, when its component is
\* created; a joint that nothing drives is left alone.
VelocityOfFirst(j) ==
  CASE Driver(j) = "velocity" -> CreateOrSet(velocity[j], <<"velocity", cmd[j]["velocity"]>>)
    [] Driver(j) = "position" /\ velocity[j] = Absent -> <<"position", cmd[j]["position"]>>
    [] Driver(j) = "rest"     -> Zero
    [] OTHER -> velocity[j]

VelocityOfDriven(j) ==
  CASE Driver(j) = "velocity" -> CreateOrSet(velocity[j], <<"velocity", cmd[j]["velocity"]>>)
    [] Driver(j) = "position" -> <<"position", cmd[j]["position"]>>
    [] OTHER -> velocity[j]

VelocityOf(j) ==
  CASE Driver(j) = "velocity" -> CreateOrSet(velocity[j], <<"velocity", cmd[j]["velocity"]>>)
    [] Driver(j) = "position" -> <<"position", cmd[j]["position"]>>
    [] Driver(j) = "rest"     -> Zero
    [] OTHER -> velocity[j]

\* The torque against gravity is read at the joint's index from an array of
\* ArmJoints entries, beyond which it is whatever lies there.
EffortOf(j) ==
  IF j <= ArmJoints THEN <<"effort", cmd[j]["effort"]>>
                    ELSE <<"effort", cmd[j]["effort"], "plus garbage">>

ForceOf(j) ==
  IF Driver(j) = "effort" THEN CreateOrSet(force[j], EffortOf(j)) ELSE force[j]

\* The mimic joints are set after all the others, whatever drove them.
Follows(j, i) == j \in DOMAIN Mimics /\ i \in InterfacesToMimic(j)

write ==
  /\ velocity' =
       [j \in Joints |->
          CASE Follows(j, "position") -> <<"mimic", Mimics[j][1]>>
            [] Follows(j, "velocity") -> CreateOrSet(VelocityOf(j), <<"mimic", Mimics[j][1]>>)
            [] OTHER -> VelocityOf(j)]
  /\ force' =
       [j \in Joints |->
          IF Follows(j, "effort")
          THEN CreateOrSet(ForceOf(j), <<"mimic", Mimics[j][1]>>) ELSE ForceOf(j)]
  /\ UNCHANGED <<method, cmd>>

\* The active controllers write the interfaces they claim (external).
Update(cs) ==
  cmd' = [j \in Joints |-> [i \in Interfaces |->
            IF \E c \in cs : <<j, i>> \in Claims[c]
            THEN CHOOSE c \in cs : <<j, i>> \in Claims[c] ELSE cmd[j][i]]]

\* A step of the simulation uses the commands up (external): the plugin sets
\* them again before each.
Simulate ==
  LET Used(component) == IF component = Absent THEN Absent ELSE Zero
  IN  /\ velocity' = [j \in Joints |-> Used(velocity[j])]
      /\ force' = [j \in Joints |-> Used(force[j])]
      /\ UNCHANGED <<method, cmd>>
=============================================================================
