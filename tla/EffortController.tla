--------------------------- MODULE EffortController ---------------------------
(***************************************************************************)
(* The controllers of ros2_effort_controller: EffortControllerBase and the *)
(* three controllers that derive from it, the Cartesian impedance, the     *)
(* joint impedance and the gravity compensation controller.                *)
(*                                                                         *)
(* A frame is a rotation and a position, both from Poses.  Efforts are     *)
(* integers or NaN: the torque of a joint is the restoring torque towards  *)
(* the frame that is followed, the external torque, and any of Rest for    *)
(* the damping, the compensations and the null space.  The subscriptions   *)
(* run in the executor's threads, the other callbacks in the control loop. *)
(***************************************************************************)
EXTENDS Integers

CONSTANTS
  Kinds,              \* the controllers an instance of the model may be
  Joints,             \* the joints, by their index
  EffortLimits,       \* EffortLimits[j]: from the URDF, or Unlimited
  m_delta_tau_max,    \* bound of the change of an effort in one cycle
  MaxError,           \* max_angle and max_distance
  Stiffness,          \* of the impedance
  Poses,              \* where the arm may be, and be sent
  NaN,                \* what is no number
  Rest,               \* the other terms of the torque of a joint
  AnyEffort,          \* what an uninitialised element of a vector may hold
  MaxActivations      \* bound: activations of one controller

\* The limit of a CONTINUOUS joint is NaN, which clamps nothing.
Unlimited == -1

ASSUME EffortAssumption ==
  /\ Kinds \subseteq {"cartesian impedance", "joint impedance", "gravity compensation"}
  /\ Joints \subseteq Nat
  /\ EffortLimits \in [Joints -> Nat \cup {Unlimited}]
  /\ m_delta_tau_max \in Nat /\ MaxError \in Nat /\ Stiffness \in Nat
  /\ Poses \subseteq Int /\ Poses # {}
  /\ NaN \notin Int
  /\ Rest \subseteq Int \cup {NaN} /\ 0 \in Rest /\ AnyEffort \subseteq Int \cup {NaN}
  /\ MaxActivations \in Nat

VARIABLES
  kind,             \* which controller this is
  life,             \* its state, "undefined" once it ran into undefined behaviour
  m_configured,     \* the base was configured
  m_active,         \* the base was activated
  m_command_current_configuration_,  \* set for KUKA: positions are written too
  positionHandles,  \* m_joint_cmd_pos_handles, by the number of handles per joint
  handles,          \* the effort, position and velocity handles, likewise
  m_efforts,        \* the efforts of the last cycle
  command,          \* the effort interfaces
  m_target_frame,   \* the frame commanded last
  m_q_desired,      \* the joint solution that is followed, by its frame
  m_target_wrench,  \* the torque that the wrench commanded last asks for
  incoming,         \* the frame a subscription stores, and what is left of it
  transforming,     \* a subscription turns a wrench into the base frame
  pose,             \* where the arm is
  fresh,            \* history: nothing was written since the activation
  sent,             \* history: poses this activation was sent, or started at
  latest,           \* history: the last of them
  overtaken,        \* history: the target whose callback the activation fell into
  activations       \* history: number of activations

control == <<m_efforts, command, fresh>>
targets == <<m_target_frame, m_q_desired, m_target_wrench>>
subscriptions == <<incoming, transforming>>
base == <<m_configured, m_command_current_configuration_, m_active,
          positionHandles, handles>>
history == <<sent, latest, overtaken>>
vars == <<kind, life, base, control, targets, subscriptions, pose, history, activations>>

Frames == [rotation : Poses, position : Poses]
At(p) == [rotation |-> p, position |-> p]
Nothing == [j \in Joints |-> 0]
Efforts == Int \cup {NaN}

TypeOK ==
  /\ kind \in Kinds
  /\ life \in {"unconfigured", "inactive", "active", "finalized", "undefined"}
  /\ m_configured \in BOOLEAN /\ m_active \in BOOLEAN
  /\ m_command_current_configuration_ \in BOOLEAN
  /\ positionHandles \in Nat /\ handles \in Nat
  /\ m_efforts \in [Joints -> Efforts] /\ command \in [Joints -> Efforts]
  /\ m_target_frame \in Frames /\ m_q_desired \in Frames
  /\ m_target_wrench \in Rest
  /\ incoming \in [pose : Poses, left : SUBSET {"rotation", "position"}]
  /\ transforming \in BOOLEAN
  /\ pose \in Poses
  /\ fresh \in BOOLEAN
  /\ sent \subseteq Poses /\ latest \in Poses /\ overtaken \subseteq Poses
  /\ activations \in 0..MaxActivations

Init ==
  /\ kind \in Kinds
  /\ life = "unconfigured" /\ m_configured = FALSE /\ m_active = FALSE
  /\ m_command_current_configuration_ = FALSE
  /\ positionHandles = 0 /\ handles = 0
  /\ m_efforts = Nothing /\ command = Nothing
  /\ pose \in Poses /\ m_target_frame = At(pose) /\ m_q_desired = At(pose)
  /\ m_target_wrench = 0
  /\ incoming = [pose |-> pose, left |-> {}] /\ transforming = FALSE
  /\ fresh = TRUE /\ activations = 0
  /\ sent = {} /\ latest = pose /\ overtaken = {}
-----------------------------------------------------------------------------
(***************************************************************************)
(* The torque                                                              *)
(***************************************************************************)
Clamp(x, bound) == IF x > bound THEN bound ELSE IF x < -bound THEN -bound ELSE x

\* A sum with NaN is NaN.
Plus(x, y) == IF NaN \in {x, y} THEN NaN ELSE x + y

\* Both parts of the error are clamped.
computeMotionError ==
    Clamp(m_target_frame.rotation - pose, MaxError)
  + Clamp(m_target_frame.position - pose, MaxError)

\* The solution for the target, or the previous one when there is none.
computeIKSolution == {m_target_frame, m_q_desired}

CartesianTorques ==
  {[j \in Joints |-> Plus(Plus(Stiffness * computeMotionError, m_target_wrench), rest[j])] :
      rest \in [Joints -> Rest]}

JointTorques(q_desired) ==
  {[j \in Joints |-> Plus(Stiffness * (q_desired.rotation - pose)
                        + Stiffness * (q_desired.position - pose), rest[j])] :
      rest \in [Joints -> Rest]}

\* The torque starts from a vector that is never set.
GravityTorques == [Joints -> AnyEffort]

\* Vector6D::Zero() is read up to the last joint.
ZeroTorques == {tau \in [Joints -> AnyEffort \cup {0}] : \A j \in Joints : j < 6 => tau[j] = 0}

\* A mutant of computeJointEffortCmds(j, tau): only a rise is slowed.
RaiseSlowly(j, tau) ==
  IF NaN \in {tau[j], m_efforts[j]} THEN NaN
  ELSE m_efforts[j] +
    (IF tau[j] - m_efforts[j] > m_delta_tau_max THEN m_delta_tau_max
                                                ELSE tau[j] - m_efforts[j])

\* std::min and std::max return their first argument when it is NaN, and an
\* effort to which NaN was added is NaN.
computeJointEffortCmds(j, tau) ==
  IF NaN \in {tau[j], m_efforts[j]}
    THEN NaN ELSE m_efforts[j] + Clamp(tau[j] - m_efforts[j], m_delta_tau_max)

\* So does std::clamp.
Limited(j, effort) ==
  IF effort = NaN \/ EffortLimits[j] = Unlimited
    THEN effort ELSE Clamp(effort, EffortLimits[j])

\* A mutant of writeJointEffortCmds(tau): the effort is limited after it was written.
WriteUnlimited(tau) ==
  /\ m_efforts' = [j \in Joints |-> Limited(j, computeJointEffortCmds(j, tau))]
  /\ command' = [j \in Joints |-> computeJointEffortCmds(j, tau)]
  /\ fresh' = FALSE

writeJointEffortCmds(tau) ==
  /\ m_efforts' = [j \in Joints |-> Limited(j, computeJointEffortCmds(j, tau))]
  /\ command' = m_efforts'
  /\ fresh' = FALSE
-----------------------------------------------------------------------------
(***************************************************************************)
(* Configuration                                                           *)
(***************************************************************************)
\* The base is configured once: later it keeps its parameters and efforts.
ConfigureBase(overwrite) ==
  /\ m_configured' = TRUE
  /\ IF m_configured
       THEN UNCHANGED <<m_command_current_configuration_, m_efforts>>
       ELSE /\ m_command_current_configuration_' = overwrite
            /\ m_efforts' = Nothing
  /\ UNCHANGED <<positionHandles, handles, m_active, command, fresh>>

\* A parameter of the base is wrong: ERROR, which ends the controller.
RejectBase ==
  /\ ~m_configured
  /\ life' = "finalized"
  /\ UNCHANGED <<base, control>>

\* A sensor link that is not in the chain, or a posture of another size.
RejectCartesian(overwrite) ==
  /\ kind = "cartesian impedance"
  /\ ConfigureBase(overwrite)
  /\ life' = "finalized"

\* A sensor link that is not in the chain, or a joint without stiffness.
RejectJoint(overwrite) ==
  /\ kind = "joint impedance"
  /\ ConfigureBase(overwrite)
  /\ life' = "finalized"

\* An empty posture is reported, and then read.
AcceptCartesian(overwrite, posture) ==
  /\ kind = "cartesian impedance"
  /\ ConfigureBase(overwrite)
  /\ life' = IF posture = "empty" THEN "undefined" ELSE "inactive"

AcceptJoint(overwrite) ==
  /\ kind = "joint impedance"
  /\ ConfigureBase(overwrite)
  /\ life' = "inactive"

AcceptGravity(overwrite) ==
  /\ kind = "gravity compensation"
  /\ ConfigureBase(overwrite)
  /\ life' = "inactive"

Configure ==
  /\ life = "unconfigured"
  /\ \/ RejectBase
     \/ \E overwrite \in BOOLEAN :
          \/ RejectCartesian(overwrite) \/ RejectJoint(overwrite)
          \/ AcceptJoint(overwrite) \/ AcceptGravity(overwrite)
          \/ \E posture \in {"none", "given", "empty"} :
               AcceptCartesian(overwrite, posture)
  /\ UNCHANGED <<kind, targets, subscriptions, pose, history, activations>>

Cleanup ==
  /\ life = "inactive"
  /\ life' = "unconfigured"
  /\ UNCHANGED <<kind, base, control, targets, subscriptions, pose, history, activations>>
-----------------------------------------------------------------------------
(***************************************************************************)
(* Activation                                                              *)
(***************************************************************************)
\* get_ordered_interfaces() appends, and fails unless it then has one handle
\* of each joint.
ActivateBase ==
  LET positions == positionHandles + (IF m_command_current_configuration_ THEN 1 ELSE 0)
      positionsFound == m_command_current_configuration_ => positions = 1
  IN IF m_active
       THEN UNCHANGED <<positionHandles, handles, m_active>>
       ELSE /\ positionHandles' = positions
            /\ handles' = IF positionsFound THEN handles + 1 ELSE handles
            /\ m_active' = (positionsFound /\ handles' = 1)

\* A mutant of SetTargets: the joint solution is left.
KeepSolution ==
  /\ IF kind = "gravity compensation" THEN UNCHANGED m_target_frame
                                      ELSE m_target_frame' = At(pose)
  /\ m_q_desired' = m_q_desired
  /\ m_target_wrench' = IF kind = "cartesian impedance" THEN 0 ELSE m_target_wrench

SetTargets ==
  /\ IF kind = "gravity compensation" THEN UNCHANGED m_target_frame
                                      ELSE m_target_frame' = At(pose)
  /\ m_q_desired' = IF kind = "joint impedance" THEN At(pose) ELSE m_q_desired
  /\ m_target_wrench' = IF kind = "cartesian impedance" THEN 0 ELSE m_target_wrench

\* Without handles the joints are read from an empty vector.
updateJointStates == life' = IF handles' = 0 THEN "undefined" ELSE "active"

\* What the base returns is ignored.
Activate ==
  /\ life = "inactive" /\ activations < MaxActivations
  /\ ActivateBase
  /\ updateJointStates
  /\ SetTargets
  /\ fresh' = TRUE
  /\ sent' = {pose} /\ latest' = pose
  /\ overtaken' = IF incoming.left = {} THEN {} ELSE {incoming.pose}
  /\ activations' = activations + 1
  /\ UNCHANGED <<kind, m_configured, m_command_current_configuration_, m_efforts,
                 command, subscriptions, pose>>

\* A mutant of ReleaseHandles: the handles are left, like those of the position.
ReleaseNothing ==
  /\ m_active' = FALSE
  /\ UNCHANGED <<positionHandles, handles>>

\* The position handles are left.
ReleaseHandles ==
  /\ handles' = IF m_active THEN 0 ELSE handles
  /\ m_active' = FALSE
  /\ UNCHANGED positionHandles

\* One more step towards no torque, and the handles are given back.
Deactivate ==
  /\ life = "active"
  /\ \E tau \in ZeroTorques : writeJointEffortCmds(tau)
  /\ ReleaseHandles
  /\ life' = "inactive"
  /\ UNCHANGED <<kind, m_configured, m_command_current_configuration_, targets,
                 subscriptions, pose, history, activations>>
-----------------------------------------------------------------------------
(***************************************************************************)
(* The control loop                                                        *)
(***************************************************************************)
UpdateCartesian ==
  /\ kind = "cartesian impedance"
  /\ \E tau \in CartesianTorques : writeJointEffortCmds(tau)
  /\ UNCHANGED m_q_desired

UpdateJoint ==
  /\ kind = "joint impedance"
  /\ m_q_desired' \in computeIKSolution
  /\ \E tau \in JointTorques(m_q_desired') : writeJointEffortCmds(tau)

UpdateGravity ==
  /\ kind = "gravity compensation"
  /\ \E tau \in GravityTorques : writeJointEffortCmds(tau)
  /\ UNCHANGED m_q_desired

update ==
  /\ life = "active"
  /\ UpdateCartesian \/ UpdateJoint \/ UpdateGravity
  /\ UNCHANGED <<kind, life, base, m_target_frame, m_target_wrench, subscriptions,
                 pose, history, activations>>

ArmMoves ==
  /\ pose' \in Poses \ {pose}
  /\ UNCHANGED <<kind, life, base, control, targets, subscriptions, history, activations>>
-----------------------------------------------------------------------------
(***************************************************************************)
(* The subscriptions                                                       *)
(***************************************************************************)
\* There is one callback at a time, from the first configuration on.
CanReceive ==
  /\ kind # "gravity compensation" /\ m_configured
  /\ life \notin {"finalized", "undefined"}
  /\ incoming.left = {} /\ ~transforming

\* A target in another frame than that of the base is dropped.
ReceiveFrame(p) ==
  /\ CanReceive
  /\ incoming' = [pose |-> p, left |-> {"rotation", "position"}]
  /\ sent' = sent \cup {p} /\ latest' = p
  /\ UNCHANGED <<kind, life, base, control, targets, transforming, pose, overtaken,
                 activations>>

\* The frame is not stored at once, and a cycle of the control loop may fall
\* between the two parts.
targetFrameCallback(part) ==
  /\ part \in incoming.left
  /\ m_target_frame' = [m_target_frame EXCEPT ![part] = incoming.pose]
  /\ incoming' = [incoming EXCEPT !.left = @ \ {part}]
  /\ UNCHANGED <<kind, life, base, control, m_q_desired, m_target_wrench, transforming,
                 pose, history, activations>>

\* A mutant of targetWrenchCallback(w, inBase): wrenches add up.
AddWrench(w, inBase) ==
  /\ CanReceive
  /\ m_target_wrench' = m_target_wrench + w
  /\ transforming' = ~inBase
  /\ UNCHANGED <<kind, life, base, control, m_target_frame, m_q_desired, incoming,
                 pose, history, activations>>

\* The wrench is stored as it came, and then in the frame of the base.
targetWrenchCallback(w, inBase) ==
  /\ CanReceive
  /\ m_target_wrench' = w
  /\ transforming' = ~inBase
  /\ UNCHANGED <<kind, life, base, control, m_target_frame, m_q_desired, incoming,
                 pose, history, activations>>

displayInBaseLink ==
  /\ transforming
  /\ m_target_wrench' \in Rest
  /\ transforming' = FALSE
  /\ UNCHANGED <<kind, life, base, control, m_target_frame, m_q_desired, incoming,
                 pose, history, activations>>
-----------------------------------------------------------------------------
Receive ==
  \/ \E p \in Poses : ReceiveFrame(p)
  \/ \E part \in {"rotation", "position"} : targetFrameCallback(part)
  \/ \E w \in Rest, inBase \in BOOLEAN : targetWrenchCallback(w, inBase)
  \/ displayInBaseLink

Next == Configure \/ Cleanup \/ Activate \/ Deactivate \/ update \/ ArmMoves \/ Receive

Spec == Init /\ [][Next]_vars
-----------------------------------------------------------------------------
(***************************************************************************)
(* Properties                                                              *)
(***************************************************************************)
Abs(x) == IF x < 0 THEN -x ELSE x

\* Whatever is asked for, read from an unset vector or kept from an earlier
\* activation, a number that is written is within the limit of its joint.  What
\* is no number is let through; it comes from a vector that is unset or too short
\* if none of the terms of a law is NaN.
EffortWithinLimits ==
  \A j \in Joints :
    IF command[j] = NaN
      THEN NaN \in Rest \/ kind = "gravity compensation" \/ j >= 6
      ELSE EffortLimits[j] # Unlimited => Abs(command[j]) <= EffortLimits[j]

\* From the first cycle of an activation to the write of its end the effort
\* of a joint changes by delta_tau_max at most, "maximum torque increment in
\* one control cycle", also when a joint saturates or the target jumps, as long
\* as it is a number; and once it is none it never becomes one again, whatever
\* is computed, in this activation or the next.
TorqueRateBounded ==
  [][\A j \in Joints :
       IF command[j] = NaN THEN command'[j] = NaN
       ELSE life = "active" /\ ~fresh /\ command'[j] # NaN
              => Abs(command'[j] - command[j]) <= m_delta_tau_max]_vars

\* The frame a controller follows.
Followed == IF kind = "cartesian impedance" THEN m_target_frame ELSE m_q_desired

\* An active controller follows what it was sent since its activation or the
\* pose it had then, except for the one target whose callback the activation fell
\* into: no solution and no other target of an earlier activation is left.  If
\* there is no such target, what a callback has stored of the target is the one
\* sent last, so that between two callbacks the target is whole.
FollowsWhatWasSent ==
  life = "active" /\ kind # "gravity compensation"
    => /\ {Followed.rotation, Followed.position} \subseteq sent \cup overtaken
       /\ overtaken = {} =>
            \A part \in {"rotation", "position"} \ incoming.left : m_target_frame[part] = latest

\* An active controller has the handles of this activation, and only these.  The
\* joints are read without handles only where those of the positions, which a
\* deactivation leaves, made the base fail.
ActiveHoldsItsHandles ==
  /\ life = "active"
       => /\ m_active /\ handles = 1
          /\ m_command_current_configuration_ => positionHandles = 1
  /\ life = "undefined" /\ kind # "cartesian impedance"
       => m_command_current_configuration_ /\ positionHandles > 1
=============================================================================
