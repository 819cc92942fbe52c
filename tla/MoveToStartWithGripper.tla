----------------------- MODULE MoveToStartWithGripper -----------------------
(***************************************************************************)
(* The controller MoveToStartWithGripper, which moves the arm to a         *)
(* configured goal or to one that its inverse kinematics finds, with the   *)
(* arm it moves and the subscription of the robot description.             *)
(*                                                                         *)
(* Time is counted in units of which move_duration has a whole number.  A  *)
(* reference is a multiple of 1/move_duration and is scaled by it.         *)
(***************************************************************************)
EXTENDS PinocchioKinematics

CONSTANTS
  Configurations,    \* where the arm may be
  Goals,             \* the values of q_goal
  Targets,           \* the poses for the inverse kinematics
  Residues,          \* the errors of the orientation that may remain
  move_duration,
  Periods,           \* what the control loop may measure from one update() to the next
  finish_tolerance,
  MaxActivations,    \* bound: activations of the controller
  MaxPushes          \* bound: how often something else moves the arm

ASSUME MoveAssumption ==
  /\ Configurations \subseteq Int /\ Goals \subseteq Int
  /\ Targets \subseteq Int /\ Residues \subseteq Nat
  /\ move_duration \in Nat \ {0} /\ Periods \subseteq Nat \ {0}
  /\ finish_tolerance \in Nat \ {0}
  /\ MaxActivations \in Nat /\ MaxPushes \in Nat

Descriptions == {"empty", "malformed", "without_joints", "without_frame", "complete"}

VARIABLES
  life,             \* "waiting" while an activation waits for the description
  parameters,       \* read by on_configure
  q_goal_,          \* the goal
  q_start_,         \* where the motion started
  q_des_,           \* the reference, scaled
  elapsed_time_,    \* counted up to move_duration
  finished_,        \* and the parameter process_finished, which follows it
  kinematics,       \* the state of pino_
  kin_initialized_,
  subscribed,       \* robot_description_sub_ was created
  urdf_xml_,        \* the description received, or "none"
  q,                \* where the arm is
  pushes,           \* history: number of pushes
  fresh,            \* history: no cycle since the activation
  sinceStart,       \* history: time measured since the activation, up to move_duration
  motions,          \* history: activations since the last configuration
  activations       \* history: number of activations

motion == <<q_goal_, q_start_, q_des_, elapsed_time_, finished_>>
model == <<kinematics, kin_initialized_>>
description == <<subscribed, urdf_xml_>>
arm == <<q, pushes>>
history == <<fresh, sinceStart, motions, activations>>
vars == <<life, parameters, motion, model, description, arm, history>>

Parameters == [q_goal : Goals, target : Targets, hold_position : BOOLEAN,
               use_pinocchio_ik : BOOLEAN, clamp_to_limits : BOOLEAN]

TypeOK ==
  /\ life \in {"unconfigured", "inactive", "waiting", "active", "finalized", "undefined"}
  /\ parameters \in Parameters
  /\ q_goal_ \in Int /\ q_start_ \in Configurations /\ q_des_ \in Int
  /\ elapsed_time_ \in 0..move_duration
  /\ finished_ \in BOOLEAN /\ kin_initialized_ \in BOOLEAN /\ subscribed \in BOOLEAN
  /\ kinematics \in {"uninitialized", "undefined", "out_of_range", "initialized"}
  /\ urdf_xml_ \in Descriptions \cup {"none"}
  /\ q \in Configurations
  /\ pushes \in 0..MaxPushes
  /\ fresh \in BOOLEAN /\ sinceStart \in 0..move_duration
  /\ motions \in 0..MaxActivations /\ activations \in 0..MaxActivations

Init ==
  /\ life = "unconfigured"
  /\ parameters \in Parameters
  /\ q_goal_ = 0 /\ q_des_ = 0
  /\ elapsed_time_ = 0 /\ finished_ = FALSE
  /\ kinematics = "uninitialized" /\ kin_initialized_ = FALSE
  /\ subscribed = FALSE /\ urdf_xml_ = "none"
  /\ q \in Configurations /\ q_start_ = q
  /\ pushes = 0 /\ fresh = TRUE /\ sinceStart = 0 /\ motions = 0 /\ activations = 0
-----------------------------------------------------------------------------
(***************************************************************************)
(* Configuration                                                           *)
(***************************************************************************)
\* Sizes that are not seven: before anything is kept.
RejectSizes ==
  /\ life = "unconfigured"
  /\ life' = "finalized"
  /\ UNCHANGED <<parameters, motion, model, description, arm, history>>

\* A mutant of reset: on_configure() without elapsed_time_ = 0.0
ResetWithoutTime ==
  /\ elapsed_time_' = elapsed_time_ /\ finished_' = FALSE /\ kin_initialized_' = FALSE
  /\ motions' = 0
  /\ UNCHANGED <<q_start_, q_des_, kinematics, fresh, sinceStart, activations>>

reset ==
  /\ elapsed_time_' = 0 /\ finished_' = FALSE /\ kin_initialized_' = FALSE
  /\ motions' = 0
  /\ UNCHANGED <<q_start_, q_des_, kinematics, fresh, sinceStart, activations>>

\* Gains that are missing leave it unconfigured, a robot description that is
\* not a parameter ends it.
on_configure ==
  /\ life = "unconfigured"
  /\ q_goal_' = parameters.q_goal
  /\ subscribed' = TRUE
  /\ reset
  /\ life' \in {"unconfigured", "finalized", "inactive"}
  /\ UNCHANGED <<parameters, urdf_xml_, arm>>

Cleanup ==
  /\ life = "inactive"
  /\ life' = "unconfigured"
  /\ UNCHANGED <<parameters, motion, model, description, arm, history>>

\* The first description is kept.
ReceiveDescription(urdf) ==
  /\ subscribed /\ urdf_xml_ = "none"
  /\ life \notin {"finalized", "undefined"}
  /\ urdf_xml_' = urdf
  /\ UNCHANGED <<life, parameters, motion, model, subscribed, arm, history>>
-----------------------------------------------------------------------------
(***************************************************************************)
(* Activation                                                              *)
(***************************************************************************)
\* The activation ends, if the state interface of the robot is found.
Assign(assigned) == life' = IF assigned THEN "active" ELSE "finalized"

\* A mutant of SolveGoal(assigned, q_init): on_activate() without the test of ok
TakeAnyAnswer(assigned, q_init) ==
  \E residue \in Residues :
    \E answer \in ik(parameters.target, residue, parameters.clamp_to_limits, q_init) :
      /\ q_goal_' = answer.q
      /\ Assign(assigned)

\* From where the arm was when the activation began.
SolveGoal(assigned, q_init) ==
  \E residue \in Residues :
    \E answer \in ik(parameters.target, residue, parameters.clamp_to_limits, q_init) :
      /\ q_goal_' = IF answer.ok THEN answer.q ELSE q_goal_
      /\ Assign(assigned)

\* A frame that is out of range is read by the forward kinematics.
UseKinematics(assigned, q_init) ==
  IF kinematics' \in {"undefined", "out_of_range"}
    THEN life' = "undefined" /\ UNCHANGED q_goal_
    ELSE SolveGoal(assigned, q_init)

init_pinocchio(assigned, q_init) ==
  /\ kinematics' = initFromUrdfXml(urdf_xml_)
  /\ kin_initialized_' = (kinematics' # "uninitialized")
  /\ IF kin_initialized_' THEN UseKinematics(assigned, q_init)
                          ELSE Assign(assigned) /\ UNCHANGED q_goal_

\* Neither the time nor finished_ is reset.
on_activate(assigned) ==
  /\ life = "inactive" /\ activations < MaxActivations
  /\ q_start_' = q
  /\ IF ~parameters.use_pinocchio_ik
       THEN Assign(assigned) /\ UNCHANGED <<q_goal_, model>>
     ELSE IF kin_initialized_
       THEN UNCHANGED model /\ UseKinematics(assigned, q)
     ELSE IF urdf_xml_ # "none"
       THEN init_pinocchio(assigned, q)
     ELSE life' = "waiting" /\ UNCHANGED <<q_goal_, model>>
  /\ fresh' = TRUE /\ sinceStart' = 0
  /\ motions' = motions + 1 /\ activations' = activations + 1
  /\ UNCHANGED <<parameters, q_des_, elapsed_time_, finished_, description, arm>>

\* The control loop waits in the activation for up to two seconds.
WaitEnds(assigned) ==
  /\ life = "waiting"
  /\ IF urdf_xml_ # "none"
       THEN init_pinocchio(assigned, q_start_)
       ELSE Assign(assigned) /\ UNCHANGED <<q_goal_, model>>
  /\ UNCHANGED <<parameters, q_start_, q_des_, elapsed_time_, finished_, description, arm,
                 history>>

on_deactivate ==
  /\ life = "active"
  /\ life' = "inactive"
  /\ UNCHANGED <<parameters, motion, model, description, arm, history>>
-----------------------------------------------------------------------------
(***************************************************************************)
(* The control loop and the arm                                            *)
(***************************************************************************)
AtGoal == Magnitude(q - q_goal_) < finish_tolerance

Interpolated(s) == (move_duration - s) * q_start_ + s * q_goal_

\* The time after a period, and no more than the motion takes: std::clamp.
After(time, period) == IF time + period < move_duration THEN time + period ELSE move_duration

\* A mutant of MoveOn: update() without std::clamp
MoveWithoutClamp(period) ==
  /\ ~finished_
  /\ elapsed_time_' = elapsed_time_ + period
  /\ q_des_' = Interpolated(elapsed_time_')
  /\ finished_' = AtGoal

\* A mutant of MoveOn: update() that tests the tolerance before the end of the time only
FinishInTime(period) ==
  /\ ~finished_
  /\ elapsed_time_' = After(elapsed_time_, period)
  /\ q_des_' = Interpolated(elapsed_time_')
  /\ finished_' = (AtGoal /\ elapsed_time_ < move_duration)

MoveOn(period) ==
  /\ ~finished_
  /\ elapsed_time_' = After(elapsed_time_, period)
  /\ q_des_' = Interpolated(elapsed_time_')
  /\ finished_' = AtGoal

Hold ==
  /\ finished_
  /\ q_des_' = move_duration * (IF parameters.hold_position THEN q_goal_ ELSE q)
  /\ UNCHANGED <<elapsed_time_, finished_>>

\* The period is measured: the first one after an activation may hold its wait.
update(period) ==
  /\ life = "active"
  /\ MoveOn(period) \/ Hold
  /\ fresh' = FALSE /\ sinceStart' = After(sinceStart, period)
  /\ UNCHANGED <<life, parameters, q_goal_, q_start_, model, description, arm, motions,
                 activations>>

\* The arm follows the torque towards the reference.
ArmFollows ==
  /\ life = "active" /\ ~fresh
  /\ \/ q_des_ >= move_duration * (q + 1) /\ q' = q + 1
     \/ q_des_ <= move_duration * (q - 1) /\ q' = q - 1
  /\ q' \in Configurations
  /\ UNCHANGED <<life, parameters, motion, model, description, pushes, history>>

\* Another controller, a contact or a person moves it.
ArmIsPushed ==
  /\ pushes < MaxPushes
  /\ q' \in Configurations \ {q}
  /\ pushes' = pushes + 1
  /\ UNCHANGED <<life, parameters, motion, model, description, history>>
-----------------------------------------------------------------------------
Next ==
  \/ RejectSizes \/ on_configure \/ Cleanup
  \/ \E urdf \in Descriptions : ReceiveDescription(urdf)
  \/ \E assigned \in BOOLEAN : on_activate(assigned) \/ WaitEnds(assigned)
  \/ \E period \in Periods : update(period)
  \/ on_deactivate \/ ArmFollows \/ ArmIsPushed

Spec == Init /\ [][Next]_vars

\* The control loop runs, the wait ends and the arm gives way to the torque.
FairSpec ==
  /\ Spec
  /\ WF_vars(\E period \in Periods : update(period)) /\ WF_vars(ArmFollows)
  /\ WF_vars(\E assigned \in BOOLEAN : WaitEnds(assigned))
-----------------------------------------------------------------------------
(***************************************************************************)
(* Properties                                                              *)
(***************************************************************************)
\* The reference of the first motion after a configuration never runs ahead of the
\* time update() has measured since the activation: the reset in on_configure() leaves
\* nothing of an earlier motion's time.  The time may begin with a long period, which
\* holds the wait for the description; then the reference begins with a long step.
ReferenceKeepsPace ==
  [][life = "active" /\ ~finished_ /\ motions = 1 /\ q_des_' # q_des_
       => Magnitude(q_des_' - move_duration * q_start_)
            <= sinceStart' * Magnitude(q_goal_ - q_start_)]_vars

\* The goal is the one configured, or solves the inverse kinematics for the
\* target: update() never moves to an iterate at which ik() gave up.
GoalIsConfiguredOrSolved ==
  life = "active"
    => q_goal_ = parameters.q_goal
       \/ \E residue \in Residues :
            computeError6DWorld(q_goal_, parameters.target, residue) < eps

\* A motion to a goal in the arm's reach ends in update(), though the arm be
\* pushed, unless the controller is stopped first.
MotionEnds ==
  life \in {"waiting", "active"} /\ Goals \cup Targets \subseteq Configurations
    ~> finished_ \/ life \notin {"waiting", "active"}
=============================================================================
