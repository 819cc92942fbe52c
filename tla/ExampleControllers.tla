-------------------------- MODULE ExampleControllers --------------------------
(***************************************************************************)
(* The example controllers without a gripper of                            *)
(* franka_example_controllers/src, over the semantic components, composed  *)
(* with the services of the hardware component they call while they are    *)
(* being configured.                                                       *)
(*                                                                         *)
(* The twelve controllers follow one pattern.  A controller is a record:   *)
(*   configure  the steps of on_configure() in their order, the waits for  *)
(*              services included                                          *)
(*   component  the semantic component that carries its commands           *)
(*   via        how update() commands: its component, or the interfaces    *)
(*   withElbow  which setCommand() update() calls                          *)
(*   capture    when the reference of the motion is measured               *)
(*   clock      when the zero of elapsed_time_ is taken                    *)
(*   model, ik  it evaluates the robot model, asks for inverse kinematics  *)
(*   release    what on_deactivate() releases                              *)
(*                                                                         *)
(* Measured quantities and times are abstracted to the activation they     *)
(* were taken in, counted from 1; 0 stands for none.                       *)
(***************************************************************************)
EXTENDS RobotServices, SemanticComponents, SequencesExt

CONSTANTS
  Controllers,     \* the controllers an instance of the model may be
  MaxActivations   \* bound: activations of one controller

ASSUME ActivationsAssumption == MaxActivations \in Nat

Self == "controller"     \* the controller as a client of the services
Collision == "set_full_collision_behavior"

ASSUME ServicesAssumption == Self \in Clients /\ Collision \in Setters

-----------------------------------------------------------------------------
(* The controllers.                                                         *)

Basic ==
  [configure |-> <<>>, component |-> NoComponent, via |-> "interfaces", withElbow |-> FALSE,
   capture |-> "never", clock |-> "never", model |-> FALSE, ik |-> FALSE, release |-> {}]

JointPosition ==
  [Basic EXCEPT !.configure = <<"description">>, !.capture = "update", !.clock = "update"]

JointVelocity ==
  [Basic EXCEPT !.configure = <<"nonempty description", "collision">>, !.clock = "activate"]

\* In Gazebo there is no collision behaviour to set.
JointVelocityInGazebo == [JointVelocity EXCEPT !.configure = <<"nonempty description">>]

JointImpedance ==
  [Basic EXCEPT !.configure = <<"gains", "description">>,
                !.capture = "activate", !.clock = "activate"]

JointImpedanceWithIK ==
  [Basic EXCEPT !.configure = <<"gains", "model", "compute_ik", "collision server",
                                "checked collision", "description">>,
                !.component = CartesianPoseInterface(FALSE),
                !.capture = "update", !.clock = "update", !.model = TRUE, !.ik = TRUE,
                !.release = {"component"}]

CartesianPose ==
  [Basic EXCEPT !.configure = <<"collision", "description">>,
                !.component = CartesianPoseInterface(FALSE), !.via = "component",
                !.capture = "update", !.clock = "update", !.release = {"component"}]

\* To this model the same as CartesianPose: they differ in the motion only.
CartesianOrientation ==
  [Basic EXCEPT !.configure = <<"collision", "description">>,
                !.component = CartesianPoseInterface(FALSE), !.via = "component",
                !.capture = "update", !.clock = "update", !.release = {"component"}]

CartesianVelocity ==
  [Basic EXCEPT !.configure = <<"component", "collision">>,
                !.component = CartesianVelocityInterface(FALSE), !.via = "component",
                !.clock = "activate", !.release = {"component"}]

CartesianElbow ==
  [Basic EXCEPT !.configure = <<"component", "collision", "description">>,
                !.component = CartesianPoseInterface(TRUE), !.via = "component",
                !.withElbow = TRUE, !.capture = "update", !.clock = "update",
                !.release = {"component"}]

ElbowVelocity ==
  [Basic EXCEPT !.configure = <<"component", "collision", "description">>,
                !.component = CartesianVelocityInterface(TRUE), !.via = "component",
                !.withElbow = TRUE, !.capture = "update", !.clock = "update",
                !.release = {"component"}]

RobotModel ==
  [Basic EXCEPT !.configure = <<"model">>, !.via = "nothing", !.model = TRUE,
                !.release = {"model"}]

MoveToStart ==
  [Basic EXCEPT !.configure = <<"gains">>, !.capture = "activate", !.clock = "activate"]

GravityCompensation == Basic

AllControllers ==
  {JointPosition, JointVelocity, JointVelocityInGazebo, JointImpedance, JointImpedanceWithIK,
   CartesianPose, CartesianOrientation, CartesianVelocity, CartesianElbow, ElbowVelocity,
   RobotModel, MoveToStart, GravityCompensation}

ASSUME ControllersAssumption == Controllers \subseteq AllControllers

-----------------------------------------------------------------------------
VARIABLES
  kind,          \* which controller this is
  life,          \* its state
  step,          \* the step on_configure() is at, or 0
  named,         \* arm_id_ names the robot
  activation,    \* history: how often it was activated
  flag,          \* initialization_flag_
  reference,     \* the activation the reference was measured in
  clock,         \* the activation the zero of elapsed_time_ was taken in
  handles,       \* interfaces held by the component of the commands
  modelHandles,  \* interfaces held by franka_robot_model_
  modelFrom,     \* the activation its pointers were read in
  solution,      \* the activation joint_positions_desired_ was asked for in
  asked,         \* the activations inverse kinematics were asked for in
  output,        \* what the last update() did
  up,            \* the external services that are there while on_configure() runs
  fetch          \* get_parameters(): not sent, sent, or sent and never answered

motion == <<activation, flag, reference, clock, handles, modelHandles, modelFrom, solution,
            asked, output>>
external == <<up, fetch>>
controllerVars == <<kind, life, step, named, motion, external>>
vars == <<serviceVars, controllerVars>>

NoOutput == [result |-> "none", reference |-> 0, clock |-> 0, solution |-> 0]
Activations == 0..MaxActivations

UsesDescription(k) == \E i \in 1..Len(k.configure) :
                        k.configure[i] \in {"description", "nonempty description"}

\* The services of other processes that on_configure() waits for.
Needed(k) == (IF UsesDescription(k) THEN {"robot_state_publisher"} ELSE {})
             \cup (IF k.ik THEN {"compute_ik"} ELSE {})

TypeOK ==
  /\ ServicesTypeOK
  /\ kind \in Controllers
  /\ life \in {"unconfigured", "inactive", "active", "finalized"}
  /\ step \in 0..Len(kind.configure) + 1
  /\ named \in BOOLEAN /\ flag \in BOOLEAN
  /\ activation \in Activations /\ reference \in Activations /\ clock \in Activations
  /\ handles \in Seq(Activations) /\ modelHandles \in Seq(Activations)
  /\ modelFrom \in Activations /\ solution \in Activations
  /\ asked \subseteq Activations
  /\ output.result \in {"none", "ok", "error", "waiting"}
  /\ up \subseteq {"robot_state_publisher", "compute_ik"}
  /\ fetch \in {"none", "sent", "lost"}

Init ==
  /\ ServicesInit
  /\ kind \in Controllers
  /\ life = "unconfigured" /\ step = 0
  /\ named = ~UsesDescription(kind)
  /\ activation = 0
  /\ flag = TRUE /\ reference = 0 /\ clock = 0
  /\ handles = <<>> /\ modelHandles = <<>> /\ modelFrom = 0
  /\ solution = 0 /\ asked = {}
  /\ output = NoOutput
  /\ up = {} /\ fetch = "none"

-----------------------------------------------------------------------------
(* on_configure(), one step after the other in the controller manager's     *)
(* thread, which blocks in the steps that wait for an answer.               *)

StartConfigure ==
  /\ ok /\ life = "unconfigured" /\ step = 0 /\ owner \notin {"none", "waiting"}
  /\ step' = 1
  /\ up' \in SUBSET Needed(kind)
  /\ UNCHANGED <<serviceVars, kind, life, named, motion, fetch>>

At(s) == step \in 1..Len(kind.configure) /\ kind.configure[step] = s

\* A step of on_configure() is done, ends it with FAILURE, after which it can
\* be tried again, or with ERROR, after which the controller is finalized.
Proceed == step' = step + 1 /\ life' = life /\ up' = up
Fail == step' = 0 /\ life' = life /\ up' = {}
Break == step' = 0 /\ life' = "finalized" /\ up' = {}

\* A mutant of EndConfigure: the configuration goes past its end.
EndConfigureLate ==
  /\ step = Len(kind.configure) + 1
  /\ life' = "inactive" /\ step' = step + 1
  /\ UNCHANGED <<serviceVars, kind, named, motion, external>>

EndConfigure ==
  /\ step = Len(kind.configure) + 1
  /\ life' = "inactive" /\ step' = 0 /\ up' = {}
  /\ UNCHANGED <<serviceVars, kind, named, motion, fetch>>

\* The gains have the size of the arm, or the configuration fails.
CheckGains ==
  /\ At("gains")
  /\ Proceed \/ Fail
  /\ UNCHANGED <<serviceVars, kind, named, motion, fetch>>

\* The component of the commands is made anew, and holds nothing.
MakeComponent ==
  /\ At("component")
  /\ handles' = release_interfaces
  /\ Proceed
  /\ UNCHANGED <<serviceVars, kind, named, activation, flag, reference, clock, modelHandles,
                 modelFrom, solution, asked, output, fetch>>

\* So is franka_robot_model_.
MakeModel ==
  /\ At("model")
  /\ modelHandles' = release_interfaces /\ modelFrom' = 0
  /\ Proceed
  /\ UNCHANGED <<serviceVars, kind, named, activation, flag, reference, clock, handles, solution,
                 asked, output, fetch>>

\* The loop that waits a second for each of two services in turn.
AwaitIK ==
  /\ At("compute_ik") /\ "compute_ik" \in up
  /\ Proceed
  /\ UNCHANGED <<serviceVars, kind, named, motion, fetch>>

AwaitCollisionServer ==
  /\ At("collision server")
  /\ IF owner = "running" THEN Proceed ELSE step' = step - 1 /\ life' = life /\ up' = up
  /\ UNCHANGED <<serviceVars, kind, named, motion, fetch>>

\* It ends with ERROR when a service is missing at a shutdown.
InterruptAwait ==
  /\ At("compute_ik") \/ (At("collision server") /\ owner # "running")
  /\ ~ok
  /\ Break
  /\ UNCHANGED <<serviceVars, kind, named, motion, fetch>>

AtCollision == At("collision") \/ At("checked collision")

\* async_send_request() of the default collision behaviour.
AskCollision ==
  /\ AtCollision /\ answer[Self] = NoAnswer
  /\ Send(Self, Collision)
  /\ UNCHANGED <<ok, owner, executor, worker, stage, writeLock, controllerVars>>

\* get() returns the response, which the controller manager's executor delivers
\* as long as it spins; wait_for() before it changes nothing.  Only the
\* controller with inverse kinematics looks at response->success.
CollisionAnswered ==
  /\ ok /\ AtCollision /\ answer[Self] # NoAnswer
  /\ IF At("checked collision") /\ answer[Self] # "success" THEN Break ELSE Proceed
  /\ answer' = [answer EXCEPT ![Self] = NoAnswer]
  /\ UNCHANGED <<ok, owner, executor, request, worker, stage, writeLock, kind, named,
                 motion, fetch>>

AtDescription == At("description") \/ At("nonempty description")

\* wait_for_service() has no timeout, but returns after a shutdown too; then
\* get_parameters() asks a service that will not answer.
AskDescription ==
  /\ AtDescription /\ fetch = "none"
  /\ "robot_state_publisher" \in up \/ ~ok
  /\ fetch' = IF "robot_state_publisher" \in up THEN "sent" ELSE "lost"
  /\ UNCHANGED <<serviceVars, kind, life, step, named, motion, up>>

\* get() returns: robot_description names the robot, is empty, or cannot be had;
\* then the description of an earlier configuration stays.
DescriptionArrives(d) ==
  /\ ok /\ AtDescription /\ fetch = "sent"
  /\ fetch' = "none"
  /\ named' = CASE d = "names robot" -> TRUE
                [] d = "empty" -> IF At("description") THEN FALSE ELSE named
                [] d = "missing" -> named
  /\ IF d = "empty" /\ At("nonempty description") THEN Break ELSE Proceed
  /\ UNCHANGED <<serviceVars, kind, motion>>

Cleanup ==
  /\ ok /\ life = "inactive" /\ step = 0
  /\ life' = "unconfigured"
  /\ UNCHANGED <<serviceVars, kind, step, named, motion, external>>

-----------------------------------------------------------------------------
(* on_activate(), update() and on_deactivate(), in the control loop.        *)

\* A mutant of Activate: the flag of the first update() is not raised.
ActivateInMotion ==
  /\ ok /\ life = "inactive" /\ named /\ activation < MaxActivations
  /\ life' = "active"
  /\ activation' = activation + 1
  /\ flag' = flag
  /\ reference' = IF kind.capture = "activate" THEN activation' ELSE reference
  /\ clock' = IF kind.clock # "never" THEN activation' ELSE clock
  /\ handles' = IF kind.component # NoComponent THEN Assign(handles, activation') ELSE handles
  /\ modelHandles' = IF kind.model THEN Assign(modelHandles, activation') ELSE modelHandles
  /\ output' = NoOutput
  /\ UNCHANGED <<serviceVars, kind, step, named, modelFrom, solution, asked, external>>

\* The controller manager loans the interfaces, if their names exist.
Activate ==
  /\ ok /\ life = "inactive" /\ named /\ activation < MaxActivations
  /\ life' = "active"
  /\ activation' = activation + 1
  /\ flag' = TRUE
  /\ reference' = IF kind.capture = "activate" THEN activation' ELSE reference
  /\ clock' = IF kind.clock # "never" THEN activation' ELSE clock
  /\ handles' = IF kind.component # NoComponent THEN Assign(handles, activation') ELSE handles
  /\ modelHandles' = IF kind.model THEN Assign(modelHandles, activation') ELSE modelHandles
  /\ output' = NoOutput
  /\ UNCHANGED <<serviceVars, kind, step, named, modelFrom, solution, asked, external>>

\* A mutant of Deactivate: the component of the commands is not released.
DeactivateHolding ==
  /\ ok /\ life = "active"
  /\ life' = "inactive"
  /\ handles' = handles
  /\ modelHandles' = IF "model" \in kind.release THEN release_interfaces ELSE modelHandles
  /\ UNCHANGED <<serviceVars, kind, step, named, activation, flag, reference, clock, modelFrom,
                 solution, asked, output, external>>

Deactivate ==
  /\ ok /\ life = "active"
  /\ life' = "inactive" /\ output' = NoOutput
  /\ handles' = IF "component" \in kind.release THEN release_interfaces ELSE handles
  /\ modelHandles' = IF "model" \in kind.release THEN release_interfaces ELSE modelHandles
  /\ UNCHANGED <<serviceVars, kind, step, named, activation, flag, reference, clock, modelFrom,
                 solution, asked, external>>

\* update(): the first one of an activation measures the reference and the
\* time; then the command is computed and handed over.  The controller with
\* inverse kinematics asks for a solution every time and commands nothing
\* before it has one.  The robot model throws without its interfaces.
Update ==
  /\ ok /\ life = "active"
  /\ flag' = FALSE
  /\ reference' = IF flag /\ kind.capture = "update" THEN activation ELSE reference
  /\ clock' = IF flag /\ kind.clock = "update" THEN activation ELSE clock
  /\ asked' = IF kind.ik THEN asked \cup {activation} ELSE asked
  /\ LET waits == kind.ik /\ solution = 0
         accepted == /\ kind.via = "component" =>
                            setCommand(kind.component, kind.withElbow, handles)
                     /\ kind.model => modelFrom' # 0
     IN  /\ modelFrom' = IF kind.model /\ ~waits THEN initialize(modelHandles, modelFrom)
                         ELSE modelFrom
         /\ output' = [result |-> IF waits THEN "waiting" ELSE IF accepted THEN "ok" ELSE "error",
                       reference |-> reference', clock |-> clock', solution |-> solution]
  /\ UNCHANGED <<serviceVars, kind, life, step, named, activation, handles, modelHandles,
                 solution, external>>

\* The callback of an answer of the inverse kinematics, in another thread and
\* at any time: a solution is kept, a failure changes nothing.  Every update() of
\* an activation asks, so that any number of answers to it may come.
IKAnswered(a) ==
  /\ ok /\ a \in asked
  /\ solution' = a
  /\ UNCHANGED <<serviceVars, kind, life, step, named, activation, flag, reference, clock, handles,
                 modelHandles, modelFrom, asked, output, external>>

-----------------------------------------------------------------------------
(* Other processes: a client who sets parameters and recovers from errors,  *)
(* and the external services, which come and go while on_configure() runs.  *)
UserSends(c, s) ==
  /\ c # Self
  /\ Send(c, s)
  /\ UNCHANGED <<ok, owner, executor, worker, stage, writeLock, controllerVars>>

Appears(s) ==
  /\ step # 0 /\ s \in Needed(kind) \ up
  /\ up' = up \cup {s}
  /\ UNCHANGED <<serviceVars, kind, life, step, named, motion, fetch>>

\* A request to a service that goes away is never answered.
Disappears(s) ==
  /\ step # 0 /\ s \in up
  /\ up' = up \ {s}
  /\ fetch' = IF s = "robot_state_publisher" /\ fetch = "sent" THEN "lost" ELSE fetch
  /\ UNCHANGED <<serviceVars, kind, life, step, named, motion>>

Configuring ==
  \/ EndConfigure \/ CheckGains \/ MakeComponent \/ MakeModel
  \/ AwaitIK \/ AwaitCollisionServer \/ InterruptAwait
  \/ AskCollision \/ CollisionAnswered
  \/ AskDescription
  \/ \E d \in {"names robot", "empty", "missing"} : DescriptionArrives(d)

ServiceStep ==
  /\ ServeNext \/ MakeExecutor \/ DestroyExecutor \/ Shutdown
  /\ UNCHANGED controllerVars

Next ==
  \/ ServiceStep
  \/ \E c \in Clients, s \in Services : UserSends(c, s)
  \/ \E s \in Needed(kind) : Appears(s) \/ Disappears(s)
  \/ StartConfigure \/ Configuring \/ Cleanup
  \/ Activate \/ Update \/ Deactivate
  \/ \E a \in asked : IKAnswered(a)

Spec == Init /\ [][Next]_vars

\* The executor's threads run, libfranka's calls return, every client's
\* request is taken up in the end, and a configuration that can go on does: an
\* external service that is there, and stays, answers.  None has to appear.
FairSpec ==
  /\ Spec
  /\ WF_vars(Configuring)
  /\ \A c \in Clients : SF_vars(TakeUp(c) /\ UNCHANGED controllerVars)
  /\ \A n \in Nodes :
       /\ WF_vars(LockWrites(n) /\ UNCHANGED controllerVars)
       /\ WF_vars(\E r \in Results :
                    (SetParameter(n, r) \/ Recover(n, r)) /\ UNCHANGED controllerVars)
  /\ WF_vars((ExecutorSpins \/ ConstructorReturns \/ ExecutorEnds \/ JoinReturns)
             /\ UNCHANGED controllerVars)

-----------------------------------------------------------------------------
\* What update() computes refers to the pose, the joints or the elbow measured in
\* that same activation, and to a time counted from it, also when the robot was
\* moved elsewhere between two activations.  With inverse kinematics this is the
\* request; the joints that are commanded are those of the last solution, which
\* may be one asked for in an earlier activation, but never none at all.
FreshStart ==
  life = "active" /\ output.result # "none" =>
    /\ kind.capture # "never" => output.reference = activation
    /\ kind.clock # "never" => output.clock = activation
    /\ kind.ik /\ output.result # "waiting" => output.solution \in 1..activation

\* No update() of an active controller has its command refused: after any
\* number of activations and configurations the component holds exactly the
\* interfaces of one activation (setCommand(), set_values()), and the robot model
\* has found its own (FrankaRobotModel::initialize()).
EveryUpdateCommands == output.result # "error"

\* A get() whose answer cannot come any more: the hardware component goes away, the
\* controller manager's executor ended with a shutdown, or the publisher of the
\* description went away between the request and the answer.
NeverAnswered ==
  \/ owner \in {"joining", "gone"}
  \/ ~ok /\ (AtCollision \/ AtDescription)
  \/ AtDescription /\ fetch = "lost"

\* on_configure(), which blocks the controller manager until every service has
\* appeared and answered, comes to an end if they appear and stay in the end,
\* unless it waits for an answer that cannot come any more.  The loop that waits for
\* the inverse kinematics ends at a shutdown too.
ConfigureEnds ==
  <>[](step # 0 => up = Needed(kind)) => ((step # 0) ~> (step = 0 \/ NeverAnswered))
=============================================================================
