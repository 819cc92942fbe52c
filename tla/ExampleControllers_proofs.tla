---------------------- MODULE ExampleControllers_proofs ----------------------
(***************************************************************************)
(* Of the example controllers, for any number of activations: a motion     *)
(* starts from what was measured in its own activation, a solution of the  *)
(* inverse kinematics is commanded only when there is one, and no command  *)
(* is refused by the semantic component or the robot model it needs.  The  *)
(* types, of the services beside the controller too.                       *)
(***************************************************************************)
EXTENDS ExampleControllers, TLAPS

-----------------------------------------------------------------------------
(***************************************************************************)
(* The controllers                                                         *)
(***************************************************************************)
\* What the twelve controllers have in common: a component that carries
\* commands is released by on_deactivate(), and is commanded as it was made.
Releases(k) == k.component = NoComponent \/ "component" \in k.release

CommandFits(k) ==
  k.via = "component" =>
    /\ k.component.elbow = k.withElbow
    /\ k.component.commands \in Nat \ {0}
    /\ CommandSizeOf(k.component, k.withElbow) = k.component.commands

Captures(k) == k.capture \in {"never", "activate", "update"}

\* A command is as long as the interfaces it is meant for are many.
LEMMA PoseCommandFits ==
  ASSUME NEW elbow \in BOOLEAN
  PROVE  LET c == CartesianPoseInterface(elbow) IN
         /\ c.elbow = elbow /\ c.commands \in Nat \ {0}
         /\ CommandSizeOf(c, elbow) = c.commands
BY DEF CartesianPoseInterface, CommandSizeOf, PoseCommandSize

LEMMA VelocityCommandFits ==
  ASSUME NEW elbow \in BOOLEAN
  PROVE  LET c == CartesianVelocityInterface(elbow) IN
         /\ c.elbow = elbow /\ c.commands \in Nat \ {0}
         /\ CommandSizeOf(c, elbow) = c.commands
BY DEF CartesianVelocityInterface, CommandSizeOf, VelocityCommandSize

LEMMA ControllersFit ==
  ASSUME NEW k \in AllControllers
  PROVE  Releases(k) /\ CommandFits(k) /\ Captures(k)
<1>1. CASE k = JointPosition
  BY <1>1 DEF JointPosition, Basic, Releases, CommandFits, Captures
<1>2. CASE k = JointVelocity
  BY <1>2 DEF JointVelocity, Basic, Releases, CommandFits, Captures
<1>3. CASE k = JointVelocityInGazebo
  BY <1>3 DEF JointVelocityInGazebo, JointVelocity, Basic, Releases, CommandFits, Captures
<1>4. CASE k = JointImpedance
  BY <1>4 DEF JointImpedance, Basic, Releases, CommandFits, Captures
<1>5. CASE k = RobotModel
  BY <1>5 DEF RobotModel, Basic, Releases, CommandFits, Captures
<1>6. CASE k = MoveToStart
  BY <1>6 DEF MoveToStart, Basic, Releases, CommandFits, Captures
<1>7. CASE k = GravityCompensation
  BY <1>7 DEF GravityCompensation, Basic, Releases, CommandFits, Captures
<1>8. CASE k = JointImpedanceWithIK
  <2>1. /\ k.component = CartesianPoseInterface(FALSE)
        /\ k.withElbow = FALSE
        /\ k.release = {"component"}
        /\ k.capture \in {"never", "update"}
    BY <1>8 DEF JointImpedanceWithIK, Basic
  <2> QED BY <2>1, PoseCommandFits DEF Releases, CommandFits, Captures
<1>9. CASE k = CartesianPose
  <2>1. /\ k.component = CartesianPoseInterface(FALSE)
        /\ k.withElbow = FALSE
        /\ k.release = {"component"}
        /\ k.capture \in {"never", "update"}
    BY <1>9 DEF CartesianPose, Basic
  <2> QED BY <2>1, PoseCommandFits DEF Releases, CommandFits, Captures
<1>10. CASE k = CartesianOrientation
  <2>1. /\ k.component = CartesianPoseInterface(FALSE)
        /\ k.withElbow = FALSE
        /\ k.release = {"component"}
        /\ k.capture \in {"never", "update"}
    BY <1>10 DEF CartesianOrientation, Basic
  <2> QED BY <2>1, PoseCommandFits DEF Releases, CommandFits, Captures
<1>11. CASE k = CartesianElbow
  <2>1. /\ k.component = CartesianPoseInterface(TRUE)
        /\ k.withElbow = TRUE
        /\ k.release = {"component"}
        /\ k.capture \in {"never", "update"}
    BY <1>11 DEF CartesianElbow, Basic
  <2> QED BY <2>1, PoseCommandFits DEF Releases, CommandFits, Captures
<1>12. CASE k = CartesianVelocity
  <2>1. /\ k.component = CartesianVelocityInterface(FALSE)
        /\ k.withElbow = FALSE
        /\ k.release = {"component"}
        /\ k.capture \in {"never", "update"}
    BY <1>12 DEF CartesianVelocity, Basic
  <2> QED BY <2>1, VelocityCommandFits DEF Releases, CommandFits, Captures
<1>13. CASE k = ElbowVelocity
  <2>1. /\ k.component = CartesianVelocityInterface(TRUE)
        /\ k.withElbow = TRUE
        /\ k.release = {"component"}
        /\ k.capture \in {"never", "update"}
    BY <1>13 DEF ElbowVelocity, Basic
  <2> QED BY <2>1, VelocityCommandFits DEF Releases, CommandFits, Captures
<1> QED BY <1>1, <1>2, <1>3, <1>4, <1>5, <1>6, <1>7, <1>8, <1>9, <1>10,
           <1>11, <1>12, <1>13
       DEF AllControllers

-----------------------------------------------------------------------------
(***************************************************************************)
(* The invariant                                                           *)
(***************************************************************************)
LifeInv ==
  /\ kind \in Controllers
  /\ step # 0 => life = "unconfigured"

\* The component of the commands holds the interfaces of one activation, and
\* between two of them none.
HandlesInv ==
  kind.component # NoComponent =>
    /\ life \in {"unconfigured", "inactive"} => handles = <<>>
    /\ life = "active" => Len(handles) = 1

\* From its activation, or from the first update() on, a motion has its own
\* reference and time.
MotionInv ==
  life = "active" =>
    /\ kind.capture = "activate" \/ (kind.capture = "update" /\ ~flag) => reference = activation
    /\ kind.clock # "never" => clock = activation

\* The robot model keeps interfaces of activations, and has some while active.
ModelInv ==
  /\ modelHandles \in Seq(Nat \ {0})
  /\ life = "active" /\ kind.model => modelHandles # <<>>

\* Inverse kinematics were asked for, and solved, in activations there have been.
SolutionInv ==
  /\ activation \in Nat /\ (life = "active" => activation # 0)
  /\ asked \subseteq 1..activation
  /\ solution \in 0..activation

IInv ==
  /\ LifeInv /\ HandlesInv /\ MotionInv /\ ModelInv /\ SolutionInv
  /\ EveryUpdateCommands /\ FreshStart

LEMMA InitInv == Init => IInv
<1> SUFFICES ASSUME Init PROVE IInv
  OBVIOUS
<1>1. LifeInv /\ HandlesInv /\ MotionInv /\ EveryUpdateCommands /\ FreshStart
  BY DEF Init, LifeInv, HandlesInv, MotionInv, EveryUpdateCommands, FreshStart, NoOutput
<1>2. ModelInv /\ SolutionInv
  BY DEF Init, ModelInv, SolutionInv
<1> QED BY <1>1, <1>2 DEF IInv

\* The controller is one of the repository's.
LEMMA KindFits == LifeInv => Releases(kind) /\ CommandFits(kind) /\ Captures(kind)
BY ControllersFit, ControllersAssumption DEF ControllersAssumption, LifeInv

\* on_configure() of every controller is a finite list of steps.
LEMMA ConfigureIsFinite == ASSUME NEW k \in AllControllers PROVE Len(k.configure) \in Nat
<1>1. CASE k \in {JointPosition, JointVelocity, JointVelocityInGazebo, JointImpedance}
  BY <1>1 DEF JointPosition, JointVelocity, JointVelocityInGazebo, JointImpedance, Basic
<1>2. CASE k \in {JointImpedanceWithIK, CartesianPose, CartesianOrientation}
  BY <1>2 DEF JointImpedanceWithIK, CartesianPose, CartesianOrientation, Basic
<1>3. CASE k \in {CartesianVelocity, CartesianElbow, ElbowVelocity}
  BY <1>3 DEF CartesianVelocity, CartesianElbow, ElbowVelocity, Basic
<1>4. CASE k \in {RobotModel, MoveToStart, GravityCompensation}
  BY <1>4 DEF RobotModel, MoveToStart, GravityCompensation, Basic
<1> QED BY <1>1, <1>2, <1>3, <1>4 DEF AllControllers

LEMMA KindIsFinite == LifeInv => Len(kind.configure) \in Nat
BY ConfigureIsFinite, ControllersAssumption DEF ControllersAssumption, LifeInv

-----------------------------------------------------------------------------
(***************************************************************************)
(* The steps                                                               *)
(***************************************************************************)
LEMMA StutterInv == ASSUME IInv, UNCHANGED <<kind, life, step, motion>> PROVE IInv'
BY DEF IInv, LifeInv, HandlesInv, MotionInv, ModelInv, SolutionInv, EveryUpdateCommands,
       FreshStart, motion

\* A step of on_configure() finds the controller unconfigured.
LEMMA UnconfiguredAt == ASSUME LifeInv, NEW s, At(s) PROVE step # 0 /\ life = "unconfigured"
BY DEF LifeInv, At

\* StartConfigure, Configuring and Cleanup: the component, or the robot model, may
\* be made anew, which leaves it empty.
LEMMA ConfigureInv == ASSUME IInv, StartConfigure \/ Configuring \/ Cleanup PROVE IInv'
<1> USE DEF motion, controllerVars
<1>0. /\ LifeInv /\ HandlesInv /\ MotionInv /\ ModelInv /\ SolutionInv
      /\ EveryUpdateCommands /\ FreshStart
  BY DEF IInv
<1>1. /\ UNCHANGED <<kind, activation, flag, reference, clock, solution, asked, output>>
      /\ handles' \in {handles, <<>>} /\ modelHandles' \in {modelHandles, <<>>}
  BY DEF StartConfigure, Configuring, Cleanup, EndConfigure, CheckGains, MakeComponent,
         MakeModel, AwaitIK, AwaitCollisionServer, InterruptAwait, AskCollision,
         CollisionAnswered, AskDescription, DescriptionArrives, release_interfaces
<1>2. /\ life' # "active" /\ life # "active"
      /\ step' # 0 => life' = "unconfigured"
      /\ life' \in {"unconfigured", "inactive"} => life \in {"unconfigured", "inactive"}
  <2>1. CASE StartConfigure
    BY <1>0, <2>1 DEF StartConfigure
  <2>2. CASE Cleanup
    BY <1>0, <2>2 DEF Cleanup
  <2>3. CASE EndConfigure
    <3>1. Len(kind.configure) + 1 # 0
      BY <1>0, KindIsFinite DEF LifeInv
    <3> QED BY <1>0, <2>3, <3>1 DEF EndConfigure, LifeInv
  <2>4. CASE CheckGains \/ MakeComponent \/ MakeModel
    BY <1>0, <2>4, UnconfiguredAt DEF CheckGains, MakeComponent, MakeModel, Proceed, Fail
  <2>5. CASE AwaitIK \/ AwaitCollisionServer \/ InterruptAwait
    BY <1>0, <2>5, UnconfiguredAt DEF AwaitIK, AwaitCollisionServer, InterruptAwait, Proceed,
                                      Break
  <2>6. CASE AskCollision
    BY <1>0, <2>6, UnconfiguredAt DEF AskCollision, AtCollision
  <2>7. CASE CollisionAnswered
    BY <1>0, <2>7, UnconfiguredAt DEF CollisionAnswered, AtCollision, Proceed, Break
  <2>8. CASE AskDescription
    BY <1>0, <2>8, UnconfiguredAt DEF AskDescription, AtDescription
  <2>9. ASSUME NEW d, DescriptionArrives(d)
        PROVE  <1>2!1 /\ <1>2!2 /\ <1>2!3
    BY <1>0, <2>9, UnconfiguredAt DEF DescriptionArrives, AtDescription, Proceed, Break
  <2> QED BY <2>1, <2>2, <2>3, <2>4, <2>5, <2>6, <2>7, <2>8, <2>9 DEF Configuring
<1>3. LifeInv' /\ HandlesInv' /\ MotionInv' /\ EveryUpdateCommands' /\ FreshStart'
  BY <1>0, <1>1, <1>2 DEF LifeInv, HandlesInv, MotionInv, EveryUpdateCommands, FreshStart
<1>4. SolutionInv'
  BY <1>0, <1>1, <1>2 DEF SolutionInv
<1>5. ModelInv'
  <2>1. <<>> \in Seq(Nat \ {0})
    OBVIOUS
  <2> QED BY <1>0, <1>1, <1>2, <2>1 DEF ModelInv
<1> QED BY <1>3, <1>4, <1>5 DEF IInv

LEMMA ActivateInv == ASSUME IInv, Activate PROVE IInv'
<1>0. LifeInv /\ HandlesInv /\ ModelInv /\ SolutionInv
  BY DEF IInv
<1>1. LifeInv'
  BY <1>0 DEF LifeInv, Activate
<1>2. HandlesInv'
  BY <1>0 DEF HandlesInv, Activate, Assign
<1>3. MotionInv'
  BY DEF MotionInv, Activate
<1>4. EveryUpdateCommands' /\ FreshStart'
  BY DEF EveryUpdateCommands, FreshStart, Activate, NoOutput
<1>5. SolutionInv'
  BY <1>0 DEF SolutionInv, Activate
<1>6. ModelInv'
  <2>1. activation' \in Nat \ {0} /\ modelHandles \in Seq(Nat \ {0})
    BY <1>0 DEF SolutionInv, ModelInv, Activate
  <2>2. /\ Append(modelHandles, activation') \in Seq(Nat \ {0})
        /\ Append(modelHandles, activation') # <<>>
    BY <2>1
  <2> QED BY <2>1, <2>2 DEF ModelInv, Activate, Assign
<1> QED BY <1>1, <1>2, <1>3, <1>4, <1>5, <1>6 DEF IInv

LEMMA DeactivateInv == ASSUME IInv, Deactivate PROVE IInv'
<1>0. LifeInv /\ EveryUpdateCommands /\ ModelInv /\ SolutionInv
  BY DEF IInv
<1>1. LifeInv'
  BY <1>0 DEF LifeInv, Deactivate
<1>2. HandlesInv'
  BY <1>0, KindFits DEF HandlesInv, Releases, Deactivate, release_interfaces
<1>3. MotionInv' /\ EveryUpdateCommands' /\ FreshStart'
  BY DEF MotionInv, EveryUpdateCommands, FreshStart, Deactivate, NoOutput
<1>4. SolutionInv'
  BY <1>0 DEF SolutionInv, Deactivate
<1>5. ModelInv'
  <2>1. <<>> \in Seq(Nat \ {0})
    OBVIOUS
  <2> QED BY <1>0, <2>1 DEF ModelInv, Deactivate, release_interfaces
<1> QED BY <1>1, <1>2, <1>3, <1>4, <1>5 DEF IInv

\* The command has the size the component was made for, and the component one
\* activation's interfaces: it is accepted.
LEMMA CommandAccepted ==
  ASSUME IInv, life = "active", kind.via = "component"
  PROVE  setCommand(kind.component, kind.withElbow, handles)
<1>1. CommandFits(kind)
  BY KindFits DEF IInv
<1>2. Len(handles) = 1
  BY <1>1 DEF IInv, HandlesInv, CommandFits, NoComponent
<1> QED BY <1>1, <1>2 DEF setCommand, set_values, CommandFits

\* The robot model finds an interface, now or before.
LEMMA ModelFound ==
  ASSUME ModelInv, life = "active", kind.model
  PROVE  initialize(modelHandles, modelFrom) # 0
<1>1. Head(modelHandles) \in Nat \ {0}
  BY DEF ModelInv
<1> QED BY <1>1 DEF ModelInv, initialize

LEMMA UpdateInv == ASSUME IInv, Update PROVE IInv'
<1> DEFINE waits == kind.ik /\ solution = 0
<1>0. LifeInv /\ HandlesInv /\ MotionInv /\ ModelInv /\ SolutionInv /\ life = "active"
  BY DEF IInv, Update
<1>1. LifeInv' /\ HandlesInv' /\ ModelInv'
  BY <1>0 DEF LifeInv, HandlesInv, ModelInv, Update
<1>2. MotionInv'
  BY <1>0 DEF MotionInv, Update
<1>3. EveryUpdateCommands'
  <2>1. CASE waits
    BY <2>1 DEF EveryUpdateCommands, Update
  <2>2. CASE ~waits
    <3>1. kind.model => modelFrom' # 0
      BY <1>0, <2>2, ModelFound DEF Update
    <3>2. kind.via = "component" => setCommand(kind.component, kind.withElbow, handles)
      BY <1>0, CommandAccepted
    <3> QED BY <2>2, <3>1, <3>2 DEF EveryUpdateCommands, Update
  <2> QED BY <2>1, <2>2
<1>4. SolutionInv'
  <2>1. activation \in 1..activation
    BY <1>0 DEF SolutionInv
  <2> QED BY <1>0, <2>1 DEF SolutionInv, Update
<1>5. FreshStart'
  <2>1. output'.reference = reference' /\ output'.clock = clock' /\ output'.solution = solution
    BY DEF Update
  <2>2. kind' = kind /\ activation' = activation /\ life' = "active"
    BY <1>0 DEF Update
  <2>3. kind.capture # "never" => reference' = activation
    BY <1>0, KindFits DEF MotionInv, Captures, Update
  <2>4. kind.clock # "never" => clock' = activation
    BY <1>0 DEF MotionInv, Update
  <2>5. kind.ik /\ output'.result # "waiting" => solution \in 1..activation
    BY <1>0 DEF SolutionInv, Update
  <2> QED BY <2>1, <2>2, <2>3, <2>4, <2>5 DEF FreshStart
<1> QED BY <1>1, <1>2, <1>3, <1>4, <1>5 DEF IInv

LEMMA AnswerInv ==
  ASSUME IInv, NEW a \in asked, IKAnswered(a)
  PROVE  IInv'
<1>1. SolutionInv'
  BY DEF IInv, SolutionInv, IKAnswered
<1> QED BY <1>1 DEF IInv, LifeInv, HandlesInv, MotionInv, ModelInv, EveryUpdateCommands,
                    FreshStart, IKAnswered

LEMMA StepInv == ASSUME IInv, [Next]_vars PROVE IInv'
<1>1. CASE ServiceStep \/ UNCHANGED vars
  BY <1>1, StutterInv DEF ServiceStep, vars, controllerVars
<1>2. ASSUME NEW c, NEW s, UserSends(c, s) PROVE IInv'
  BY <1>2, StutterInv DEF UserSends, controllerVars
<1>3. ASSUME NEW s, Appears(s) \/ Disappears(s) PROVE IInv'
  BY <1>3, StutterInv DEF Appears, Disappears
<1> QED BY <1>1, <1>2, <1>3, ConfigureInv, ActivateInv, DeactivateInv, UpdateInv, AnswerInv
           DEF Next

-----------------------------------------------------------------------------
(***************************************************************************)
(* The theorems                                                            *)
(***************************************************************************)
\* Whatever was configured, released and appended before, setCommand() of the
\* semantic components never refuses the command of an active controller, and the
\* robot model it evaluates has been found.
THEOREM EveryUpdateCommandsAlways == Spec => []EveryUpdateCommands
<1>1. IInv => EveryUpdateCommands
  BY DEF IInv
<1> QED BY InitInv, StepInv, <1>1, PTL DEF Spec

\* update() never moves from a reference, or counts from a time, that an
\* earlier activation left; joints that inverse kinematics solved are commanded
\* only after a solution has arrived, which may have been asked for earlier.
THEOREM FreshStartAlways == Spec => []FreshStart
<1>1. IInv => FreshStart
  BY DEF IInv
<1> QED BY InitInv, StepInv, <1>1, PTL DEF Spec
-----------------------------------------------------------------------------
(***************************************************************************)
(* Types                                                                   *)
(***************************************************************************)
\* The controller's own variables.
StepTypeOK == kind \in Controllers /\ step \in 0..Len(kind.configure) + 1

MotionTypeOK ==
  /\ life \in {"unconfigured", "inactive", "active", "finalized"}
  /\ named \in BOOLEAN /\ flag \in BOOLEAN
  /\ activation \in Activations /\ reference \in Activations /\ clock \in Activations
  /\ handles \in Seq(Activations) /\ modelHandles \in Seq(Activations)
  /\ modelFrom \in Activations /\ solution \in Activations
  /\ asked \subseteq Activations
  /\ output.result \in {"none", "ok", "error", "waiting"}
  /\ up \subseteq {"robot_state_publisher", "compute_ik"}
  /\ fetch \in {"none", "sent", "lost"}

LEMMA TypeParts == TypeOK <=> ServicesTypeOK /\ StepTypeOK /\ MotionTypeOK
BY DEF TypeOK, StepTypeOK, MotionTypeOK

LEMMA TypePartsNext == ServicesTypeOK' /\ StepTypeOK' /\ MotionTypeOK' => TypeOK'
BY DEF TypeOK, StepTypeOK, MotionTypeOK

LEMMA NeededTyped == ASSUME NEW k PROVE Needed(k) \subseteq {"robot_state_publisher", "compute_ik"}
BY DEF Needed

LEMMA ZeroIsActivation == 0 \in Activations
BY ActivationsAssumption DEF ActivationsAssumption, Activations

LEMMA LengthIsNat == ASSUME StepTypeOK PROVE Len(kind.configure) \in Nat
BY ConfigureIsFinite, ControllersAssumption DEF StepTypeOK, ControllersAssumption

LEMMA InitTyped == Init => TypeOK
<1> SUFFICES ASSUME Init PROVE TypeOK
  OBVIOUS
<1>1. ServicesTypeOK
  BY DEF Init, ServicesInit, ServicesTypeOK
<1>2. StepTypeOK
  <2>1. Len(kind.configure) \in Nat
    BY ConfigureIsFinite, ControllersAssumption DEF Init, ControllersAssumption
  <2> QED BY <2>1 DEF Init, StepTypeOK
<1>3. MotionTypeOK
  <2>1. named \in BOOLEAN /\ flag \in BOOLEAN
    BY DEF Init
  <2>2. handles \in Seq(Activations) /\ modelHandles \in Seq(Activations)
    BY DEF Init
  <2>3. output.result = "none"
    BY DEF Init, NoOutput
  <2> QED BY <2>1, <2>2, <2>3, ZeroIsActivation DEF Init, MotionTypeOK
<1> QED BY <1>1, <1>2, <1>3, TypeParts

LEMMA SendTyped ==
  ASSUME ServicesTypeOK, NEW c \in Clients, NEW s \in Services, Send(c, s),
         UNCHANGED <<ok, owner, executor, worker, stage, writeLock>>
  PROVE  ServicesTypeOK'
BY DEF ServicesTypeOK, Send

LEMMA ReplyTyped ==
  ASSUME ServicesTypeOK, NEW n \in Nodes, NEW r \in Results, Reply(n, r)
  PROVE  /\ request' \in [Clients -> Services \cup {NoRequest}]
         /\ worker' \in [Nodes -> Clients \cup {Nobody}]
         /\ stage' \in [Nodes -> {"idle", "lock", "robot"}]
         /\ answer' \in [Clients -> {NoAnswer} \cup Results]
<1>1. /\ request \in [Clients -> Services \cup {NoRequest}]
      /\ worker \in [Nodes -> Clients \cup {Nobody}]
      /\ stage \in [Nodes -> {"idle", "lock", "robot"}]
      /\ answer \in [Clients -> {NoAnswer} \cup Results]
  BY DEF ServicesTypeOK
<1>2. r \in {NoAnswer} \cup Results
  OBVIOUS
<1>3. /\ request' = [request EXCEPT ![worker[n]] = NoRequest]
      /\ worker' = [worker EXCEPT ![n] = Nobody]
      /\ stage' = [stage EXCEPT ![n] = "idle"]
      /\ answer' = [answer EXCEPT ![worker[n]] = r]
  BY DEF Reply
<1>4. request' \in [Clients -> Services \cup {NoRequest}]
  BY <1>1, <1>3
<1>5. worker' \in [Nodes -> Clients \cup {Nobody}]
  BY <1>1, <1>3
<1>6. stage' \in [Nodes -> {"idle", "lock", "robot"}]
  BY <1>1, <1>3
<1>7. answer' \in [Clients -> {NoAnswer} \cup Results]
  BY <1>1, <1>2, <1>3
<1> QED BY <1>4, <1>5, <1>6, <1>7

LEMMA ServicesTyped == ASSUME ServicesTypeOK, ServiceStep PROVE ServicesTypeOK'
<1> USE DEF ServicesTypeOK
<1>1. CASE MakeExecutor \/ DestroyExecutor \/ ExecutorSpins \/ ConstructorReturns
           \/ Shutdown \/ ExecutorInterrupted \/ ExecutorEnds \/ JoinReturns
  BY <1>1 DEF MakeExecutor, DestroyExecutor, ExecutorSpins, ConstructorReturns, Shutdown,
              ExecutorInterrupted, ExecutorEnds, JoinReturns
<1>2. ASSUME NEW c \in Clients, TakeUp(c) PROVE ServicesTypeOK'
  BY <1>2 DEF TakeUp, NodeOf, Nodes
<1>3. ASSUME NEW n \in Nodes, LockWrites(n) PROVE ServicesTypeOK'
  BY <1>3 DEF LockWrites
<1>4. ASSUME NEW n \in Nodes, NEW r \in Results, SetParameter(n, r) PROVE ServicesTypeOK'
  BY <1>4, ReplyTyped DEF SetParameter
<1>5. ASSUME NEW n \in Nodes, NEW r \in Results, Recover(n, r) PROVE ServicesTypeOK'
  BY <1>5, ReplyTyped DEF Recover
<1> QED BY <1>1, <1>2, <1>3, <1>4, <1>5 DEF ServiceStep, ServeNext

LEMMA ConfigureTyped == ASSUME TypeOK, StartConfigure \/ Configuring \/ Cleanup PROVE TypeOK'
<1> USE DEF motion, controllerVars
<1>0. ServicesTypeOK /\ StepTypeOK /\ MotionTypeOK /\ Len(kind.configure) \in Nat
  BY TypeParts, LengthIsNat
<1>1. StepTypeOK'
  <2>1. kind' = kind
    BY DEF StartConfigure, Configuring, Cleanup, EndConfigure, CheckGains, MakeComponent,
           MakeModel, AwaitIK, AwaitCollisionServer, InterruptAwait, AskCollision,
           CollisionAnswered, AskDescription, DescriptionArrives
  <2>2. \/ step' \in {step, 0, 1}
        \/ step \in 1..Len(kind.configure) /\ step' \in {step - 1, step + 1}
    <3>1. CASE StartConfigure \/ Cleanup \/ EndConfigure \/ AskCollision \/ AskDescription
      BY <3>1 DEF StartConfigure, Cleanup, EndConfigure, AskCollision, AskDescription
    <3>2. CASE CheckGains \/ MakeComponent \/ MakeModel
      BY <3>2 DEF CheckGains, MakeComponent, MakeModel, At, Proceed, Fail
    <3>3. CASE CollisionAnswered
      BY <3>3 DEF CollisionAnswered, AtCollision, At, Proceed, Break
    <3>4. CASE AwaitIK \/ AwaitCollisionServer \/ InterruptAwait
      BY <3>4 DEF AwaitIK, AwaitCollisionServer, InterruptAwait, At, Proceed, Break
    <3>5. ASSUME NEW d, DescriptionArrives(d) PROVE <2>2
      BY <3>5 DEF DescriptionArrives, AtDescription, At, Proceed, Break
    <3> QED BY <3>1, <3>2, <3>3, <3>4, <3>5 DEF Configuring
  <2> QED BY <1>0, <2>1, <2>2 DEF StepTypeOK
<1>2. ServicesTypeOK'
  <2>1. CASE UNCHANGED serviceVars
    BY <1>0, <2>1 DEF ServicesTypeOK, serviceVars
  <2>2. CASE AskCollision
    BY <1>0, <2>2, SendTyped, ServicesAssumption DEF AskCollision, ServicesAssumption, Services
  <2>3. CASE CollisionAnswered
    BY <1>0, <2>3 DEF CollisionAnswered, ServicesTypeOK
  <2> QED BY <2>1, <2>2, <2>3 DEF StartConfigure, Configuring, Cleanup, EndConfigure, CheckGains,
                                  MakeComponent, MakeModel, AwaitIK, AwaitCollisionServer,
                                  InterruptAwait, AskDescription, DescriptionArrives
<1>3. MotionTypeOK'
  <2>0. up' \subseteq {"robot_state_publisher", "compute_ik"} /\ fetch' \in {"none", "sent", "lost"}
    <3>1. up' \subseteq up \/ up' \subseteq Needed(kind)
      BY DEF StartConfigure, Configuring, Cleanup, EndConfigure, CheckGains, MakeComponent,
             MakeModel, AwaitIK, AwaitCollisionServer, InterruptAwait, AskCollision,
             CollisionAnswered, AskDescription, DescriptionArrives, Proceed, Fail, Break, external
    <3>2. fetch' = fetch \/ fetch' \in {"none", "sent", "lost"}
      BY DEF StartConfigure, Configuring, Cleanup, EndConfigure, CheckGains, MakeComponent,
             MakeModel, AwaitIK, AwaitCollisionServer, InterruptAwait, AskCollision,
             CollisionAnswered, AskDescription, DescriptionArrives, external
    <3> QED BY <1>0, <3>1, <3>2, NeededTyped DEF MotionTypeOK
  <2>1. CASE StartConfigure \/ Cleanup \/ EndConfigure \/ CheckGains \/ AskCollision
             \/ AskDescription
    BY <1>0, <2>0, <2>1 DEF StartConfigure, Cleanup, EndConfigure, CheckGains, AskCollision,
                            AskDescription, Proceed, Fail, MotionTypeOK
  <2>2. CASE CollisionAnswered \/ AwaitIK \/ AwaitCollisionServer \/ InterruptAwait
    BY <1>0, <2>0, <2>2 DEF CollisionAnswered, AwaitIK, AwaitCollisionServer, InterruptAwait,
                            Proceed, Break, MotionTypeOK
  <2>3. CASE MakeComponent \/ MakeModel
    <3>1. /\ handles' = handles \/ handles' = <<>>
          /\ modelHandles' = modelHandles \/ modelHandles' = <<>>
          /\ modelFrom' = modelFrom \/ modelFrom' = 0
      BY <2>3 DEF MakeComponent, MakeModel, release_interfaces
    <3>2. /\ handles' \in Seq(Activations) /\ modelHandles' \in Seq(Activations)
          /\ modelFrom' \in Activations
      <4>1. <<>> \in Seq(Activations)
        OBVIOUS
      <4>2. /\ handles \in Seq(Activations) /\ modelHandles \in Seq(Activations)
            /\ modelFrom \in Activations
        BY <1>0 DEF MotionTypeOK
      <4> QED BY <3>1, <4>1, <4>2, ZeroIsActivation
    <3>3. UNCHANGED <<life, named, flag, activation, reference, clock, solution, asked, output>>
      BY <2>3 DEF MakeComponent, MakeModel, Proceed
    <3> QED BY <1>0, <2>0, <3>2, <3>3 DEF MotionTypeOK
  <2>4. ASSUME NEW d \in {"names robot", "empty", "missing"}, DescriptionArrives(d)
        PROVE  MotionTypeOK'
    <3>1. named' \in BOOLEAN
      <4>1. named' \in {TRUE, FALSE, named}
        BY <2>4 DEF DescriptionArrives
      <4> QED BY <1>0, <4>1 DEF MotionTypeOK
    <3>2. life' \in {life, "finalized"}
      BY <2>4 DEF DescriptionArrives, Proceed, Break
    <3> QED BY <1>0, <2>0, <2>4, <3>1, <3>2 DEF DescriptionArrives, MotionTypeOK
  <2> QED BY <2>1, <2>2, <2>3, <2>4 DEF Configuring
<1> QED BY <1>1, <1>2, <1>3, TypePartsNext

LEMMA ControlTyped ==
  ASSUME TypeOK, Activate \/ Deactivate \/ Update
  PROVE  TypeOK'
<1>0. ServicesTypeOK /\ StepTypeOK /\ MotionTypeOK
  BY TypeParts
<1>1. UNCHANGED <<serviceVars, kind, step, up, fetch>>
  BY DEF Activate, Deactivate, Update, external
<1>2. ServicesTypeOK' /\ StepTypeOK'
  BY <1>0, <1>1 DEF ServicesTypeOK, serviceVars, StepTypeOK
<1>3. CASE Activate
  <2>1. activation' \in Activations
    BY <1>0, <1>3, ActivationsAssumption DEF Activate, MotionTypeOK, Activations,
                                             ActivationsAssumption
  <2>2. handles' \in Seq(Activations) /\ modelHandles' \in Seq(Activations)
    BY <1>0, <1>3, <2>1 DEF Activate, MotionTypeOK, Assign
  <2>3. reference' \in Activations /\ clock' \in Activations
    BY <1>0, <1>3, <2>1 DEF Activate, MotionTypeOK
  <2>4. MotionTypeOK'
    BY <1>0, <1>1, <1>3, <2>1, <2>2, <2>3 DEF Activate, MotionTypeOK, NoOutput
  <2> QED BY <1>2, <2>4, TypePartsNext
<1>4. CASE Deactivate
  <2>1. handles' \in Seq(Activations) /\ modelHandles' \in Seq(Activations)
    BY <1>0, <1>4 DEF Deactivate, MotionTypeOK, release_interfaces
  <2>2. MotionTypeOK'
    BY <1>0, <1>1, <1>4, <2>1 DEF Deactivate, MotionTypeOK, NoOutput
  <2> QED BY <1>2, <2>2, TypePartsNext
<1>5. CASE Update
  <2>1. modelFrom' \in Activations
    BY <1>0, <1>5 DEF Update, MotionTypeOK, initialize
  <2>2. output'.result \in {"none", "ok", "error", "waiting"}
    BY <1>5 DEF Update
  <2>3. /\ reference' \in Activations /\ clock' \in Activations
        /\ asked' \subseteq Activations /\ flag' \in BOOLEAN
    BY <1>0, <1>5 DEF Update, MotionTypeOK
  <2>4. MotionTypeOK'
    BY <1>0, <1>1, <1>5, <2>1, <2>2, <2>3 DEF Update, MotionTypeOK
  <2> QED BY <1>2, <2>4, TypePartsNext
<1> QED BY <1>3, <1>4, <1>5

LEMMA AnswerTyped ==
  ASSUME TypeOK, NEW a \in asked, IKAnswered(a)
  PROVE  TypeOK'
<1>0. ServicesTypeOK /\ StepTypeOK /\ MotionTypeOK
  BY TypeParts
<1>1. ServicesTypeOK' /\ StepTypeOK'
  BY <1>0 DEF ServicesTypeOK, serviceVars, StepTypeOK, IKAnswered
<1>2. MotionTypeOK'
  BY <1>0 DEF MotionTypeOK, IKAnswered, external
<1> QED BY <1>1, <1>2, TypePartsNext

LEMMA ControllerUnchanged ==
  ASSUME TypeOK, ServicesTypeOK', UNCHANGED controllerVars
  PROVE  TypeOK'
<1>0. StepTypeOK /\ MotionTypeOK
  BY TypeParts
<1>1. StepTypeOK' /\ MotionTypeOK'
  BY <1>0 DEF StepTypeOK, MotionTypeOK, controllerVars, motion, external
<1> QED BY <1>1, TypePartsNext

LEMMA StepTyped == ASSUME TypeOK, [Next]_vars PROVE TypeOK'
<1>0. ServicesTypeOK
  BY TypeParts
<1>1. CASE ServiceStep
  BY <1>0, <1>1, ServicesTyped, ControllerUnchanged DEF ServiceStep
<1>2. ASSUME NEW c \in Clients, NEW s \in Services, UserSends(c, s) PROVE TypeOK'
  BY <1>0, <1>2, SendTyped, ControllerUnchanged DEF UserSends
<1>3. CASE UNCHANGED vars
  <2>1. ServicesTypeOK'
    BY <1>0, <1>3 DEF ServicesTypeOK, serviceVars, vars
  <2> QED BY <1>3, <2>1, ControllerUnchanged DEF vars
<1>4. ASSUME NEW s \in Needed(kind), Appears(s) \/ Disappears(s) PROVE TypeOK'
  <2>0. StepTypeOK /\ MotionTypeOK
    BY TypeParts
  <2>1. ServicesTypeOK' /\ StepTypeOK'
    BY <1>0, <1>4, <2>0 DEF Appears, Disappears, ServicesTypeOK, serviceVars, StepTypeOK
  <2>2. up' \subseteq {"robot_state_publisher", "compute_ik"} /\ fetch' \in {"none", "sent", "lost"}
    BY <1>4, <2>0, NeededTyped DEF Appears, Disappears, MotionTypeOK
  <2>3. MotionTypeOK'
    BY <1>4, <2>0, <2>2 DEF Appears, Disappears, MotionTypeOK, motion
  <2> QED BY <2>1, <2>3, TypePartsNext
<1> QED BY <1>1, <1>2, <1>3, <1>4, ConfigureTyped, ControlTyped, AnswerTyped DEF Next

\* Every variable keeps its type: on_configure() never runs past its last step, and
\* no more is read of the robot model than was loaned.
THEOREM TypeCorrect == Spec => []TypeOK
BY InitTyped, StepTyped, PTL DEF Spec
=============================================================================
