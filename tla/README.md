# Formal models of the Franka ROS 2 stack

This directory holds TLA+ models of the code in this repository: a fork of
`franka_ros2` (hardware component, gripper node, controllers, task pipeline),
with `ros2_effort_controller`, `franka_description` and the launch package
`idra_franka_launch`.  Paths below are relative to `src/`.

## The system

| component | code | state it keeps | operations | talks to |
|---|---|---|---|---|
| hardware component | `franka_ros2/franka_hardware/src/franka_hardware_interface.cpp` | claimed, running and first-update flags per mode, command buffers | prepare and perform a mode switch, read, write, activate, deactivate | controller manager (calls), Robot (calls) |
| robot wrapper | `franka_hardware/src/robot.cpp` | the control session, a dispatch flag per mode | start and stop a session, dispatch a command, read a state | libfranka |
| parameter services, error recovery | `franka_param_service_server.cpp`, `franka_action_server.cpp`, `franka_executor.cpp` | an executor's thread, the write lock of the Robot | one blocking libfranka call per request | Robot, from the executor's threads |
| semantic components | `franka_semantic_components/src/*.cpp` | loaned interfaces, the message of the robot state | assign, release, set a command, fill a message | controllers, hardware component |
| robot state broadcaster | `franka_robot_state_broadcaster/src/*.cpp` | one message, two locks, a flag and a condition variable, a thread | lifecycle, `update()`, publication, destruction | realtime publisher, topics |
| example controllers | `franka_example_controllers/src/*_example_controller.cpp` | initialization flag, reference, elapsed time, components | lifecycle, `update()`, answers of inverse kinematics | services, semantic components |
| gripper action server | `franka_gripper/src/gripper_action_server.cpp` and header | cached gripper state, one thread and one future per goal | four actions, cancellation, stop service, state timer | libfranka's gripper |
| task controller | `franka_example_controllers/src/move_catersian_impedance_with_gripper.cpp` | task, task command, finish flags, gripper request and result flags, log | control loop, gripper timer, housekeeping timer, command and result callbacks | gripper actions, `/task_cmd` |
| move-to-start controller, kinematics | `move_to_start_with_gripper.cpp`, `pinocchio_kinematics.cpp` | goal, start, elapsed time, finished flag, the kinematic model | lifecycle, wait for the description, inverse kinematics, `update()` | `robot_description`, arm |
| gripper example controller | `gripper_example_controller.cpp` | gripper handshake | control loop, callbacks | gripper actions |
| task pipeline and keyboard | `franka_task_pipeline/src/*.cpp` | pipeline state, time of its last change | commands, timeout timer | `/task_cmd` |
| effort controllers | `ros2_effort_controller/*/src/*.cpp` | configured and active flags, handles, last efforts, targets | lifecycle, subscriptions, rate limit, clamp | controller manager |
| Gazebo component and plugin | `franka_gazebo/franka_ign_ros2_control/src/*.cpp` | control method and command buffers per joint, the kinematic chain, the executor's thread | configure, mode switch, write before and update after each step | simulator, controller manager |
| motion generation, learned policy, launch, scripts, description | see `PROJECT.json` | numeric state, configuration | | |

What is hard in this code is the order of things: a mode switch is prepared by
one thread and performed by another; the blocks of the switch act in a fixed
order whatever was asked; flags survive deactivation and failures; commands
loaded by `read()` must precede the first `write()`; gripper goals, their
cancellation and the commands they send run in different threads; the task
controller hands requests to timers and gets results from callbacks.
`PROJECT.json` lists these hazards at their lines.

What makes each part correct:

- hardware component: the flags and the robot's session agree; a successful
  switch leaves a session for the mode it started; a command is sent as what it
  is; a session never receives a position, a pose, or an elbow beside a pose, from
  before it began;
  a session is commanded until it ends;
- gripper server: each goal ends once, a cancelled goal no longer moves the
  gripper, a stopped one does not start;
- task controller and pipeline: tasks follow each other in the one legal order,
  a request to the gripper is sent once and its result belongs to it, both
  state machines agree on the state of the arm;
- effort controllers: efforts that are numbers stay within the limits and change by
  at most the increment per cycle, and none is NaN but by way of a vector that is
  unset or too short; a controller follows only what it was sent since its
  activation, but for a target whose callback the activation fell into;
- example controllers: the reference of a motion is where the arm is in this
  activation, the component of the commands holds the interfaces of one
  activation, and a configuration whose services appear and stay comes to an end;
- move-to-start: the goal is one that was configured or solved, the reference of
  the first motion to it never runs ahead of the time, and the motion ends;
- broadcaster: what is published is one state of the robot, states go on being
  published, and the thread can be joined;
- Gazebo component: a held joint does what its holder commands, a released one
  rests, and the chain whose weight is compensated is the arm's.

## Modules

- `FrankaRobot` models `Robot` as operators on the record `hw`: `stopRobot`,
  `initializeInterface` (the five `initialize*Interface()`), and the two
  `writeOnce()`, which return the mode as which a vector is sent.
- `FrankaHardware` models `FrankaHardwareInterface` and its caller.  `hw` holds
  the flags of the code: `claimed`, `running` and `first` are the sets of the
  types whose `*_interface_claimed_`, `*_interface_running_` and
  `first_*_update_` are true, `nonfinite` the buffers that hold a NaN or an
  infinity, `control` and `active` the session and the dispatch flags of the
  Robot.  `measured` is a history variable: the buffers loaded from a measured
  state since the session began.  Actions and code:

  | action | code |
  |---|---|
  | `RequestSwitch` | `prepare_command_mode_switch()`, on behalf of the controller manager's switch service |
  | `Perform` | `perform_command_mode_switch()`, which the control loop calls for a prepared switch |
  | `Read`, `ReadThrows` | `read()`; libfranka throws |
  | `Update` | the active controllers write their interfaces (external) |
  | `Write` | `write()` with `Robot::writeOnce()` |
  | `Configure`, `Activate`, `Deactivate` | lifecycle callbacks |

- `MCFrankaHardware` names controllers by what they claim: the example
  controllers of the repository (`torque` is the joint impedance example,
  `twist_elbow` the Cartesian elbow example, and so on) and some that
  claim part of a type (`mixed`), everything (`all`) or other hardware only.
- `FrankaHardware_proofs` holds the theorems.

- `ActionGoals` is the abstract life of an action goal on one device: accepted,
  perhaps cancelled, moved at most once and one goal at a time, reported when
  its motion is over, and as it was: a motion that was stopped has not
  succeeded, one that reached its end was not aborted.
- `GripperActionServer` models the gripper node, with one action per step of
  its three kinds of threads:

  | thread | action | code |
  |---|---|---|
  | executor | `handleGoal`, `handleCancel`, `stopServiceCallback`, `publishGripperState` | the callbacks of these names; accepting a goal starts its thread |
  | executor | `Shutdown` | `rclcpp::ok()` becomes false |
  | one per goal | `Execute` | `executeCommand()` up to the loop, with the choice of `onExecuteGripperCommand()` (`Decision`) |
  | one per goal | `resultIsReady`, `CheckCanceling` | the loop: the wait with timeout, then the test of `is_canceling()` with `stop()`, or feedback |
  | one per goal | `ReportCanceled`, `ReportResult`, `LeaveAfterShutdown` | the ends of `executeCommand()` |
  | `std::async` | `CommandBegins`, `GripperMoves`, `CommandEnds` | the blocking call of libfranka |

  `thread[g]` is the place of a goal's thread, `call[g]` its asynchronous call,
  `cached` the width of `current_gripper_state_`; `stopped` is a history
  variable: the open goals whose command had not ended when the stop service
  succeeded.
- `MCGripperActionServer` names goals by what they ask for.
- `GripperActionServer_proofs` holds the theorems.

- `TaskController` models `MoveCatersianImpWithGripper`, whose control loop and
  executor share atomics.  It is composed with the gripper as `ActionGoals`
  states it (`Hand`), which `GripperActionServer` is proved to implement: the
  controller is checked against the promise, not against the node's threads.

  | thread | action | code |
  |---|---|---|
  | control loop | `SelectTask` | the gate and the lock at the head of `update()`, the reset of an entered task, the request to grasp |
  | control loop | `ResetHandshake` | the reset of the result flags, which follows the request |
  | control loop | `WarmUpCycle`, `MoveArm`, `AwaitGrasp`, `JudgeGrasp`, `SkipCycle` | the rest of a cycle, by the task under way |
  | control loop | `on_activate`, `on_deactivate`, `on_configure`, `on_cleanup` | lifecycle callbacks, between two cycles |
  | executor | `TaskCommand` | the subscription of `/task_cmd` |
  | executor | `GripperTimer`, `SendGoal`, `ServerUnavailable` | the timer takes a request, and sends the goal or raises the request again |
  | executor | `ResultArrives`, `StoreSuccess` | the result callback, which stores two flags |
  | gripper | `HandStep` | a step of `ActionGoals` |

  A step is split where the other thread can come between: the request is raised
  before the result flags are reset, `GRASP` reads that the grasp is done before
  it reads whether it succeeded, and the callback stores them in two stores.
  `finished` is the set of the tasks whose finish flag is up, `requests` the set
  of the raised requests.  `ended`, `asked` and the tags of `sent` are history
  variables: the tasks that ended in this activation, the requests raised, and
  the kind and activation of each goal.  Time is the choice of a cycle to find
  it over (`late`, `ends`).
- `TaskController_proofs` holds the theorems.

- `RobotServices` models what the hardware component runs beside the control
  loop.

  | part | action | code |
  |---|---|---|
  | `FrankaExecutor` | `MakeExecutor`, `ExecutorSpins`, `ConstructorReturns` | the constructor, which starts the thread and waits for it to spin |
  | | `DestroyExecutor`, `ExecutorEnds`, `JoinReturns` | the destructor: cancel, then join |
  | process (external) | `Shutdown`, `ExecutorInterrupted` | `rclcpp::ok()` becomes false, and `spin()` ends |
  | clients | `Send` | a request to a service or a recovery goal |
  | nodes | `TakeUp`, `LockWrites`, `SetParameter`, `Recover` | a callback: the lock of the setters, libfranka's call with its two exceptions, which both end in a failure, and the answer |

  Callbacks of one node exclude each other, those of the two nodes do not.
- `SemanticComponents` has the assignment and the release of loaned interfaces and
  the tests a command passes.  What a component holds is the sequence of the
  activations its interfaces come from: `get_ordered_interfaces()` appends.
- `ExampleControllers` models the example controllers without a gripper.  They
  follow one pattern, so each is a record (`JointPosition`, `CartesianElbow`, ...):
  the steps of its `on_configure()` in their order, its semantic component, when it
  measures its reference and its time, and what `on_deactivate()` releases.
  `StartConfigure` and `Configuring` go through the steps, and block in those
  that wait for a service:

  | step | action | code |
  |---|---|---|
  | `compute_ik`, `collision server` | `AwaitIK`, `AwaitCollisionServer`, `InterruptAwait` | the loop that waits a second for each of two services in turn, and ends with ERROR at a shutdown |
  | `collision`, `checked collision` | `AskCollision`, `CollisionAnswered` | the request to a service of `RobotServices`, and `get()` |
  | `description` | `AskDescription`, `DescriptionArrives` | `wait_for_service()` without a timeout, `get_parameters()`, `get()` |

  `up` holds the services of other processes (`robot_state_publisher`, the inverse
  kinematics) that are there while `on_configure()` runs; they come and go
  (`Appears`, `Disappears`), and a request to one that goes away is never answered.
  `Activate`, `Update` and `Deactivate` are the control loop's, `IKAnswered` is the
  callback of the inverse kinematics, whose answers may come late, `UserSends`
  another client of the services.  Measured quantities are abstracted to the
  activation they were measured in.
- `RobotStateBroadcaster` models the broadcaster with the state message of the
  semantic component, one action per step between two points where another
  thread may come in:

  | thread | action | code |
  |---|---|---|
  | control loop | `StartUpdate`, `TryLock`, `TryAgain`, `GiveUp` | `update()` up to the lock of the realtime publisher |
  | control loop | `LockTopics`, `StampMessage`, `CopyValues`, `HandOver` | the message under `publish_mutex_` |
  | control loop | `RaiseFlag`, `Notify` | the end of `update()`, without the mutex |
  | publishing | `RunnerLoops`, `RunnerLocks`, `RunnerChecks`, `RunnerBlocks`, `SpuriousWakeup` | `publishRunner()` up to its wait |
  | publishing | `PublishPoses`, `PublishJoints`, `RunnerResets` | the eight topics, in two groups, and the flag |
  | realtime publisher (external) | `PublisherLocks`, `PublisherSends` | its polling thread |
  | controller manager | `Configure`, `Activate`, `Deactivate`, `Cleanup` | lifecycle |
  | controller manager | `DestructorStops`, `DestructorNotifies`, `DestructorJoins` | the destructor |

  The frames of the message are computed from a description (`LinkNames`,
  `FramesOf`) as `set_links_from_urdf()` lists its links.
- `IgnitionSystem` models the Gazebo component's control methods, mode switch and
  `write()` as operators; `GazeboPlugin` models the plugin that drives it:

  | thread | action | code |
  |---|---|---|
  | simulator | `Configure`, `ConfigureFails`, `Destroy` | `Configure()` with its early returns, the destructor |
  | simulator | `PreUpdate`, `SimulationStep`, `PostUpdate` | write before the step, the step (external), read and update after it, at the slower control rate |
  | executor | `RequestSwitch` | the controller manager's switch service (external) |

  A command that reaches the simulation is the name of the interface and of the
  controller it came from.
- `EffortController` models `EffortControllerBase` and its three controllers.

  | thread | action | code |
  |---|---|---|
  | control loop | `Configure`, `Activate`, `Deactivate`, `Cleanup` | lifecycle of the base and, with the choices of the kind, of the controller |
  | control loop | `update` | a torque of the kind's law, then rate limit, clamp and write (`writeJointEffortCmds`) |
  | executor | `ReceiveFrame`, `targetFrameCallback` | a target frame, stored in two parts |
  | executor | `targetWrenchCallback`, `displayInBaseLink` | a wrench, stored as it came and then transformed |
  | arm (external) | `ArmMoves` | any motion |

  An effort is an integer or NaN, which passes `std::min`, `std::max` and
  `std::clamp` as it does in the code (`Plus`, `computeJointEffortCmds`, `Limited`).
  The impedance laws are a spring plus any of `Rest`; vectors the code reads too
  far, or does not set, hold any of `AnyEffort`, NaN included.  Poses and targets are
  finite numbers.  `sent` and `latest` are the targets an activation received, and
  `overtaken` is the one whose callback it fell into.
- `EffortController_proofs` holds the theorems.
- `PinocchioKinematics` has the initialisation from a description and, as the set of
  answers `ik()` may give, its iterations with line search and clamping, in one
  dimension; a description without the frame, or without one of the joints, is
  accepted and ends in undefined behaviour.  `MoveToStartWithGripper` models the controller that uses it:

  | thread | action | code |
  |---|---|---|
  | control loop | `on_configure`, `RejectSizes`, `Cleanup`, `on_deactivate` | lifecycle |
  | control loop | `on_activate`, `WaitEnds` | the choice of the goal, with the wait of up to two seconds for a description |
  | control loop | `update` | the interpolation (`MoveOn`) until the goal is reached, then `Hold` |
  | executor | `ReceiveDescription` | the subscription of `robot_description` |
  | arm (external) | `ArmFollows`, `ArmIsPushed` | the arm yields to the torque, or to something else |

  References are scaled by the duration of the motion, so that they are integers.
  `update()` adds the period it measured, any of `Periods`: the first one after an
  activation may hold its wait.  `sinceStart` is the time measured since then.
- `RobotStateBroadcaster_proofs`, `ExampleControllers_proofs`, `GazeboPlugin_proofs`
  and `MoveToStartWithGripper_proofs` hold the theorems about these components, the
  last one those about the inverse kinematics as well.
- The modules `MCGazeboPlugin`, `MCRobotStateBroadcaster`, `MCExampleControllers`,
  `MCEffortController` and `MCMoveToStartWithGripper` hold the instances for TLC.

The controller manager, libfranka and the controllers are not in the
repository.  They are modelled as this code uses them: a switch reaches the
component only between the calls of the loop (the manager serialises the calls
of one component) and only while it is active; other hardware may refuse the
same request, in which case the switch is not performed; a controller set is
taken over whatever `perform_command_mode_switch()` returned; a read or a write
that fails takes the component out of service and deactivates its controllers
without another mode switch, and the operator may configure and activate it
again.  Where a version of the manager lets the exception end the process
instead, its behaviours are prefixes of the modelled ones.

The gripper is modelled as its client code uses it: one call at a time is
executed, a call that arrives during another replaces it or is turned down, and
`stop()` makes the running call fail.  A `stop()` that throws in the stop
service is answered; in the thread of a cancelled goal nothing catches it and
the process ends.  That a report on a goal handle may itself throw once the
context is shut down is not modelled.

`Discipline` holds the rules an operator or a client may keep and the code does
not enforce: for the arm, one active controller at a time, no request that both
stops and starts, no deactivation under a controller; for the gripper, a goal is
sent when the others have ended; for the task controller, the gripper's servers are there (`server_up`), the timer, which runs
every 20 ms, takes a request before a grasp of seconds is overdue
(`timer_in_time`), a deactivation waits for what is open (`settles_first`), each
activation follows a configuration (`configured`), and the gripper begins goals
in the order they were sent (`hand_in_order`).  The last one is a rule about the
gripper node: it starts a thread for each goal, so that two goals sent one after
the other may reach the gripper in either order.

## Runs

| run | shows | bounds |
|---|---|---|
| `hardware_any` | no discipline at all: the session and the flags agree, and no session is sent a position, a pose, or an elbow beside a pose, from before it | three controllers: a joint mode with a measured buffer, a Cartesian mode with elbow, and one that claims a whole type and part of another, so that prepare throws after it has changed a claim; one failure anywhere |
| `hardware_disciplined` | with the three rules each mode, the elbow included, runs exactly while it is held, gets its session and its commands, and every session is commanded | nine controllers, all modes, no failure of libfranka; requests refused by this component still occur (`all` claims 45 interfaces or more) |
| `hardware_direct_switch` | violation: velocity to effort in one request loses the session | rule `stop_before_start` dropped |
| `gripper_any` | goals, cancellations, stops and a shutdown in any order: the node keeps the promise of `ActionGoals`, every accepted goal ends and no thread is left behind | three goals: a homing, a `gripper_action`, and a move that the gripper refuses; one throw of `stop()` |
| `gripper_stop` | violation: a goal accepted before a successful stop succeeds after it | rule `waits_for_result` kept, so that the stop is the only disturbance |
| `task_any` | without any rule: a request never becomes two goals | two activations, three goals, no warm-up |
| `task_disciplined` | with the rules: a grasp is sent during its `GRASP`, which ends on the result of its own goal and with the hand at rest; tasks end and requests are sent | two activations, four goals, with the warm-up and its request to open |
| `gazebo` | switches while the simulation runs: a held joint obeys its holder, a released one is braked, the compensated chain is the arm | four controllers for positions, velocities, efforts and a finger, each with a joint that is simulated; a joint that is missing in the simulation, a mimic joint, three switches, two control periods |
| `broadcaster` | the threads of the broadcaster: no mixed message, states go on reaching the topics, the thread is joined | two parameters for the attempts and a wrong one, two descriptions, three versions of the state |
| `examples` | every example controller: motions start afresh, no command is refused, configuration and the executor's destruction end | all thirteen configurations of the twelve controllers, two activations, one other client, one setter and the recovery, external services that come and go, a shutdown |
| `effort` | the effort controllers: limits, rate, targets and handles | two activations, a joint below and one beyond the sixth, one limited and one continuous, two poses further apart than the clamped error; unset elements may be NaN |
| `move_to_start` | the move-to-start controller: goals, the pace of the reference, the end of the motion | two activations, one push, periods of one half of the motion and of all of it, four places, targets in and beyond reach of the iterations, orientation that cannot be met |

Two controllers reach every pair of claims and running modes that the blocks
distinguish, and one failure reaches each throw of a switch, a read or a write;
the flags it leaves behind are acted on by the steps that follow without a
bound on their number.
Goals of the gripper disturb each other in pairs: through `stop()`, which halts
whatever runs, and through a command that replaces the one under way; three goals
reach every such pair, and one more that waits or has ended.  Two widths
distinguish opening, closing and staying.
The runs of the gripper do not check deadlock: the goals are used up, and the
node may shut down or end.
The second activation of the task controller finds what the first one left:
flags, a raised request, an open goal, destroyed timers.  One activation goes
through the tasks once, since `MOVE_POSE_1` is entered from `NONE` only, and so
asks at most once to open and once to grasp.  Two activations ask for two goals
in `task_any`, which has no warm-up, and for four in `task_disciplined`: the
bounds leave room for each of them, and in `task_any` for one too many.
Three switches start a controller, hand its joints over and release them while
the simulation takes any number of steps; a control period of two steps separates
the steps that update the controllers from those that only repeat the commands.
Three versions, counted modulo three, tell the state a message is being filled
from apart from the two it may be confused with, and two attempts are one that
fails and one that may not.  The other controllers meet in their second
activation everything a first one can leave; in `effort` one increment reaches the
limit, so that saturation and rate limit act together.  Runs with a bound on
activations do not check deadlock, since they are used up.

Fairness:

- `LoopFairness` (`hardware_disciplined`): the control loop is a thread that keeps
  calling read, update and write, and takes up a prepared switch before it
  updates the controllers.  Nothing is assumed of the operator.
- `ServerFairness` (`gripper_any`): the operating system runs the goals' threads, and
  every command of the gripper ends, at its target, at an object or by the
  device's own time limit.  Nothing is assumed of clients, of the stop service or
  of the timer.
- `Fairness` of `TaskController`: the control loop runs on; of cycle after cycle
  in one phase, one finds the time of that phase over (strong fairness, since the
  cycles alternate with the head of `update()`); the executor runs the timer among
  its callbacks (strong as well: other callbacks and the lifecycle disable it for
  a while) and finishes a callback it has begun.  Nothing is assumed of the
  gripper, of commands or of the lifecycle: `TaskEnds` holds even if a goal never
  ends.
- `FairSpec` of `RobotStateBroadcaster`: each thread takes its steps, and gets
  `publish_mutex_` in the end although it is taken again and again (strong fairness:
  both sides hold it for a moment).  The lock of the realtime publisher is only
  tried, and may always be missed: nothing is assumed of it, which is why
  `StatesReachTopics` speaks of the updates that do write a state.
- `FairSpec` of `ExampleControllers`: the executor's threads run and libfranka's
  calls return; a client's request is taken up in the end, though another client
  goes on sending; the controller manager's own executor has several threads, so
  that until a shutdown an answer arrives while `on_configure()` blocks one of
  them; an external service that is there, and stays, answers.  None has to
  appear: that they do, and stay in the end, is the premise of `ConfigureEnds`.
  Without it `on_configure()` may wait for ever, as it may for an answer that cannot
  come any more (`NeverAnswered`).
- `FairSpec` of `MoveToStartWithGripper`: the control loop runs, its wait for the
  description ends, and the arm gives way to a torque.  Nothing is assumed of the
  description, of the lifecycle or of whoever pushes.

## Proofs

Eight modules prove theorems for every value of the constants, from the named
assumptions of the modules they extend and, where a theorem says so, a hypothesis on
the constants that the runs meet.  Every invariant and every action property that a
passing run checks is the subject of a theorem, as is the refinement of `ActionGoals`.

`FrankaHardware_proofs` proves, for every set of controllers, every choice of
interfaces, every discipline and every number of failures, five invariants:
the three that `hardware_any` checks, that no session outlives the mode that
runs (`ControlIsRunning`), and that the elbow never runs without a Cartesian mode
(`ElbowNeedsCartesian`).  They are not inductive one by one.  `IInv` is their
conjunction with

- `Loaded`: when the mode of the session is a measured one and its first-update
  flag is down, its buffer was loaded since the session began, and so was the
  elbow's when a pose runs without a twist; this is what `write()` relies on when it
  tests the flags;
- `SentBeforeRead`: the outcome of a write is forgotten before the next switch,
  so that a session begun later is not compared with it.

The only state the steps share is the record `hw`.  `HwInv` is its invariant,
and one lemma per operator on the record (`stopRobot`, `EnterMode`,
`LeaveMode`, the five blocks in sequence, `initializePositionCommands`) shows
that the operator preserves it.  `BranchFrom` and `WriteOnceTarget` say what
`write()` can send and as what.  `NextInv` takes the actions one by one.

What `hardware_disciplined` checks is proved under `DisciplinedUse`: the operator
keeps every rule, nothing fails, and each of a finite set of controllers claims
whole kinds of interfaces of one mode or, to be refused, more than any mode has.
These parts are needed: without `stop_before_start` the run `hardware_direct_switch`
finds a success without a session; a controller that claims part of a mode (`mixed`)
is refused and leaves claims behind, and a failure takes the component out of
service and leaves all its flags: with either, TLC breaks all three invariants.  `DisciplinedInv` is inductive beside `IInv`: at most one controller
is active or about to be, what it claims is claimed from the request on and runs
from the switch on, and whatever runs has a session of its mode.  `ServiceIsKept`
adds that `write()` then never takes the component out of service.

`GripperActionServer_proofs` proves, for every set of goals, tasks and targets,
that no goal moves the gripper after its end was reported, and that the node
implements `ActionGoals`.  The inductive invariant is `GoalInv`, which ties the
status of a goal to the place of its thread and to its call, with `OneCommand`:
the gripper executes one command at a time.  The refinement maps the call of a
goal to its motion (`Motion`).  `MotionChanged` and `HaltedStep` say what a
change of one call, and a stop, do to the mapped state; `ExecutorStep`,
`ThreadStep` and `CallStep` map the actions of each kind of thread to a step of
the abstract goals or to a stutter.

`TaskController_proofs` proves, for every discipline and any number of
activations and goals, that tasks are entered in order (`EntersAfterEnd`) and
that a request becomes at most one goal (`OneGoalPerRequest`).  `LoopInv` carries
the first: a finish flag that is up for the task under way was raised in this
activation, since entering a task takes it down; this is why the flags that
`on_activate()` leaves do no harm.  `GoalsInv` carries the second by counting:
the goals sent, the request that is raised and the one the timer has taken, of
each kind, are no more than were asked for.  It needs the place of the executor
because `ServerUnavailable` raises again what the timer took.

Three more theorems follow a grasp to its result, under `InTime`: the rules
`timer_in_time` and `settles_first`.  Without the first a request outlives its
task, without the second it outlives its activation.  That the servers are there
and that each activation follows a configuration, which `task_disciplined`
assumes for its liveness, turned out not to matter to them.  `GraspInv` says that
outside an activation nothing is open, that a request or a taken request is that
of the `GRASP` under way and the first of its activation, that the flag the loop
judges by is not an old one, and that a success seen or stored is that of the one
goal of this activation, which is the last of all.  `HandInv`, under
`hand_in_order`, adds that a goal that began has every earlier one behind it, so
that nothing moves the fingers when `GRASP` ends with success.

`EffortController_proofs` proves, for all joints, limits, increments, poses and
torques and any number of activations, everything the run `effort` checks.  The
inductive invariant `IInv` is the type invariant with

- `EffortInv`: what was written is what was remembered, and is within the limits if
  it is a number; NaN only where it is possible; zero before the first
  configuration.  The rate limit counts from the remembered effort and the clamp
  comes after it: because the remembered effort is within the limit already,
  clamping cannot add to the step (`LimitedStep`).  This is what makes the order of
  the two harmless;
- `TargetInv`: every part of the followed frame, and what a subscription is still
  storing, was sent in this activation, or is of the target that the activation
  overtook; if it overtook none, the parts stored are those of the last target;
- `HandleInv`: before an activation there are no handles of efforts and states
  and the base is not active, so that appending gives one per joint.

`WriteStep` states what a write preserves and bounds, `NaNStays` that it never turns
NaN into a number; `TorquesArePossible` that a law gives NaN only where one of its
terms, an unset vector or one read too far may be NaN.  One lemma per action shows
that `IInv` is kept.  `EffortWithinLimits` does not say that NaN stays out: with the
gravity compensation, and for joints beyond the sixth, it may be written.

`RobotStateBroadcaster_proofs` proves the types of the broadcaster, and under
`ConfigureWaits` that no topic and no message mixes two states.  `LockInv` ties each
of the two locks to the places of the threads; with it `MessageInv` says that the
message is of one state except while `update()` fills it, and that what has been
published of it is what it still contains.

`ExampleControllers_proofs` proves, for any number of activations and
reconfigurations of the repository's controllers (`ControllersAssumption`), that
no command is refused and that every motion starts afresh.  `ControllersFit` says
what the controllers have in common: a component that carries commands is
released by `on_deactivate()`, and is commanded as it was made.  `HandlesInv`
concludes that the component of an active controller holds one activation's
interfaces, `MotionInv` that reference and time are its own from the capture on,
`ModelInv` that an active controller which evaluates the robot model has handles it
can find, `SolutionInv` that a solution was asked for in some activation so far.

It proves the types too, the executor's threads and locks included.

`GazeboPlugin_proofs` proves that a released joint rests, for any joints, chains,
claims of offered interfaces and switches, shared joints included: `SwitchReleases`
shows that a switch leaves a joint it releases no control method, `WriteBrakes` that
`write()` then commands it to rest.  That a held joint obeys its holder is proved
under `OneDriver` (no two controllers drive one joint, none by two interfaces),
without which it fails.  `HolderInv` says that the controllers which are active,
and those that will be, hold no joint together; that the method of a held joint is
its holder's, beside the effort `initSim()` gave it; and that the command in the
interface is the holder's own from its first update on.  The attempt found a flaw
of the model: the cases of `Driver` overlapped, where the code has a chain of
`else if`.

`ChainIsTheArmAlways` is a proof about an algorithm.  `SearchInv` is kept by an
iteration of the breadth-first search: no link of the queue is below another; the
queue is in the order of the depth, over two levels at most; what was met is no
deeper than what comes next; and of two links of one depth the left one comes
first.  Each iteration takes one link from those still to meet (`SearchShrinks`), so
that after as many iterations as there are links the queue is empty and the leaf
that was met last is the last of the deepest links (`TipIsLast`).  This needs a
description that is a tree (`TreeAssumption`).  That the chain to that link has the
arm's joints and no others is a fact of the description, the hypothesis
`ArmEndsLast`; the stronger one, that every deepest link is beyond the arm's joints
only, is false of the arm with its hand, whose fingers are as deep as the tool
centre point: the compensation depends on the order of the names.

`MoveToStartWithGripper_proofs` proves the types, that the goal is the configured
one or a solution of some activation, and that the reference keeps pace with the
time, for all limits, targets, periods, steps of the linearisation and numbers of
iterations.  `AnswersFit` says that `ik()` answers with a configuration and calls it
a solution only if it is one; `PaceInv` that the elapsed time of the first motion is
no more than the time since its activation, from which `PartOfWay` and `LongerPart`
conclude how far the reference may be.  `IkNeverWorsens` is about `ik()` itself: from a configuration within the
limits every answer, that of a failed search included, is within the limits and no
farther from the target than the start.  A start outside of them may be answered
as a solution as it is, without a clamp.

The two proofs about iterations, of the search and of `ik()`, need induction over
their number.  The theorem of the library takes an operator and cannot be used;
`Induction`, proved from the well-foundedness of finite sets of numbers, is about
a set of numbers instead, and `SearchesExist` and `IteratesExist` show with it that
the recursive functions are defined.

Model-checked only: liveness, which is out of the prover's reach
(`SessionIsCommanded`, `EveryGoalEnds`, `TaskEnds`, `EveryRequestIsSent`,
`StatesReachTopics`, `ConfigureEnds`, `MotionEnds` and the two `DestructorReturns`),
and the two properties that are violated.

## Disagreements

Two runs end in a violation of what the repository says; `PROJECT.json` quotes it:
a switch from velocity to effort in one request, and a stop that comes before
the command it should stop.  The models show, or were made to leave out, some
more:

- With an effort and a position controller active at once, `write()` takes the
  branch of the efforts while the session is the position's: efforts are sent as
  positions (`franka_hardware_interface.cpp:237`).  `CommandReachesItsMode` fails
  without the rule `one_at_a_time`.
- A handover between two Cartesian controllers in one request loses the elbow's
  claim (`franka_hardware_interface.cpp:396`).  `HeldModesRun` fails without
  `stop_before_start`.
- `gripper_action` decides on the width a timer cached, and may report a goal as
  reached that another goal's motion has undone (`gripper_action_server.cpp:180`).
- After deactivate and activate the task controller has no timers, which only
  `on_configure()` creates, and sends no request.  `EveryRequestIsSent` fails without
  the rule `configured`.
- Stopping one interface of a joint in Gazebo clears them all: the masks of the
  comment "Clear joint control method bits corresponding to stop interfaces" are
  zero (`ign_system.cpp:598`).  `HeldJointObeysHolder` fails once `JointsAreShared`.
- Its `write()` reads the array of seven efforts by the index of every joint that
  takes efforts, the fingers included.
- The links are listed with the root twice, so that the index of the flange names
  the link before it (`franka_robot_state.cpp:29`, `:116`).
- `lock_try_count` 0 is accepted, though the message that turns down negative
  values says it must be greater than 0; no state is then ever published.
- The destructor of the broadcaster notifies without the mutex: when the
  notification falls between the check of the predicate and the wait, `join()` does
  not return.  `DestructorReturns` leaves this case out and says so.
- `joint_impedance_with_ik_example_controller.cpp` never clears
  `joint_positions_desired_`: until the next answer, and for as long as requests fail,
  it commands the joints of a solution that an earlier activation asked for
  (lines 164 and 172).  `FreshStart` allows exactly that.  It does not release the
  interfaces of the robot model either, whose values it then reads by handles it
  no longer owns.
- `on_configure()` of the example controllers may wait for ever: `get()` follows
  `wait_for()` whatever came of it, `wait_for_service()` has no timeout, and no answer
  comes after a shutdown.  `ConfigureEnds` states what must appear, and which waits
  it leaves out.  The constructor of `FrankaExecutor` waits for a thread that a
  shutdown may have ended already.
- With `std::min`, `std::max` and `std::clamp` a NaN passes the rate limit and the
  clamp of the efforts, and stays in `m_efforts` until the controller is loaded
  anew: the torque of `gravity_compensation.cpp:85` is never set, and the vectors of six are read at every
  joint (`effort_controller_base.cpp:417`, `:433`).
- A target frame is stored in two parts.  A cycle between them follows half of each
  of two targets, and may see a wrench that is not transformed yet; an activation
  between them leaves half of an old target until the next one arrives.
  `FollowsWhatWasSent` names the second case and says nothing of the first.
- With `command_current_configuration` the position handles outlive a deactivation,
  and the next activation appends to them: the base returns ERROR, which the derived
  controllers ignore, and the joint states are read from empty vectors
  (`effort_controller_base.cpp:321`, `:344`).  The model ends as "undefined" there;
  `ActiveHoldsItsHandles` says that nothing else leads to it.
- A Cartesian velocity mode that starts while a pose mode runs with the elbow finds
  the elbow running, and sends one that was not loaded again
  (`franka_hardware_interface.cpp:388`).  `FirstWriteAfterRead` covers the elbow
  beside a pose only.
- The move-to-start controller resets its time and its finished flag in
  `on_configure()` only: the second motion after one configuration begins at
  its goal.  The first period after an activation includes its wait of up to two
  seconds, so that the first step of the first motion may be a large share of it
  (`:340`, `:482`); `ReferenceKeepsPace` bounds it by the time and no
  further.  Its "fallback to configured q_goal" may be to the goal an earlier
  activation solved (`move_to_start_with_gripper.cpp:273`).
- Pinocchio's `getFrameId()` and `getJointId()` give the number of frames or joints
  for a name they do not know, not -1: a description without the frame or a joint is
  accepted and read out of range.

## Not modelled

Values of commands and states, filters, rate limiters and the parameters of the
Robot; the construction in `on_init()`; a throw of the single read in
`on_activate()`, which changes nothing.  What libfranka does when the recovery,
a setter and the control loop call it at once is not visible in this repository;
`RobotServices` models which of them can overlap, not the outcome.  Of the
gripper node: that a report on a goal handle may throw once the context is shut
down.  Of the task controller: the control law, the trajectory log (saving it
changes no other state), flags that are written and never read, callbacks that
return an error, after which the controller is finalised, and goals that are
turned down, since the gripper accepts every goal.  Of the Gazebo component:
sensors, and the values of positions and efforts.  Of the kinematics: the
Jacobians, the variant for positions only and the real-time helpers;
`pinocchio_kinematics_nrt.cpp` is not built.  Components without a module, with the
reason: the gripper example controller, a client whose goals are among those of
`gripper_any`; the task pipeline and the keyboard, whose commands may reach
`TaskController` at any time anyway; motion generation and the learned policy,
floating-point algorithms; launch files, scripts and description, which are
configuration.

## What could follow

The trajectory log of the task controller, with the worker that saves it and
its reset by the control loop; `TaskPipeline` composed with the interpretation of
commands; the error recovery action as a second implementation of
`ActionGoals`; the safety that liveness rests on, such as that a lock of the
broadcaster is always given back.
