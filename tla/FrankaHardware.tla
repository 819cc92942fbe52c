--------------------------- MODULE FrankaHardware ---------------------------
(***************************************************************************)
(* franka_hardware::FrankaHardwareInterface, the ros2_control hardware     *)
(* component of the arm, on top of the Robot of module FrankaRobot, driven *)
(* by the controller manager.                                              *)
(*                                                                         *)
(* Two threads call it.  The control loop runs read, update (in which a    *)
(* prepared switch is performed) and write, in this order.  The service    *)
(* thread calls prepare_command_mode_switch and the lifecycle callbacks    *)
(* between any two calls of the loop.                                      *)
(*                                                                         *)
(* The controller manager and ros2_control are not part of the repository: *)
(* the actions that model them (RequestSwitch's guard, Update, the         *)
(* consequences of a failed call) follow how the component is used.        *)
(***************************************************************************)
EXTENDS FrankaRobot, FiniteSets

CONSTANTS
  Controllers,   \* the controllers that can be loaded
  Uses,          \* the command interfaces each controller claims
  Discipline,    \* the rules the operator keeps when switching
  MaxFaults      \* bound on the failures of one behaviour

\* Rules an operator may keep; the code enforces none of them.
Rules == {"one_at_a_time",            \* at most one active controller
          "stop_before_start",        \* no request both stops and starts
          "idle_before_deactivate"}   \* no deactivation under a controller

Exported == UNION {{<<k, i>> : i \in 1 .. CommandSize[k]} : k \in Kinds}

ASSUME DisciplineAssumption == Discipline \subseteq Rules
ASSUME FaultsAssumption     == MaxFaults \in Nat

\* Kinds whose buffer is loaded from the robot state before it is first sent.
Measured == {"position", "cartesian_pose_command", Elbow}

\* Kinds whose buffer is filled with zeros when their mode is started.
Zeroed == {"effort", "velocity", "cartesian_velocity"}

\* Order of command_interfaces_info_.
Rank == [k \in Kinds |-> CASE k = "effort" -> 1
                           [] k = "velocity" -> 2
                           [] k = "position" -> 3
                           [] k = Elbow -> 4
                           [] k = "cartesian_velocity" -> 5
                           [] k = "cartesian_pose_command" -> 6]

max_number_start_interfaces == 45

VARIABLES
  hw,         \* the component's flags and buffers, and the robot's session
  lifecycle,  \* lifecycle state of the component
  held,       \* the active controllers
  pending,    \* the switch that was prepared and waits to be performed
  pc,         \* next call of the control loop
  performed,  \* result of perform_command_mode_switch, until the next call
  sent,       \* outcome of the last write, until the next read
  faults      \* failures so far

vars == <<hw, lifecycle, held, pending, pc, performed, sent, faults>>

HwState ==
  [claimed   : SUBSET Kinds,     \* *_interface_claimed_
   running   : SUBSET Kinds,     \* *_interface_running_
   first     : SUBSET Measured,  \* first_*_update_
   nonfinite : SUBSET Kinds,     \* command buffers holding a NaN or infinity
   threw     : BOOLEAN,          \* the switch in progress was cut by a throw
   control   : Modes \cup {NoControl},
   active    : SUBSET Modes,
   measured  : SUBSET Measured]

Switch   == [act : SUBSET Controllers, deact : SUBSET Controllers]
NoSwitch == [act |-> {}, deact |-> {}]   \* no switch is asked with both empty
NoWrite  == [result |-> "none", from |-> Nowhere, into |-> Nowhere,
             elbow |-> FALSE]
Outcome  == [result : {"none", "skipped", "sent", "error", "exception"},
             from : Kinds \cup {Nowhere}, into : Modes \cup {Nowhere},
             elbow : BOOLEAN]

\* Every variable ranges over the values the code can give it.
TypeOK ==
  /\ hw \in HwState
  /\ lifecycle \in {"unconfigured", "inactive", "active"}
  /\ held \subseteq Controllers
  /\ pending \in Switch
  /\ pc \in {"read", "update", "write"}
  /\ performed \in {"none", "ok", "error", "exception"}
  /\ sent \in Outcome
  /\ faults \in 0 .. MaxFaults

Init ==
  /\ hw = [claimed |-> {}, running |-> {}, first |-> Measured,
           nonfinite |-> {}, threw |-> FALSE,
           control |-> NoControl, active |-> {}, measured |-> {}]
  /\ lifecycle = "inactive"
  /\ held = {}
  /\ pending = NoSwitch
  /\ pc = "read"
  /\ performed = "none"
  /\ sent = NoWrite
  /\ faults = 0

\* A failure happens in this step, if it does and the bound allows.
Fault(happens) ==
  /\ faults' = IF happens THEN faults + 1 ELSE faults
  /\ faults' <= MaxFaults

InterfacesOf(cs) == UNION {Uses[c] : c \in cs}

\* Kinds of which at least one interface is held by the controllers cs.
KindsOf(cs) == {x[1] : x \in InterfacesOf(cs) \cap Exported}

-----------------------------------------------------------------------------
(* prepare_command_mode_switch(start, stop)                                *)

\* How many of the given interfaces are exported ones of kind k: interfaces
\* of other hardware never count.
Count(k, ifaces) == Cardinality({x \in ifaces \cap Exported : x[1] = k})

Whole(k, ifaces)  == Count(k, ifaces) = CommandSize[k]
Accept(k, ifaces) == Count(k, ifaces) \in {0, CommandSize[k]}

TooMany(start) == Cardinality(start) = max_number_start_interfaces

\* The kinds are visited in their order, and the first one of which only a
\* part is given makes the call throw: Reached kinds come no later than it.
Reached(k, start, stop) ==
  \A j \in Kinds :
    Rank[j] < Rank[k] => Accept(j, stop) /\ Accept(j, start)

PrepareThrows(start, stop) ==
  \E k \in Kinds : ~ (Accept(k, stop) /\ Accept(k, start))

\* A slip: the stop request is not recorded.
ClaimedAfterIgnoringStop(claimed, start, stop) ==
  claimed \cup {k \in Kinds : Whole(k, start)}

\* The claims after the call, those made before it threw included.
ClaimedAfter(claimed, start, stop) ==
  (claimed \ {k \in Kinds : Reached(k, start, stop) /\ Whole(k, stop)})
     \cup {k \in Kinds : /\ Reached(k, start, stop)
                         /\ Accept(k, stop)
                         /\ Whole(k, start)}

\* What the controller manager and the operator's rules let through: the
\* controllers to start are stopped ones and share no interface with each
\* other or with a controller that stays active.
SwitchAllowed(act, deact) ==
  LET stay == held \ deact
  IN  /\ lifecycle = "active"
      /\ pending = NoSwitch
      /\ act \cup deact # {}
      /\ deact \subseteq held
      /\ act \cap stay = {}
      /\ \A c \in act : \A d \in (stay \cup act) \ {c} : Uses[c] \cap Uses[d] = {}
      /\ "one_at_a_time" \in Discipline => Cardinality(stay \cup act) <= 1
      /\ "stop_before_start" \in Discipline => act = {} \/ deact = {}

\* switch_controller service: prepare runs on every hardware component, and
\* the switch is dropped when any of them refuses.
RequestSwitch(act, deact, otherRefuses) ==
  LET start == InterfacesOf(act)
      stop  == InterfacesOf(deact)
  IN  /\ SwitchAllowed(act, deact)
      /\ Fault(otherRefuses)
      /\ IF TooMany(start)
         THEN UNCHANGED <<hw, pending>>
         ELSE /\ hw' = [hw EXCEPT !.claimed = ClaimedAfter(@, start, stop)]
              /\ pending' = IF otherRefuses \/ PrepareThrows(start, stop)
                            THEN NoSwitch
                            ELSE [act |-> act, deact |-> deact]
      /\ performed' = "none"
      /\ UNCHANGED <<lifecycle, held, pc, sent>>

-----------------------------------------------------------------------------
(* perform_command_mode_switch(): one block per mode                       *)

\* A slip: only one of the two Cartesian modes starts the elbow.
ElbowStartedWithTwist(s, m) ==
  IF m = "cartesian_velocity" /\ Elbow \in s.claimed \ s.running
  THEN {Elbow} ELSE {}

\* The elbow is started by a Cartesian mode that starts while it is claimed.
ElbowStartedWith(s, m) ==
  IF m \in CartesianModes /\ Elbow \in s.claimed \ s.running
  THEN {Elbow} ELSE {}

\* Slips in that branch: the first-update flag is not raised, is raised for a
\* mode that has none, or the session is stopped once more at the end.
EnterModeKeepsFirst(s, m, failing) ==
  [initializeInterface(stopRobot(s), m)
     EXCEPT !.running = @ \cup {m} \cup ElbowStartedWith(s, m)]

EnterModeRaisesAnyFirst(s, m, failing) ==
  [initializeInterface(stopRobot(s), m)
     EXCEPT !.running = @ \cup {m}, !.first = @ \cup {m}]

EnterModeStopsLast(s, m, failing) ==
  [stopRobot(initializeInterface(s, m))
     EXCEPT !.running = @ \cup {m} \cup ElbowStartedWith(s, m),
            !.first = @ \cup ({m} \cap Measured)]

\* The branch of a mode that is claimed and not running.
EnterMode(s, m, failing) ==
  LET stopped == stopRobot([s EXCEPT !.nonfinite = @ \ ({m} \cap Zeroed)])
      started == initializeInterface(stopped, m)
      elbow   == ElbowStartedWith(s, m)
  IN  IF m = failing
      THEN [stopped EXCEPT !.threw = TRUE]
      ELSE [started EXCEPT !.running = @ \cup {m} \cup elbow,
                           !.first = @ \cup elbow \cup ({m} \cap Measured)]

\* The branch of a mode that is running and not claimed.
LeaveMode(s, m) ==
  LET elbow == IF m \in CartesianModes THEN {Elbow} \cap s.running ELSE {}
  IN  [stopRobot(s) EXCEPT !.running = @ \ ({m} \cup elbow),
                           !.claimed = @ \ elbow]

SwitchMode(s, m, failing) ==
  IF s.threw THEN s
  ELSE IF m \in s.claimed \ s.running THEN EnterMode(s, m, failing)
  ELSE IF m \in s.running \ s.claimed THEN LeaveMode(s, m)
  ELSE s

SwitchModes(s, failing) ==
  LET s1 == SwitchMode(s, "effort", failing)
      s2 == SwitchMode(s1, "velocity", failing)
      s3 == SwitchMode(s2, "position", failing)
      s4 == SwitchMode(s3, "cartesian_velocity", failing)
  IN  SwitchMode(s4, "cartesian_pose_command", failing)

PerformResult(s) ==
  IF s.threw THEN "exception"
  ELSE IF Elbow \in s.claimed /\ s.claimed \cap CartesianModes = {} THEN "error"
  ELSE "ok"

\* The controller manager takes over the new set of controllers whatever the
\* call reported.  failing is the mode whose start throws, if one does.
Perform(failing) ==
  /\ pc = "update"
  /\ pending # NoSwitch
  /\ Fault(failing # NoControl)
  /\ LET s == SwitchModes(hw, failing)
     IN  /\ hw' = [s EXCEPT !.threw = FALSE]
         /\ performed' = PerformResult(s)
  /\ held' = (held \ pending.deact) \cup pending.act
  /\ pending' = NoSwitch
  /\ UNCHANGED <<lifecycle, pc, sent>>

-----------------------------------------------------------------------------
(* read(), update() and write() of the control loop                        *)

\* A call of the loop failed: the component leaves service and the controller
\* manager deactivates its controllers without another mode switch.
OutOfService ==
  /\ lifecycle' = "unconfigured"
  /\ held' = {}
  /\ pending' = NoSwitch
  /\ pc' = "read"

\* A slip: the buffers are loaded and the first-update flags stay raised.
InitializeKeepsFirst(s, bad) ==
  LET due == s.first \cap s.running
  IN  [s EXCEPT !.nonfinite = (@ \ due) \cup (bad \cap due),
                !.measured = @ \cup due]

\* initializePositionCommands(): load the measured state into the buffers
\* that wait for it.  bad holds the measured values that are not finite.
initializePositionCommands(s, bad) ==
  LET due == s.first \cap s.running
  IN  [s EXCEPT !.first = @ \ due,
                !.nonfinite = (@ \ due) \cup (bad \cap due),
                !.measured = @ \cup due]

Read(bad) ==
  /\ pc = "read"
  /\ lifecycle # "unconfigured"
  /\ Fault(bad # {})
  /\ hw' = initializePositionCommands(hw, bad)
  /\ pc' = "update"
  /\ sent' = NoWrite
  /\ performed' = "none"
  /\ UNCHANGED <<lifecycle, held, pending>>

\* robot_->readOnce() throws: nothing of the state is updated.
ReadThrows ==
  /\ pc = "read"
  /\ lifecycle # "unconfigured"
  /\ Fault(TRUE)
  /\ OutOfService
  /\ sent' = NoWrite
  /\ performed' = "none"
  /\ UNCHANGED hw

\* The active controllers write their command interfaces; bad holds the kinds
\* into which one of them wrote a value that is not finite.
Update(bad) ==
  /\ pc = "update"
  /\ Fault(bad # {})
  /\ hw' = [hw EXCEPT !.nonfinite = (@ \ KindsOf(held)) \cup bad]
  /\ pc' = "write"
  /\ performed' = "none"
  /\ UNCHANGED <<lifecycle, held, pending, sent>>

\* The branch write() takes: which buffer it hands to the robot, and whether
\* along with the elbow's.  Nowhere: no branch is taken.
Branch(s) ==
  LET elbowReady == Elbow \in s.running \ s.first
      poseReady  == "cartesian_pose_command" \in s.running \ s.first
  IN  IF "velocity" \in s.running THEN [from |-> "velocity", elbow |-> FALSE]
      ELSE IF "effort" \in s.running THEN [from |-> "effort", elbow |-> FALSE]
      ELSE IF "position" \in s.running \ s.first
      THEN [from |-> "position", elbow |-> FALSE]
      ELSE IF "cartesian_velocity" \in s.running /\ elbowReady
      THEN [from |-> "cartesian_velocity", elbow |-> TRUE]
      ELSE IF poseReady THEN [from |-> "cartesian_pose_command",
                              elbow |-> elbowReady]
      ELSE IF "cartesian_velocity" \in s.running /\ Elbow \notin s.running
      THEN [from |-> "cartesian_velocity", elbow |-> FALSE]
      ELSE [from |-> Nowhere, elbow |-> FALSE]

\* What write() does with the buffers of s.
WriteOutcome(s) ==
  LET b == Branch(s)
      into == IF b.elbow
              THEN writeOnceWithElbow(s, CommandSize[b.from], CommandSize[Elbow])
              ELSE writeOnce(s, CommandSize[b.from])
  IN  IF s.nonfinite # {} THEN [NoWrite EXCEPT !.result = "error"]
      ELSE IF b.from = Nowhere THEN [NoWrite EXCEPT !.result = "skipped"]
      ELSE [result |-> IF into = Nowhere THEN "exception" ELSE "sent",
            from |-> b.from, into |-> into, elbow |-> b.elbow]

Write ==
  /\ pc = "write"
  /\ sent' = WriteOutcome(hw)
  /\ IF sent'.result \in {"error", "exception"}
     THEN OutOfService
     ELSE /\ pc' = "read"
          /\ UNCHANGED <<lifecycle, held, pending>>
  /\ performed' = "none"
  /\ UNCHANGED <<hw, faults>>

-----------------------------------------------------------------------------
(* Lifecycle callbacks                                                      *)

\* on_configure() is inherited and does nothing.
Configure ==
  /\ lifecycle = "unconfigured"
  /\ lifecycle' = "inactive"
  /\ performed' = "none"
  /\ UNCHANGED <<hw, held, pending, pc, sent, faults>>

\* on_activate(): one read(), whose result it ignores.
Activate(bad) ==
  /\ lifecycle = "inactive"
  /\ Fault(bad # {})
  /\ hw' = initializePositionCommands(hw, bad)
  /\ lifecycle' = "active"
  /\ performed' = "none"
  /\ UNCHANGED <<held, pending, pc, sent>>

\* on_deactivate(): the session ends; the claimed and running flags stay.
Deactivate ==
  /\ lifecycle = "active"
  /\ pending = NoSwitch
  /\ "idle_before_deactivate" \in Discipline => held = {}
  /\ hw' = stopRobot(hw)
  /\ lifecycle' = "inactive"
  /\ performed' = "none"
  /\ UNCHANGED <<held, pending, pc, sent, faults>>

-----------------------------------------------------------------------------
Next ==
  \/ \E deact \in SUBSET held, act \in SUBSET Controllers, refuses \in BOOLEAN :
       RequestSwitch(act, deact, refuses)
  \/ \E failing \in Modes \cup {NoControl} : Perform(failing)
  \/ \E bad \in SUBSET Measured : Read(bad)
  \/ ReadThrows
  \/ \E bad \in SUBSET KindsOf(held) : Update(bad)
  \/ Write
  \/ Configure
  \/ \E bad \in SUBSET Measured : Activate(bad)
  \/ Deactivate

Spec == Init /\ [][Next]_vars

\* The control loop is a thread that never stops calling, and it takes up a
\* prepared switch before the controllers are updated.
LoopFairness ==
  /\ WF_vars(Read({}))
  /\ WF_vars(Update({}) /\ pending = NoSwitch)
  /\ WF_vars(Write)
  /\ WF_vars(Perform(NoControl))

FairSpec == Spec /\ LoopFairness

-----------------------------------------------------------------------------
(* Properties of every use of the component                                *)

\* The mode flags of the Robot name the session it is in and nothing else, so
\* that writeOnce() cannot dispatch to a session that was replaced.
ControlMatchesFlags ==
  hw.active = IF hw.control = NoControl THEN {} ELSE {hw.control}

\* No session outlives its mode: a robot under control is under the control
\* of a mode the component considers running and will stop.
ControlIsRunning ==
  hw.control # NoControl => hw.control \in hw.running

\* "Elbow command interface can't be commanded without cartesian velocity or
\* pose interface", whatever was claimed, stopped or failed before.
ElbowNeedsCartesian ==
  Elbow \in hw.running => hw.running \cap CartesianModes # {}

\* The first joint position or Cartesian pose a session receives, and the elbow it
\* receives with a pose, are not older than the session: the buffers were loaded from
\* a state read after its start.  Of an elbow with a twist this is not so: a twist that
\* starts while a pose runs with the elbow finds the elbow running.
FirstWriteAfterRead ==
  sent.result = "sent" /\ sent.from = sent.into =>
    /\ sent.from \in Measured => sent.from \in hw.measured
    /\ sent.from = "cartesian_pose_command" /\ sent.elbow => Elbow \in hw.measured

-----------------------------------------------------------------------------
(* Properties that depend on how the component is used                     *)

\* A command is sent as what it is: efforts as efforts, a pose as a pose.
CommandReachesItsMode ==
  sent.result = "sent" => sent.from = sent.into

\* A mode switch that reported success leaves a session behind for the mode
\* it left running, so that the write that follows it can be called.
SwitchedModeHasControl ==
  performed = "ok" /\ hw.running # {} => hw.control # NoControl

\* A mode switch that reported success leaves what the active controllers claim
\* running, an elbow beside its Cartesian mode included, and nothing else: neither
\* what was asked for with too many interfaces nor the elbow of a stopped mode.
HeldModesRun ==
  performed = "ok" => hw.running = KindsOf(held)

\* A session that goes on is commanded: its mode does not wait for a first
\* read, or behind a branch of write() that another mode takes, for ever.
SessionIsCommanded ==
  \A m \in Modes :
    hw.control = m ~> (hw.control # m \/ sent.into = m)
=============================================================================
