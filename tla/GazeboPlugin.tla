---------------------------- MODULE GazeboPlugin ----------------------------
(***************************************************************************)
(* ign_ros2_control::IgnitionROS2ControlPlugin, which runs a controller    *)
(* manager inside the simulator.  Configure() looks for the robot and      *)
(* starts the executor's thread and the manager; then every step of the    *)
(* simulation calls PreUpdate(), which writes the commands to the          *)
(* simulation, and PostUpdate(), which updates the controllers at their    *)
(* own, slower rate.  A thread of the executor serves switch requests.     *)
(***************************************************************************)
EXTENDS IgnitionSystem

CONSTANTS
  Links,          \* the links of the robot description
  Root,
  Children,       \* the links below each, in the order of their joints' names
  Movable,        \* the links whose joint to the link above moves
  Period,         \* simulation steps between two updates (1 / update_rate)
  DefaultPeriod,  \* control_period_ before update_rate was read
  JointsAreShared,  \* may two controllers drive one joint by different interfaces?
  MaxSwitches     \* bound on the number of switch requests

\* Link k and all that is below it.
IsClosed(ls) == \A k \in ls : \A i \in DOMAIN Children[k] : Children[k][i] \in ls
Below(k) == {l \in Links : \A ls \in SUBSET Links : k \in ls /\ IsClosed(ls) => l \in ls}

\* As a robot description: every link is below the root, and no link, but for the
\* root, which has none, has more than one joint to the links above it.
IsTree ==
  /\ Below(Root) = Links
  /\ \A k \in Links : \A i \in DOMAIN Children[k] : Children[k][i] # Root
  /\ \A k, m \in Links : \A i \in DOMAIN Children[k], j \in DOMAIN Children[m] :
       Children[k][i] = Children[m][j] => k = m /\ i = j

ASSUME PluginAssumption ==
  /\ IsFiniteSet(Links) /\ Root \in Links /\ Movable \subseteq Links
  /\ Children \in [Links -> Seq(Links)]
  /\ Period \in Nat \ {0} /\ DefaultPeriod \in Nat \ {0}
  /\ JointsAreShared \in BOOLEAN
  /\ MaxSwitches \in Nat

ASSUME TreeAssumption == IsTree

VARIABLES
  phase,     \* of the plugin: new, configured, gone, terminated (std::terminate)
  spinning,  \* thread_executor_spin_ runs
  manager,   \* controller_manager_ is set
  tip,       \* the end of the chain kdl_model_ was made for
  period,    \* control_period_
  active,    \* the active controllers (external)
  pending,   \* the switch a service call waits for (external)
  turn,      \* what the simulator calls next
  elapsed,   \* steps since the last update
  fresh,     \* history: the controllers that wrote since they were activated
  released,  \* history: the joints that a switch took from a controller
  switches   \* bound: the requests so far

plugin == <<phase, spinning, manager, tip, period>>
switching == <<active, pending, fresh, released, switches>>
vars == <<joints, plugin, switching, turn, elapsed>>

NoLink == "no link"
NoSwitch == [start |-> {}, stop |-> {}]

TypeOK ==
  /\ JointsTypeOK
  /\ phase \in {"new", "configured", "gone", "terminated"}
  /\ spinning \in BOOLEAN /\ manager \in BOOLEAN
  /\ tip \in Links \cup {NoLink}
  /\ period \in {Period, DefaultPeriod}
  /\ active \subseteq Controllers /\ fresh \subseteq active
  /\ pending \in [start : SUBSET Controllers, stop : SUBSET active]
  /\ turn \in {"pre", "step", "post"}
  /\ elapsed \in Nat
  /\ released \subseteq Joints
  /\ switches \in 0 .. MaxSwitches

Init ==
  /\ initSim
  /\ phase = "new" /\ spinning = FALSE /\ manager = FALSE
  /\ tip = NoLink /\ period = DefaultPeriod
  /\ active = {} /\ fresh = {} /\ pending = NoSwitch /\ released = {} /\ switches = 0
  /\ turn = "pre" /\ elapsed = 0

-----------------------------------------------------------------------------
(* Configure() and the destructor                                          *)

\* A slip: depth first.
VisitDepthFirst(search) ==
  LET link == Head(search.queue) IN
  IF search.queue = <<>> THEN search
  ELSE [queue |-> Children[link] \o Tail(search.queue),
        leaf  |-> IF Children[link] = <<>> THEN link ELSE search.leaf]

\* An iteration of the breadth-first search, if it has not ended.
Visit(search) ==
  LET link == Head(search.queue) IN
  IF search.queue = <<>> THEN search
  ELSE [queue |-> Tail(search.queue) \o Children[link],
        leaf  |-> IF Children[link] = <<>> THEN link ELSE search.leaf]

\* The search after n iterations.  In a tree it meets every link once.
Search[n \in 0..Cardinality(Links)] ==
  IF n = 0 THEN [queue |-> <<Root>>, leaf |-> NoLink] ELSE Visit(Search[n - 1])

\* The last link that has none below it.
findTipLink == Search[Cardinality(Links)].leaf

\* The links from the root to link l.
PathTo == [l \in Links |-> {k \in Links : l \in Below(k)}]

ConfigureFails ==
  /\ phase = "new"
  /\ phase' = "configured"
  /\ \/ UNCHANGED spinning  \* not a model, or no parameters
     \/ spinning' = TRUE    \* no joints, no URDF, no loader, initSim() refuses
  /\ UNCHANGED <<joints, manager, tip, period, switching, turn, elapsed>>

\* A slip: without an update rate the control period is zero.
ConfigureUntimed ==
  /\ phase = "new"
  /\ phase' = "configured"
  /\ spinning' = TRUE /\ manager' = TRUE
  /\ tip' = findTipLink
  /\ period' \in {0, Period}
  /\ UNCHANGED <<joints, switching, turn, elapsed>>

\* A manager without update_rate leaves Configure() early, and stays.
Configure ==
  /\ phase = "new"
  /\ phase' = "configured"
  /\ spinning' = TRUE /\ manager' = TRUE
  /\ tip' = findTipLink
  /\ period' \in {DefaultPeriod, Period}
  /\ UNCHANGED <<joints, switching, turn, elapsed>>

\* Without a manager the destructor returns before it joins the thread, whose own
\* destructor then terminates the simulator.
Destroy ==
  /\ phase = "configured"
  /\ manager' = FALSE
  /\ IF manager
     THEN phase' = "gone" /\ spinning' = FALSE
     ELSE phase' = (IF spinning THEN "terminated" ELSE "gone") /\ UNCHANGED spinning
  /\ UNCHANGED <<joints, tip, period, switching, turn, elapsed>>

-----------------------------------------------------------------------------
(* The controller manager (external), and the steps of the simulation      *)

MayHold(c, d) ==
  c # d => /\ Claims[c] \cap Claims[d] = {}
           /\ JointsAreShared \/ {p[1] : p \in Claims[c]} \cap {p[1] : p \in Claims[d]} = {}

RequestSwitch ==
  /\ phase = "configured" /\ manager
  /\ pending = NoSwitch /\ switches < MaxSwitches
  /\ \E stop \in SUBSET active : \E start \in SUBSET (Controllers \ (active \ stop)) :
       /\ start \cup stop # {}
       /\ \A c, d \in (active \ stop) \cup start : MayHold(c, d)
       /\ pending' = [start |-> start, stop |-> stop]
  /\ switches' = switches + 1
  /\ UNCHANGED <<joints, plugin, active, fresh, released, turn, elapsed>>

\* A chain of another length makes gravity() throw, and write() command nothing.
ChainFits == tip # NoLink => Cardinality(PathTo[tip] \cap Movable) = ArmJoints

PreUpdate ==
  /\ phase = "configured"
  /\ turn = "pre" /\ turn' = "step"
  /\ IF manager /\ ChainFits THEN write ELSE UNCHANGED joints
  /\ UNCHANGED <<plugin, switching, elapsed>>

JointsOf(ifaces) == {p[1] : p \in ifaces}

SimulationStep ==
  /\ phase = "configured"
  /\ turn = "step" /\ turn' = "post"
  /\ Simulate
  /\ elapsed' = IF elapsed < period THEN elapsed + 1 ELSE elapsed
  /\ UNCHANGED <<plugin, switching>>

\* manage_switch(), after the controllers that were active wrote their commands.
SwitchAfter(updated) ==
  /\ perform_command_mode_switch(pending.start, pending.stop)
  /\ active' = (active \ pending.stop) \cup pending.start
  /\ fresh' = updated \ (pending.stop \cup pending.start)
  /\ released' = released \cup JointsOf(ClaimsOf(pending.stop))
  /\ pending' = NoSwitch

PostUpdate ==
  /\ phase = "configured"
  /\ turn = "post" /\ turn' = "pre"
  /\ IF manager /\ elapsed >= period
     THEN /\ elapsed' = 0
          /\ Update(active)
          /\ IF pending = NoSwitch
             THEN fresh' = active /\ UNCHANGED <<method, active, pending, released>>
             ELSE SwitchAfter(active)
          /\ UNCHANGED <<velocity, force>>
     ELSE UNCHANGED <<joints, active, pending, fresh, released, elapsed>>
  /\ UNCHANGED <<plugin, switches>>

Done == phase \in {"gone", "terminated"} /\ UNCHANGED vars

Next ==
  \/ Configure \/ ConfigureFails \/ Destroy
  \/ RequestSwitch
  \/ PreUpdate \/ SimulationStep \/ PostUpdate
  \/ Done

Spec == Init /\ [][Next]_vars

-----------------------------------------------------------------------------
(* Properties                                                              *)

\* The command the simulation gets for a held joint is the one its holder wrote,
\* from the holder's first update on, once the joint has the component at all.
HeldJointObeysHolder ==
  [][(turn = "pre" /\ turn' = "step" /\ manager /\ ChainFits) =>
        \A c \in fresh : \A p \in Claims[c] :
          (p[1] \in InModel /\ p[1] \notin DOMAIN Mimics) =>
            IF p[2] = "effort"
            THEN force[p[1]] # Absent => force'[p[1]] = EffortOf(p[1]) /\ cmd[p[1]]["effort"] = c
            ELSE velocity[p[1]] # Absent => velocity'[p[1]] = <<p[2], c>>]_vars

\* A joint whose controller was stopped is braked: the next steps command zero
\* velocity and no effort, so that nothing of the old command keeps moving it.
ReleasedJointRests ==
  turn = "step" /\ manager /\ ChainFits =>
    \A j \in (released \cap InModel) \ JointsOf(ClaimsOf(active)) :
      j \notin DOMAIN Mimics => velocity[j] = Zero /\ force[j] \in {Absent, Zero}

\* findTipLink() ends at a link of greatest depth, so that the chain whose weight
\* is compensated is that of the whole arm and write() finds ArmJoints joints in it.
ChainIsTheArm ==
  tip # NoLink => /\ Cardinality(PathTo[tip] \cap Movable) = ArmJoints
                  /\ \A l \in Links : Cardinality(PathTo[l]) <= Cardinality(PathTo[tip])
=============================================================================
