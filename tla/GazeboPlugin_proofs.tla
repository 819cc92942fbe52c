------------------------- MODULE GazeboPlugin_proofs -------------------------
(***************************************************************************)
(* Proofs about GazeboPlugin, for any number of joints, controllers and    *)
(* switches.  A joint whose controller was stopped is braked (IInv says    *)
(* what a switch, a write() and a simulation step leave to each other); a  *)
(* joint that is held gets its holder's commands (HolderInv says which     *)
(* interface drives a joint and whose command is in it); the chain whose   *)
(* weight is compensated ends at the last of the deepest links, by         *)
(* induction over the iterations of the breadth-first search (SearchInv    *)
(* says what the queue holds); and every variable keeps its type.          *)
(***************************************************************************)
EXTENDS GazeboPlugin, FiniteSetTheorems, TLAPS

ClaimedBy(cs) == JointsOf(ClaimsOf(cs))

\* What the controller manager asks for, and that nothing is simulated before
\* the plugin is configured.
PluginInv ==
  /\ active \subseteq Controllers
  /\ pending.start \subseteq Controllers /\ pending.stop \subseteq Controllers
  /\ phase = "new" => turn = "pre"

\* A released joint has no control method, but interfaces it could be driven by.
MethodInv ==
  \A j \in (released \cap InModel) \ ClaimedBy(active) : method[j] = {} /\ Offers[j] # {}

\* The simulation uses up the efforts it is given.
ForceInv == turn # "step" => \A j \in InModel : force[j] \in {Absent, Zero}

IInv == PluginInv /\ MethodInv /\ ForceInv /\ ReleasedJointRests

LEMMA ModelJoints == InModel \subseteq Joints
BY JointsAssumption DEF JointsAssumption

LEMMA InitInv == Init => IInv
<1> SUFFICES ASSUME Init PROVE IInv
  OBVIOUS
<1>1. PluginInv
  BY DEF Init, PluginInv, NoSwitch
<1>2. MethodInv /\ ReleasedJointRests
  BY DEF Init, MethodInv, ReleasedJointRests
<1>3. ForceInv
  BY ModelJoints DEF Init, initSim, ForceInv
<1> QED BY <1>1, <1>2, <1>3 DEF IInv

-----------------------------------------------------------------------------
(***************************************************************************)
(* Claims and control methods                                              *)
(***************************************************************************)
\* A joint is claimed if and only if one of its interfaces is.
LEMMA ClaimedByInterface ==
  ASSUME NEW cs \in SUBSET Controllers, NEW j
  PROVE  j \in ClaimedBy(cs) <=> On(j, ClaimsOf(cs)) # {}
<1>1. \A c \in cs : Claims[c] \subseteq Joints \X Interfaces
  BY JointsAssumption DEF JointsAssumption
<1>2. ASSUME NEW p \in ClaimsOf(cs)
      PROVE  p[2] \in Interfaces /\ p = <<p[1], p[2]>>
  BY <1>1 DEF ClaimsOf
<1>3. ASSUME j \in ClaimedBy(cs) PROVE On(j, ClaimsOf(cs)) # {}
  <2>1. PICK p \in ClaimsOf(cs) : p[1] = j
    BY <1>3 DEF ClaimedBy, JointsOf
  <2> QED BY <1>2, <2>1 DEF On
<1>4. ASSUME On(j, ClaimsOf(cs)) # {} PROVE j \in ClaimedBy(cs)
  <2>1. PICK i \in Interfaces : <<j, i>> \in ClaimsOf(cs)
    BY <1>4 DEF On
  <2> QED BY <2>1 DEF ClaimedBy, JointsOf
<1> QED BY <1>3, <1>4

\* Only offered interfaces are claimed.
LEMMA ClaimedIsOffered ==
  ASSUME NEW cs \in SUBSET Controllers, NEW j \in ClaimedBy(cs)
  PROVE  Offers[j] # {}
<1>1. PICK p \in ClaimsOf(cs) : p[1] = j
  BY DEF ClaimedBy, JointsOf
<1>2. PICK c \in cs : p \in Claims[c]
  BY <1>1 DEF ClaimsOf
<1> QED BY <1>1, <1>2, JointsAssumption DEF JointsAssumption

LEMMA ClaimedByUnion ==
  ASSUME NEW cs, NEW ds
  PROVE  ClaimedBy(cs \cup ds) = ClaimedBy(cs) \cup ClaimedBy(ds)
BY DEF ClaimedBy, JointsOf, ClaimsOf

\* A switch leaves no control method to a joint it releases, and gives none to
\* one it does not start.
LEMMA SwitchReleases ==
  ASSUME PluginInv, MethodInv, NEW updated, SwitchAfter(updated)
  PROVE  MethodInv'
<1> DEFINE start == pending.start
           stop  == pending.stop
<1>1. active' = (active \ stop) \cup start /\ released' = released \cup ClaimedBy(stop)
  BY DEF SwitchAfter, ClaimedBy
<1> SUFFICES ASSUME NEW j \in InModel, j \in released', j \notin ClaimedBy(active')
             PROVE  method'[j] = {} /\ Offers[j] # {}
  BY DEF MethodInv, ClaimedBy, JointsOf, ClaimsOf
<1>3. method'[j] = MethodAfter(method[j], On(j, ClaimsOf(start)), On(j, ClaimsOf(stop)))
  BY ModelJoints DEF SwitchAfter, perform_command_mode_switch
<1>4. On(j, ClaimsOf(start)) = {}
  <2>1. j \notin ClaimedBy(start)
    BY <1>1, ClaimedByUnion
  <2> QED BY <2>1, ClaimedByInterface DEF PluginInv
<1>5. CASE j \in ClaimedBy(stop)
  <2>1. On(j, ClaimsOf(stop)) # {} /\ Offers[j] # {}
    BY <1>5, ClaimedByInterface, ClaimedIsOffered DEF PluginInv
  <2> QED BY <1>3, <1>4, <2>1 DEF MethodAfter
<1>6. CASE j \notin ClaimedBy(stop)
  <2>1. j \in released
    BY <1>1, <1>6
  <2>2. j \notin ClaimedBy(active)
    <3>1. active \subseteq active' \cup stop
      BY <1>1
    <3> QED BY <1>6, <3>1 DEF ClaimedBy, JointsOf, ClaimsOf
  <2>3. method[j] = {} /\ Offers[j] # {}
    BY <2>1, <2>2 DEF MethodInv
  <2>4. On(j, ClaimsOf(stop)) = {}
    BY <1>6, ClaimedByInterface DEF PluginInv
  <2> QED BY <1>3, <1>4, <2>3, <2>4 DEF MethodAfter
<1> QED BY <1>5, <1>6

\* write() brakes a joint without a control method.
LEMMA WriteBrakes ==
  ASSUME NEW j \in InModel, j \notin DOMAIN Mimics, method[j] = {}, Offers[j] # {},
         force[j] \in {Absent, Zero}, write
  PROVE  velocity'[j] = Zero /\ force'[j] \in {Absent, Zero}
<1>1. j \in Joints
  BY ModelJoints
<1>2. Driver(j) = "rest"
  BY DEF Driver
<1>3. ~Follows(j, "position") /\ ~Follows(j, "velocity") /\ ~Follows(j, "effort")
  BY DEF Follows
<1>4. velocity'[j] = VelocityOf(j) /\ force'[j] = ForceOf(j)
  BY <1>1, <1>3 DEF write
<1> QED BY <1>2, <1>4 DEF VelocityOf, ForceOf

-----------------------------------------------------------------------------
(***************************************************************************)
(* The steps                                                               *)
(***************************************************************************)
LEMMA ConfigureInv == ASSUME IInv, Configure \/ ConfigureFails PROVE IInv'
<1>1. turn' = "pre" /\ UNCHANGED <<joints, switching, turn>>
  BY DEF IInv, PluginInv, Configure, ConfigureFails
<1>2. PluginInv'
  BY <1>1 DEF IInv, PluginInv, Configure, ConfigureFails, switching
<1>3. MethodInv' /\ ForceInv'
  BY <1>1 DEF IInv, MethodInv, ForceInv, ClaimedBy, JointsOf, ClaimsOf, switching, joints
<1>4. ReleasedJointRests'
  BY <1>1 DEF ReleasedJointRests
<1> QED BY <1>2, <1>3, <1>4 DEF IInv

LEMMA DestroyInv == ASSUME IInv, Destroy PROVE IInv'
<1>1. /\ manager' = FALSE /\ phase' # "new"
      /\ UNCHANGED <<joints, switching, turn>>
  BY DEF Destroy
<1>2. PluginInv'
  BY <1>1 DEF IInv, PluginInv, switching
<1>3. MethodInv' /\ ForceInv'
  BY <1>1 DEF IInv, MethodInv, ForceInv, ClaimedBy, JointsOf, ClaimsOf, switching, joints
<1>4. ReleasedJointRests'
  BY <1>1 DEF ReleasedJointRests
<1> QED BY <1>2, <1>3, <1>4 DEF IInv

LEMMA RequestInv == ASSUME IInv, RequestSwitch PROVE IInv'
<1>1. UNCHANGED <<joints, plugin, active, released, turn>>
  BY DEF RequestSwitch
<1>2. PluginInv'
  <2>1. pending'.start \subseteq Controllers /\ pending'.stop \subseteq active
    BY DEF RequestSwitch
  <2> QED BY <1>1, <2>1 DEF IInv, PluginInv, plugin
<1>3. MethodInv' /\ ForceInv'
  BY <1>1 DEF IInv, MethodInv, ForceInv, ClaimedBy, JointsOf, ClaimsOf, joints
<1>4. ReleasedJointRests'
  BY <1>1 DEF IInv, ReleasedJointRests, ChainFits, JointsOf, ClaimsOf, plugin, joints
<1> QED BY <1>2, <1>3, <1>4 DEF IInv

LEMMA PreUpdateInv == ASSUME IInv, PreUpdate PROVE IInv'
<1>1. /\ turn = "pre" /\ turn' = "step" /\ phase = "configured"
      /\ UNCHANGED <<plugin, switching>>
  BY DEF PreUpdate
<1>2. method' = method
  BY DEF PreUpdate, write, joints
<1>3. PluginInv'
  BY <1>1 DEF IInv, PluginInv, plugin, switching
<1>4. MethodInv'
  BY <1>1, <1>2 DEF IInv, MethodInv, ClaimedBy, JointsOf, ClaimsOf, switching
<1>5. ForceInv'
  BY <1>1 DEF ForceInv
<1>6. ReleasedJointRests'
  <2> SUFFICES ASSUME manager', ChainFits',
                      NEW j \in (released' \cap InModel) \ ClaimedBy(active'),
                      j \notin DOMAIN Mimics
               PROVE  velocity'[j] = Zero /\ force'[j] \in {Absent, Zero}
    BY DEF ReleasedJointRests, ClaimedBy, JointsOf, ClaimsOf
  <2>1. write
    BY <1>1 DEF PreUpdate, ChainFits, plugin
  <2>2. method[j] = {} /\ Offers[j] # {} /\ force[j] \in {Absent, Zero}
    BY <1>1 DEF IInv, MethodInv, ForceInv, switching
  <2> QED BY <2>1, <2>2, WriteBrakes
<1> QED BY <1>3, <1>4, <1>5, <1>6 DEF IInv

LEMMA SimulationInv == ASSUME IInv, SimulationStep PROVE IInv'
<1>1. turn' = "post" /\ phase' = "configured" /\ UNCHANGED <<switching, method>>
  BY DEF SimulationStep, Simulate, plugin
<1>2. PluginInv' /\ ReleasedJointRests'
  BY <1>1 DEF IInv, PluginInv, ReleasedJointRests, switching
<1>3. MethodInv'
  BY <1>1 DEF IInv, MethodInv, ClaimedBy, JointsOf, ClaimsOf, switching
<1>4. ForceInv'
  BY ModelJoints DEF ForceInv, SimulationStep, Simulate
<1> QED BY <1>2, <1>3, <1>4 DEF IInv

LEMMA PostUpdateInv == ASSUME IInv, PostUpdate PROVE IInv'
<1>1. turn = "post" /\ turn' = "pre" /\ UNCHANGED <<force, plugin>>
  BY DEF PostUpdate, joints
<1>2. ReleasedJointRests' /\ ForceInv'
  BY <1>1 DEF IInv, ReleasedJointRests, ForceInv
<1>3. CASE SwitchAfter(active)
  <2>1. MethodInv'
    BY <1>3, SwitchReleases DEF IInv
  <2>2. PluginInv'
    BY <1>1, <1>3 DEF IInv, PluginInv, SwitchAfter, NoSwitch
  <2> QED BY <1>2, <2>1, <2>2 DEF IInv
<1>4. CASE UNCHANGED <<method, active, pending, released>>
  <2>1. MethodInv'
    BY <1>4 DEF IInv, MethodInv, ClaimedBy, JointsOf, ClaimsOf
  <2>2. PluginInv'
    BY <1>1, <1>4 DEF IInv, PluginInv
  <2> QED BY <1>2, <2>1, <2>2 DEF IInv
<1> QED BY <1>3, <1>4 DEF PostUpdate, joints

LEMMA StutterInv == ASSUME IInv, UNCHANGED vars PROVE IInv'
<1>1. PluginInv'
  BY DEF IInv, PluginInv, vars, plugin, switching
<1>2. MethodInv' /\ ForceInv'
  BY DEF IInv, MethodInv, ForceInv, ClaimedBy, JointsOf, ClaimsOf, vars, switching, joints
<1>3. ReleasedJointRests'
  BY DEF IInv, ReleasedJointRests, ChainFits, JointsOf, ClaimsOf, vars, plugin, switching, joints
<1> QED BY <1>1, <1>2, <1>3 DEF IInv

LEMMA StepInv == ASSUME IInv, [Next]_vars PROVE IInv'
BY ConfigureInv, DestroyInv, RequestInv, PreUpdateInv, SimulationInv, PostUpdateInv, StutterInv
   DEF Next, Done

-----------------------------------------------------------------------------
(***************************************************************************)
(* The theorem                                                             *)
(***************************************************************************)
\* perform_command_mode_switch() leaves a stopped joint no control method, and
\* write() then commands it to rest before every step of the simulation, as
\* often as controllers are switched on and off.
THEOREM ReleasedJointRestsAlways == Spec => []ReleasedJointRests
<1>1. IInv => ReleasedJointRests
  BY DEF IInv
<1> QED BY InitInv, StepInv, <1>1, PTL DEF Spec
-----------------------------------------------------------------------------
(***************************************************************************)
(* A held joint obeys its holder                                           *)
(***************************************************************************)
\* No two controllers drive one joint, and none drives a joint by two of its
\* interfaces: what the command modes of this component are meant for.
OneDriver ==
  /\ ~JointsAreShared
  /\ \A c \in Controllers : \A p, q \in Claims[c] : p[1] = q[1] => p = q

Apart(cs) == \A c, d \in cs : MayHold(c, d)

AfterSwitch == (active \ pending.stop) \cup pending.start

\* The controllers that run, and those that will after the switch.
HoldersApart == pending.stop \subseteq active /\ Apart(active) /\ Apart(AfterSwitch)

\* A held joint has its holder's interface, and perhaps the efforts initSim()
\* gave it; a joint that nobody holds has at most those.
MethodHeld ==
  /\ \A c \in active : \A p \in Claims[c] :
       p[1] \in InModel => p[2] \in method[p[1]] /\ method[p[1]] \subseteq {p[2], "effort"}
  /\ \A j \in InModel \ ClaimedBy(active) : method[j] \subseteq {"effort"}

\* The command in a held interface is the holder's own from its first update on.
CommandHeld ==
  /\ fresh \subseteq active
  /\ \A c \in fresh : \A p \in Claims[c] : cmd[p[1]][p[2]] = c

HolderInv == HoldersApart /\ MethodHeld /\ CommandHeld

LEMMA ClaimIsPair ==
  ASSUME NEW c \in Controllers, NEW p \in Claims[c]
  PROVE  p[1] \in Joints /\ p[2] \in Interfaces /\ p = <<p[1], p[2]>>
<1>1. Claims[c] \subseteq Joints \X Interfaces
  BY JointsAssumption DEF JointsAssumption
<1> QED BY <1>1

\* Controllers that are apart hold a joint alone, by one interface.
LEMMA OneHolder ==
  ASSUME OneDriver, NEW cs \in SUBSET Controllers, Apart(cs),
         NEW c \in cs, NEW d \in cs, NEW p \in Claims[c], NEW q \in Claims[d], p[1] = q[1]
  PROVE  c = d /\ p = q
<1>1. c = d
  <2> SUFFICES ASSUME c # d PROVE FALSE
    OBVIOUS
  <2>1. JointsOf(Claims[c]) \cap JointsOf(Claims[d]) = {}
    BY DEF Apart, MayHold, OneDriver, JointsOf
  <2> QED BY <2>1 DEF JointsOf
<1> QED BY <1>1 DEF OneDriver

\* What controllers that are apart have on a joint that one of them holds.
LEMMA OnHeld ==
  ASSUME OneDriver, NEW cs \in SUBSET Controllers, Apart(cs),
         NEW c \in cs, NEW p \in Claims[c]
  PROVE  On(p[1], ClaimsOf(cs)) = {p[2]}
<1>1. p[2] \in Interfaces /\ p = <<p[1], p[2]>>
  BY ClaimIsPair
<1>2. p[2] \in On(p[1], ClaimsOf(cs))
  BY <1>1 DEF On, ClaimsOf
<1>3. ASSUME NEW i \in On(p[1], ClaimsOf(cs)) PROVE i = p[2]
  <2>1. PICK d \in cs : <<p[1], i>> \in Claims[d]
    BY <1>3 DEF On, ClaimsOf
  <2>2. <<p[1], i>> = p
    BY <2>1, OneHolder
  <2> QED BY <1>1, <2>2
<1> QED BY <1>2, <1>3

\* A joint that controllers have an interface of is held by one of them.
LEMMA HolderOf ==
  ASSUME NEW cs \in SUBSET Controllers, NEW j, On(j, ClaimsOf(cs)) # {}
  PROVE  \E d \in cs : \E q \in Claims[d] : q[1] = j
<1>1. PICK i \in Interfaces : <<j, i>> \in ClaimsOf(cs)
  BY DEF On
<1>2. PICK d \in cs : <<j, i>> \in Claims[d]
  BY <1>1 DEF ClaimsOf
<1> QED BY <1>2

\* A switch drives each joint by the interface of its new holder.
LEMMA SwitchDrives ==
  ASSUME OneDriver, PluginInv, HolderInv, NEW updated, SwitchAfter(updated)
  PROVE  MethodHeld'
<1> DEFINE start == pending.start
           stop  == pending.stop
           Started(j) == On(j, ClaimsOf(start))
           Stopped(j) == On(j, ClaimsOf(stop))
<1>1. active' = AfterSwitch /\ active' \subseteq Controllers /\ start \subseteq active'
  BY DEF SwitchAfter, AfterSwitch, PluginInv
<1>2. /\ start \in SUBSET Controllers /\ stop \in SUBSET active
      /\ stop \in SUBSET Controllers /\ active \in SUBSET Controllers
  BY DEF PluginInv, HolderInv, HoldersApart
<1>3. Apart(active) /\ Apart(active') /\ Apart(start)
  BY <1>1 DEF HolderInv, HoldersApart, Apart
<1>4. \A j \in InModel : method'[j] = MethodAfter(method[j], Started(j), Stopped(j))
  BY ModelJoints DEF SwitchAfter, perform_command_mode_switch
<1>5. ASSUME NEW c \in active', NEW p \in Claims[c], p[1] \in InModel
      PROVE  p[2] \in method'[p[1]] /\ method'[p[1]] \subseteq {p[2], "effort"}
  <2> DEFINE j == p[1]
  <2>1. CASE c \in start
    <3>1. Started(j) = {p[2]}
      BY <1>2, <1>3, <2>1, OnHeld
    <3>2. CASE Stopped(j) # {}
      BY <1>4, <1>5, <3>1, <3>2 DEF MethodAfter
    <3>3. CASE Stopped(j) = {}
      <4>1. method[j] \subseteq {p[2], "effort"}
        <5>1. CASE j \in ClaimedBy(active)
          <6>1. PICK d \in active : \E q \in Claims[d] : q[1] = j
            BY <5>1 DEF ClaimedBy, JointsOf, ClaimsOf
          <6>q. PICK q \in Claims[d] : q[1] = j
            BY <6>1
          <6>2. d \notin stop
            <7> SUFFICES ASSUME d \in stop PROVE FALSE
              OBVIOUS
            <7>1. Stopped(j) = {q[2]}
              <8>1. Apart(stop)
                BY <1>2, <1>3 DEF Apart
              <8> QED BY <1>2, <6>q, <8>1, OnHeld
            <7> QED BY <3>3, <7>1
          <6>3. d \in active'
            BY <1>1, <6>2 DEF AfterSwitch
          <6>4. c = d /\ p = q
            BY <1>1, <1>3, <6>q, <6>3, OneHolder
          <6> QED BY <1>5, <6>4 DEF HolderInv, MethodHeld
        <5>2. CASE j \notin ClaimedBy(active)
          BY <1>5, <5>2 DEF HolderInv, MethodHeld
        <5> QED BY <5>1, <5>2
      <4> QED BY <1>4, <1>5, <3>1, <3>3, <4>1 DEF MethodAfter
    <3> QED BY <3>2, <3>3
  <2>2. CASE c \notin start
    <3>1. c \in active /\ c \notin stop
      BY <1>1, <2>2 DEF AfterSwitch
    <3>2. Started(j) = {}
      <4> SUFFICES ASSUME Started(j) # {} PROVE FALSE
        OBVIOUS
      <4>1. PICK d \in start : \E q \in Claims[d] : q[1] = j
        BY <1>2, HolderOf
      <4>2. c = d
        BY <1>1, <1>3, <4>1, OneHolder
      <4> QED BY <2>2, <4>2
    <3>3. Stopped(j) = {}
      <4> SUFFICES ASSUME Stopped(j) # {} PROVE FALSE
        OBVIOUS
      <4>1. PICK d \in stop : \E q \in Claims[d] : q[1] = j
        BY <1>2, HolderOf
      <4>2. c = d
        BY <1>2, <1>3, <3>1, <4>1, OneHolder
      <4> QED BY <3>1, <4>2
    <3> QED BY <1>4, <1>5, <3>1, <3>2, <3>3 DEF MethodAfter, HolderInv, MethodHeld
  <2> QED BY <2>1, <2>2
<1>6. ASSUME NEW j \in InModel, j \notin ClaimedBy(active') PROVE method'[j] \subseteq {"effort"}
  <2>1. Started(j) = {}
    <3>1. j \notin ClaimedBy(start)
      BY <1>1, <1>6 DEF ClaimedBy, JointsOf, ClaimsOf
    <3> QED BY <1>2, <3>1, ClaimedByInterface
  <2>2. CASE Stopped(j) # {}
    BY <1>4, <2>1, <2>2 DEF MethodAfter
  <2>3. CASE Stopped(j) = {}
    <3>1. j \notin ClaimedBy(stop)
      BY <1>2, <2>3, ClaimedByInterface
    <3>2. j \notin ClaimedBy(active)
      <4>1. active \subseteq active' \cup stop
        BY <1>1 DEF AfterSwitch
      <4> QED BY <1>6, <3>1, <4>1 DEF ClaimedBy, JointsOf, ClaimsOf
    <3> QED BY <1>4, <2>1, <2>3, <3>2 DEF MethodAfter, HolderInv, MethodHeld
  <2> QED BY <2>2, <2>3
<1> QED BY <1>5, <1>6 DEF MethodHeld, ClaimedBy, JointsOf, ClaimsOf

\* An update leaves each running controller's commands in the interfaces it holds.
LEMMA UpdateHeld ==
  ASSUME OneDriver, NEW cs \in SUBSET Controllers, Apart(cs), Update(cs),
         NEW c \in cs, NEW p \in Claims[c]
  PROVE  cmd'[p[1]][p[2]] = c
<1>1. p[1] \in Joints /\ p[2] \in Interfaces /\ p = <<p[1], p[2]>>
  BY ClaimIsPair
<1>2. cmd'[p[1]][p[2]] = CHOOSE d \in cs : <<p[1], p[2]>> \in Claims[d]
  BY <1>1 DEF Update
<1>3. ASSUME NEW d \in cs, <<p[1], p[2]>> \in Claims[d] PROVE d = c
  BY <1>1, <1>3, OneHolder
<1> QED BY <1>1, <1>2, <1>3

-----------------------------------------------------------------------------
(* The steps keep HolderInv                                                *)

LEMMA InitHolder == Init => HolderInv
<1> SUFFICES ASSUME Init PROVE HolderInv
  OBVIOUS
<1>1. active = {} /\ fresh = {} /\ pending = NoSwitch /\ initSim
  BY DEF Init
<1>2. HoldersApart
  BY <1>1 DEF HoldersApart, Apart, AfterSwitch, NoSwitch
<1>3. MethodHeld
  BY <1>1, ModelJoints DEF MethodHeld, initSim
<1>4. CommandHeld
  BY <1>1 DEF CommandHeld
<1> QED BY <1>2, <1>3, <1>4 DEF HolderInv

\* Nothing that HolderInv is about changes.
LEMMA HolderUnchanged ==
  ASSUME HolderInv, UNCHANGED <<method, cmd, active, pending, fresh>>
  PROVE  HolderInv'
<1>1. HoldersApart'
  BY DEF HolderInv, HoldersApart, Apart, MayHold, AfterSwitch
<1>2. MethodHeld'
  BY DEF HolderInv, MethodHeld, ClaimedBy, JointsOf, ClaimsOf
<1>3. CommandHeld'
  BY DEF HolderInv, CommandHeld
<1> QED BY <1>1, <1>2, <1>3 DEF HolderInv

LEMMA RequestHolder == ASSUME HolderInv, RequestSwitch PROVE HolderInv'
<1>1. UNCHANGED <<method, cmd, active, fresh>>
  BY DEF RequestSwitch, joints
<1>2. HoldersApart'
  <2>1. PICK stop \in SUBSET active, start \in SUBSET Controllers :
          /\ \A c, d \in (active \ stop) \cup start : MayHold(c, d)
          /\ pending' = [start |-> start, stop |-> stop]
    BY DEF RequestSwitch
  <2>2. Apart(AfterSwitch)' /\ pending'.stop \subseteq active'
    BY <1>1, <2>1 DEF Apart, MayHold, AfterSwitch
  <2> QED BY <1>1, <2>2 DEF HolderInv, HoldersApart, Apart, MayHold
<1>3. MethodHeld'
  BY <1>1 DEF HolderInv, MethodHeld, ClaimedBy, JointsOf, ClaimsOf
<1>4. CommandHeld'
  BY <1>1 DEF HolderInv, CommandHeld
<1> QED BY <1>2, <1>3, <1>4 DEF HolderInv

LEMMA PostUpdateHolder ==
  ASSUME OneDriver, PluginInv, HolderInv, PostUpdate
  PROVE  HolderInv'
<1>1. CASE UNCHANGED <<joints, active, pending, fresh, released, elapsed>>
  BY <1>1, HolderUnchanged DEF joints
<1>2. CASE Update(active) /\ fresh' = active /\ UNCHANGED <<method, active, pending>>
  <2>1. HoldersApart'
    BY <1>2 DEF HolderInv, HoldersApart, Apart, MayHold, AfterSwitch
  <2>2. MethodHeld'
    BY <1>2 DEF HolderInv, MethodHeld, ClaimedBy, JointsOf, ClaimsOf
  <2>3. CommandHeld'
    BY <1>2, UpdateHeld DEF HolderInv, HoldersApart, PluginInv, CommandHeld
  <2> QED BY <2>1, <2>2, <2>3 DEF HolderInv
<1>3. CASE Update(active) /\ SwitchAfter(active)
  <2>1. active' = AfterSwitch /\ pending' = NoSwitch
    BY <1>3 DEF SwitchAfter, AfterSwitch
  <2>2. HoldersApart'
    <3>1. Apart(active)'
      BY <2>1 DEF HolderInv, HoldersApart, Apart, MayHold
    <3>2. AfterSwitch' = active'
      BY <2>1 DEF AfterSwitch, NoSwitch
    <3>3. pending'.stop = {}
      BY <2>1 DEF NoSwitch
    <3> QED BY <3>1, <3>2, <3>3 DEF HoldersApart, Apart
  <2>3. MethodHeld'
    BY <1>3, SwitchDrives
  <2>4. CommandHeld'
    <3>1. fresh' = active \ (pending.stop \cup pending.start)
      BY <1>3 DEF SwitchAfter
    <3>2. fresh' \subseteq active'
      BY <2>1, <3>1 DEF AfterSwitch
    <3>3. \A c \in fresh' : \A p \in Claims[c] : cmd'[p[1]][p[2]] = c
      BY <1>3, <3>1, UpdateHeld DEF HolderInv, HoldersApart, PluginInv
    <3> QED BY <3>2, <3>3 DEF CommandHeld
  <2> QED BY <2>2, <2>3, <2>4 DEF HolderInv
<1> QED BY <1>1, <1>2, <1>3 DEF PostUpdate

LEMMA StepHolder ==
  ASSUME OneDriver, IInv, HolderInv, [Next]_vars
  PROVE  HolderInv'
<1>1. CASE Configure \/ ConfigureFails \/ Destroy \/ Done \/ UNCHANGED vars
  <2>1. UNCHANGED <<method, cmd, active, pending, fresh>>
    BY <1>1 DEF Configure, ConfigureFails, Destroy, Done, vars, joints, switching
  <2> QED BY <2>1, HolderUnchanged
<1>2. CASE RequestSwitch
  BY <1>2, RequestHolder
<1>3. CASE PreUpdate \/ SimulationStep
  <2>1. UNCHANGED <<method, cmd, active, pending, fresh>>
    BY <1>3 DEF PreUpdate, SimulationStep, write, Simulate, joints, switching
  <2> QED BY <2>1, HolderUnchanged
<1>4. CASE PostUpdate
  BY <1>4, PostUpdateHolder DEF IInv
<1> QED BY <1>1, <1>2, <1>3, <1>4 DEF Next

\* The branch of write() that an interface's joint is driven by.
LEMMA DrivenBy ==
  ASSUME NEW j \in InModel, NEW i \in Interfaces,
         i \in method[j], method[j] \subseteq {i, "effort"}
  PROVE  Driver(j) = i
<1>1. CASE i = "velocity"
  BY <1>1 DEF Driver
<1>2. CASE i = "position"
  <2>1. "position" \in method[j] /\ "velocity" \notin method[j]
    BY <1>2
  <2> QED BY <1>2, <2>1 DEF Driver
<1>3. CASE i = "effort"
  <2>1. "effort" \in method[j] /\ "velocity" \notin method[j] /\ "position" \notin method[j]
    BY <1>3
  <2> QED BY <1>3, <2>1 DEF Driver
<1> QED BY <1>1, <1>2, <1>3 DEF Interfaces

\* write() obeys the holder of a joint.
LEMMA WriteObeys ==
  ASSUME PluginInv, HolderInv, write, NEW c \in fresh, NEW p \in Claims[c],
         p[1] \in InModel, p[1] \notin DOMAIN Mimics
  PROVE  IF p[2] = "effort"
         THEN force[p[1]] # Absent => force'[p[1]] = EffortOf(p[1]) /\ cmd[p[1]]["effort"] = c
         ELSE velocity[p[1]] # Absent => velocity'[p[1]] = <<p[2], c>>
<1> DEFINE j == p[1]
<1>1. /\ c \in active /\ c \in Controllers /\ cmd[j][p[2]] = c
      /\ p[2] \in method[j] /\ method[j] \subseteq {p[2], "effort"}
  BY DEF HolderInv, MethodHeld, CommandHeld, PluginInv
<1>2. j \in Joints /\ p[2] \in Interfaces
  BY <1>1, ClaimIsPair
<1>3. Driver(j) = p[2]
  BY <1>1, <1>2, DrivenBy
<1>4. ~Follows(j, "position") /\ ~Follows(j, "velocity") /\ ~Follows(j, "effort")
  BY DEF Follows
<1>5. velocity'[j] = VelocityOf(j) /\ force'[j] = ForceOf(j)
  BY <1>2, <1>4 DEF write
<1>6. CASE p[2] = "effort"
  BY <1>1, <1>3, <1>5, <1>6 DEF ForceOf, CreateOrSet
<1>7. CASE p[2] = "velocity"
  BY <1>1, <1>3, <1>5, <1>7 DEF VelocityOf, CreateOrSet
<1>8. CASE p[2] = "position"
  BY <1>1, <1>3, <1>5, <1>8 DEF VelocityOf
<1> QED BY <1>2, <1>6, <1>7, <1>8 DEF Interfaces

\* From its first update on, a controller's command for a joint is what the
\* simulation gets for it before every step, if no controllers share a joint and
\* none takes two interfaces of one: PreUpdate() writes after PostUpdate() has
\* updated the controllers and switched the command modes.
THEOREM HeldJointObeysHolderAlways ==
  ASSUME OneDriver
  PROVE  Spec => HeldJointObeysHolder
<1> DEFINE Obeys ==
      (turn = "pre" /\ turn' = "step" /\ manager /\ ChainFits) =>
        \A c \in fresh : \A p \in Claims[c] :
          (p[1] \in InModel /\ p[1] \notin DOMAIN Mimics) =>
            IF p[2] = "effort"
            THEN force[p[1]] # Absent => force'[p[1]] = EffortOf(p[1]) /\ cmd[p[1]]["effort"] = c
            ELSE velocity[p[1]] # Absent => velocity'[p[1]] = <<p[2], c>>
<1>1. Init => IInv /\ HolderInv
  BY InitInv, InitHolder
<1>2. IInv /\ HolderInv /\ [Next]_vars => IInv' /\ HolderInv'
  BY StepInv, StepHolder
<1>3. IInv /\ HolderInv /\ [Next]_vars => [Obeys]_vars
  <2> SUFFICES ASSUME IInv, HolderInv, Next, turn = "pre", turn' = "step", manager, ChainFits,
                      NEW c \in fresh, NEW p \in Claims[c],
                      p[1] \in InModel, p[1] \notin DOMAIN Mimics
               PROVE  IF p[2] = "effort"
                      THEN force[p[1]] # Absent =>
                             force'[p[1]] = EffortOf(p[1]) /\ cmd[p[1]]["effort"] = c
                      ELSE velocity[p[1]] # Absent => velocity'[p[1]] = <<p[2], c>>
    OBVIOUS
  <2>1. PreUpdate
    BY DEF Next, Configure, ConfigureFails, Destroy, RequestSwitch, SimulationStep,
           PostUpdate, Done, vars
  <2>2. write
    BY <2>1 DEF PreUpdate
  <2> QED BY <2>2, WriteObeys DEF IInv
<1> QED BY <1>1, <1>2, <1>3, PTL DEF Spec, HeldJointObeysHolder
-----------------------------------------------------------------------------
(***************************************************************************)
(* Induction over the natural numbers, for a set of them                   *)
(***************************************************************************)
LEMMA ElementOfSeq ==
  ASSUME NEW S, NEW seq \in Seq(S), NEW i \in DOMAIN seq
  PROVE  seq[i] \in S
OBVIOUS

LEMMA SmallestExists ==
  ASSUME NEW S \in SUBSET Nat, S # {}
  PROVE  \E i \in S : \A j \in S : i <= j
<1> DEFINE T == {0..i : i \in S}
<1>1. IsWellFoundedOn(StrictSubsetOrdering(Nat), FiniteSubsetsOf(Nat))
  BY FS_StrictSubsetOrderingWellFounded
<1>2. T \subseteq FiniteSubsetsOf(Nat) /\ T # {}
  <2>1. ASSUME NEW i \in S PROVE 0..i \in FiniteSubsetsOf(Nat)
    BY FS_Interval DEF FiniteSubsetsOf
  <2> QED BY <2>1
<1>3. PICK x \in T : \A y \in T : <<y, x>> \notin StrictSubsetOrdering(Nat)
  <2> HIDE DEF T
  <2> QED BY <1>1, <1>2, WFMin
<1>4. PICK i \in S : x = 0..i
  BY <1>3
<1>5. ASSUME NEW j \in S, j < i PROVE FALSE
  <2>1. 0..j \subseteq 0..i /\ i \in 0..i /\ i \notin 0..j
    BY <1>5
  <2>2. 0..j \in SUBSET Nat /\ 0..i \in SUBSET Nat /\ 0..j # 0..i
    BY <2>1
  <2>3. <<0..j, 0..i>> \in StrictSubsetOrdering(Nat)
    BY <2>1, <2>2 DEF StrictSubsetOrdering
  <2> QED BY <1>3, <1>4, <2>3
<1> QED BY <1>5

LEMMA Induction ==
  ASSUME NEW S \in SUBSET Nat, 0 \in S, \A n \in S : n + 1 \in S
  PROVE  S = Nat
<1> SUFFICES ASSUME Nat \ S # {} PROVE FALSE
  OBVIOUS
<1>1. PICK n \in Nat \ S : \A m \in Nat \ S : n <= m
  BY SmallestExists
<1>2. n - 1 \in Nat
  BY <1>1
<1>3. n - 1 \in S
  BY <1>1, <1>2
<1> QED BY <1>1, <1>3

-----------------------------------------------------------------------------
(***************************************************************************)
(* The tree of the links                                                   *)
(***************************************************************************)
LEMMA ChildIsLink ==
  ASSUME NEW k \in Links, NEW i \in DOMAIN Children[k]
  PROVE  Children[k][i] \in Links
<1>1. Children[k] \in Seq(Links)
  BY PluginAssumption DEF PluginAssumption
<1> QED BY <1>1, ElementOfSeq

LEMMA BelowItself == ASSUME NEW k \in Links PROVE k \in Below(k)
BY DEF Below

LEMMA BelowIsClosed == ASSUME NEW k PROVE IsClosed(Below(k))
<1> SUFFICES ASSUME NEW m \in Below(k), NEW i \in DOMAIN Children[m]
             PROVE  Children[m][i] \in Below(k)
  BY DEF IsClosed
<1>1. Children[m][i] \in Links
  BY ChildIsLink DEF Below
<1>2. ASSUME NEW ls \in SUBSET Links, k \in ls, IsClosed(ls) PROVE Children[m][i] \in ls
  BY <1>2 DEF Below, IsClosed
<1> QED BY <1>1, <1>2 DEF Below

LEMMA BelowIsLeast ==
  ASSUME NEW k, NEW ls \in SUBSET Links, k \in ls, IsClosed(ls)
  PROVE  Below(k) \subseteq ls
BY DEF Below

LEMMA BelowIsTransitive ==
  ASSUME NEW k, NEW m \in Below(k)
  PROVE  Below(m) \subseteq Below(k)
<1>1. Below(k) \in SUBSET Links
  BY DEF Below
<1> QED BY <1>1, BelowIsClosed, BelowIsLeast

\* What is below a link is the link itself or below one of its children.
LEMMA BelowChildren ==
  ASSUME NEW k \in Links, NEW l \in Below(k), l # k
  PROVE  \E i \in DOMAIN Children[k] : l \in Below(Children[k][i])
<1> DEFINE ls == {k} \cup {m \in Links : \E i \in DOMAIN Children[k] : m \in Below(Children[k][i])}
<1>1. ls \in SUBSET Links /\ k \in ls
  OBVIOUS
<1>2. ASSUME NEW m \in ls, NEW i \in DOMAIN Children[m] PROVE Children[m][i] \in ls
  <2>1. Children[m][i] \in Links
    BY <1>1, ChildIsLink
  <2>2. CASE m = k
    BY <2>1, <2>2, BelowItself
  <2>3. CASE m # k
    <3>1. PICK j \in DOMAIN Children[k] : m \in Below(Children[k][j])
      BY <2>3
    <3>2. Children[m][i] \in Below(Children[k][j])
      BY <3>1, BelowIsClosed DEF IsClosed
    <3> QED BY <2>1, <3>2
  <2> QED BY <2>2, <2>3
<1>3. Below(k) \subseteq ls
  <2> HIDE DEF ls
  <2> QED BY <1>1, <1>2, BelowIsLeast DEF IsClosed
<1> QED BY <1>3

\* And the link itself or a child of one of those.
LEMMA BelowParent ==
  ASSUME NEW k \in Links, NEW l \in Below(k), l # k
  PROVE  \E m \in Below(k) : \E i \in DOMAIN Children[m] : Children[m][i] = l
<1> DEFINE ls == {k} \cup {x \in Below(k) : \E m \in Below(k) : \E i \in DOMAIN Children[m] :
                                              Children[m][i] = x}
<1>1. ls \in SUBSET Links /\ k \in ls /\ ls \subseteq Below(k)
  BY BelowItself DEF Below
<1>2. ASSUME NEW m \in ls, NEW i \in DOMAIN Children[m] PROVE Children[m][i] \in ls
  <2>1. m \in Below(k)
    BY <1>1
  <2>2. Children[m][i] \in Below(k)
    BY <2>1, BelowIsClosed DEF IsClosed
  <2> QED BY <2>1, <2>2
<1>3. Below(k) \subseteq ls
  <2> HIDE DEF ls
  <2> QED BY <1>1, <1>2, BelowIsLeast DEF IsClosed
<1> QED BY <1>3

\* A link has one place.
LEMMA OneParent ==
  ASSUME NEW k \in Links, NEW i \in DOMAIN Children[k],
         NEW m \in Links, NEW j \in DOMAIN Children[m], Children[k][i] = Children[m][j]
  PROVE  k = m /\ i = j
BY TreeAssumption DEF TreeAssumption, IsTree

\* No link is below its own children.
LEMMA NoCycle ==
  ASSUME NEW k \in Links, NEW i \in DOMAIN Children[k]
  PROVE  k \notin Below(Children[k][i])
<1> DEFINE c  == Children[k][i]
           ls == Links \ Below(c)
<1> SUFFICES ASSUME k \in Below(c) PROVE FALSE
  OBVIOUS
<1>1. c \in Links /\ c # Root
  BY ChildIsLink, TreeAssumption DEF TreeAssumption, IsTree
<1>2. Root \in ls
  <2> SUFFICES ASSUME Root \in Below(c) PROVE FALSE
    BY PluginAssumption DEF PluginAssumption
  <2> HIDE DEF c
  <2>1. PICK m \in Below(c) : \E j \in DOMAIN Children[m] : Children[m][j] = Root
    BY <1>1, BelowParent
  <2>2. m \in Links
    BY DEF Below
  <2> QED BY <2>1, <2>2, TreeAssumption DEF TreeAssumption, IsTree
<1>3. ASSUME NEW m \in ls, NEW j \in DOMAIN Children[m] PROVE Children[m][j] \in ls
  <2>1. m \in Links /\ Children[m][j] \in Links
    BY ChildIsLink
  <2> SUFFICES ASSUME Children[m][j] \in Below(c) PROVE FALSE
    BY <2>1
  <2>2. CASE Children[m][j] = c
    <3>1. m = k
      BY <2>1, <2>2, OneParent
    <3> QED BY <3>1
  <2>3. CASE Children[m][j] # c
    <3>1. PICK n \in Below(c) : \E h \in DOMAIN Children[n] : Children[n][h] = Children[m][j]
      <4> HIDE DEF c
      <4> QED BY <1>1, <2>3, BelowParent
    <3>2. n \in Links
      BY DEF Below
    <3>3. n = m
      BY <2>1, <3>1, <3>2, OneParent
    <3> QED BY <3>3
  <2> QED BY <2>2, <2>3
<1>4. Below(Root) \subseteq ls
  <2> HIDE DEF ls
  <2>1. ls \in SUBSET Links
    BY DEF ls
  <2> QED BY <1>2, <1>3, <2>1, BelowIsLeast DEF IsClosed
<1> QED BY <1>1, <1>4, BelowItself, TreeAssumption DEF TreeAssumption, IsTree

Depth(l) == Cardinality(PathTo[l])

LEMMA PathIsFinite == ASSUME NEW l \in Links PROVE IsFiniteSet(PathTo[l]) /\ Depth(l) \in Nat
<1>1. PathTo[l] \subseteq Links /\ IsFiniteSet(Links)
  BY PluginAssumption DEF PathTo, PluginAssumption
<1>2. IsFiniteSet(PathTo[l])
  BY <1>1, FS_Subset
<1> QED BY <1>2, FS_CardinalityType DEF Depth

\* The path to a child is that to its parent and the child.
LEMMA PathToChild ==
  ASSUME NEW k \in Links, NEW i \in DOMAIN Children[k]
  PROVE  /\ PathTo[Children[k][i]] = PathTo[k] \cup {Children[k][i]}
         /\ Children[k][i] \notin PathTo[k]
<1> DEFINE c == Children[k][i]
<1>1. c \in Links
  BY ChildIsLink
<1>2. ASSUME NEW m \in PathTo[c], m # c PROVE m \in PathTo[k]
  <2>1. m \in Links /\ c \in Below(m)
    BY <1>1 DEF PathTo
  <2>2. PICK n \in Below(m) : \E h \in DOMAIN Children[n] : Children[n][h] = c
    <3> HIDE DEF c
    <3> QED BY <1>2, <2>1, BelowParent
  <2>3. n \in Links
    BY DEF Below
  <2>4. n = k
    BY <2>2, <2>3, OneParent
  <2> QED BY <2>1, <2>4 DEF PathTo
<1>3. ASSUME NEW m \in PathTo[k] PROVE m \in PathTo[c]
  <2>1. m \in Links /\ k \in Below(m)
    BY DEF PathTo
  <2>2. c \in Below(m)
    BY <2>1, BelowIsClosed DEF IsClosed
  <2> QED BY <1>1, <2>1, <2>2 DEF PathTo
<1>4. c \in PathTo[c]
  BY <1>1, BelowItself DEF PathTo
<1>5. c \notin PathTo[k]
  BY NoCycle DEF PathTo
<1> QED BY <1>2, <1>3, <1>4, <1>5

LEMMA ChildIsDeeper ==
  ASSUME NEW k \in Links, NEW i \in DOMAIN Children[k]
  PROVE  Depth(Children[k][i]) = Depth(k) + 1
BY PathToChild, PathIsFinite, FS_AddElement DEF Depth

-----------------------------------------------------------------------------
(***************************************************************************)
(* The breadth-first search                                                *)
(***************************************************************************)
\* The links the search will still meet.
Pending(queue) == {l \in Links : \E i \in DOMAIN queue : l \in Below(queue[i])}

\* No link of the queue is below another one.
QueueApart(queue) ==
  \A i, j \in DOMAIN queue : i # j => queue[j] \notin Below(queue[i])

\* The queue is in the order of the depth, which spans one level at most.
QueueSorted(queue) ==
  \A i, j \in DOMAIN queue :
    i <= j => Depth(queue[i]) <= Depth(queue[j]) /\ Depth(queue[j]) <= Depth(queue[1]) + 1

\* Link l is to the left of link d: below an earlier child of a link than d is.
LeftOf(l, d) ==
  \E k \in Links : \E i, j \in DOMAIN Children[k] :
    i < j /\ l \in Below(Children[k][i]) /\ d \in Below(Children[k][j])

\* Of links of one depth, the search meets the left ones first.
QueueInOrder(queue) ==
  \A i, j \in DOMAIN queue :
    i < j /\ Depth(queue[i]) = Depth(queue[j]) => LeftOf(queue[i], queue[j])

MetBefore(queue) ==
  \A l \in Links \ Pending(queue) : \A i \in DOMAIN queue :
    Depth(l) = Depth(queue[i]) => LeftOf(l, queue[i])

\* The last one of the deepest links.
IsLast(l) ==
  \A k \in Links \ {l} :
    \/ Cardinality(PathTo[k]) < Cardinality(PathTo[l])
    \/ Cardinality(PathTo[k]) = Cardinality(PathTo[l]) /\ LeftOf(k, l)

\* What the search has met is no deeper than what it meets next; at its end it
\* has the last of the deepest links.
MetFirst(search) ==
  IF search.queue # <<>>
  THEN \A l \in Links \ Pending(search.queue) : Depth(l) <= Depth(search.queue[1])
  ELSE search.leaf \in Links /\ IsLast(search.leaf)

SearchInv(search) ==
  /\ search.queue \in Seq(Links) /\ search.leaf \in Links \cup {NoLink}
  /\ QueueApart(search.queue) /\ QueueSorted(search.queue)
  /\ QueueInOrder(search.queue) /\ MetBefore(search.queue)
  /\ MetFirst(search)

SearchStart == [queue |-> <<Root>>, leaf |-> NoLink]

LEMMA SearchStarts == SearchInv(SearchStart) /\ Pending(SearchStart.queue) = Links
<1> DEFINE queue == SearchStart.queue
<1>1. queue \in Seq(Links) /\ SearchStart.leaf \in Links \cup {NoLink}
      /\ DOMAIN queue = {1} /\ queue[1] = Root /\ queue # <<>>
  BY PluginAssumption DEF PluginAssumption, SearchStart
<1>2. Root \in Links /\ Below(Root) = Links
  BY PluginAssumption, TreeAssumption DEF PluginAssumption, TreeAssumption, IsTree
<1> HIDE DEF queue
<1>3. Pending(queue) = Links
  BY <1>1, <1>2 DEF Pending
<1>4. QueueApart(queue)
  BY <1>1 DEF QueueApart
<1>5. QueueSorted(queue)
  <2>1. Depth(Root) \in Nat
    BY <1>2, PathIsFinite
  <2> QED BY <1>1, <2>1 DEF QueueSorted
<1>6. MetFirst(SearchStart)
  BY <1>1, <1>3 DEF MetFirst, queue
<1>7. QueueInOrder(queue)
  BY <1>1 DEF QueueInOrder
<1>8. MetBefore(queue)
  BY <1>3 DEF MetBefore
<1> QED BY <1>1, <1>3, <1>4, <1>5, <1>6, <1>7, <1>8 DEF SearchInv, queue

\* The links of the next queue: those after the first, and its children.
LEMMA NextQueue ==
  ASSUME NEW queue \in Seq(Links), queue # <<>>
  PROVE  LET children == Children[queue[1]]
             next     == Tail(queue) \o children
             n        == Len(queue) - 1
         IN /\ queue[1] \in Links /\ Head(queue) = queue[1]
            /\ children \in Seq(Links) /\ next \in Seq(Links)
            /\ n \in Nat /\ Len(children) \in Nat
            /\ DOMAIN queue = 1..(n + 1) /\ DOMAIN children = 1..Len(children)
            /\ DOMAIN next = 1..(n + Len(children))
            /\ \A i \in 1..n : next[i] = queue[i + 1]
            /\ \A i \in 1..Len(children) : next[n + i] = children[i]
<1> DEFINE children == Children[queue[1]]
           n        == Len(queue) - 1
<1>1. Len(queue) \in Nat \ {0} /\ DOMAIN queue = 1..Len(queue) /\ queue[1] \in Links
  BY ElementOfSeq
<1>2. children \in Seq(Links)
  BY <1>1, PluginAssumption DEF PluginAssumption
<1>3. /\ Tail(queue) \in Seq(Links) /\ Len(Tail(queue)) = n
      /\ \A i \in 1..n : Tail(queue)[i] = queue[i + 1]
  BY <1>1
<1>4. Len(children) \in Nat /\ DOMAIN children = 1..Len(children)
  BY <1>2
<1> HIDE DEF children
<1>5. /\ Tail(queue) \o children \in Seq(Links)
      /\ Len(Tail(queue) \o children) = n + Len(children)
      /\ \A i \in 1..(n + Len(children)) :
           (Tail(queue) \o children)[i] = IF i <= n THEN Tail(queue)[i] ELSE children[i - n]
  BY <1>2, <1>3
<1>6. DOMAIN (Tail(queue) \o children) = 1..(n + Len(children))
  BY <1>5
<1>7. \A i \in 1..n : (Tail(queue) \o children)[i] = queue[i + 1]
  BY <1>1, <1>3, <1>4, <1>5
<1>8. \A i \in 1..Len(children) : (Tail(queue) \o children)[n + i] = children[i]
  BY <1>1, <1>4, <1>5
<1>9. n \in Nat /\ n + 1 = Len(queue) /\ Head(queue) = queue[1]
  BY <1>1
<1> QED BY <1>1, <1>2, <1>4, <1>5, <1>6, <1>7, <1>8, <1>9 DEF children

\* Each is one that the queue had, or a child of the first of those.
LEMMA NextFrom ==
  ASSUME NEW queue \in Seq(Links), queue # <<>>,
         NEW i \in DOMAIN (Tail(queue) \o Children[queue[1]])
  PROVE  LET children == Children[queue[1]]
             next     == Tail(queue) \o children
             n        == Len(queue) - 1
         IN \/ i + 1 \in 2..(n + 1) /\ i <= n /\ next[i] = queue[i + 1]
            \/ i - n \in 1..Len(children) /\ i > n /\ next[i] = children[i - n]
<1> DEFINE children == Children[queue[1]]
           next     == Tail(queue) \o children
           n        == Len(queue) - 1
           m        == Len(children)
<1>1. /\ n \in Nat /\ m \in Nat /\ DOMAIN next = 1..(n + m)
      /\ \A j \in 1..n : next[j] = queue[j + 1]
      /\ \A j \in 1..m : next[n + j] = children[j]
  BY NextQueue
<1>2. i \in 1..(n + m)
  BY <1>1
<1> HIDE DEF next, children, n, m
<1>3. CASE i <= n
  BY <1>1, <1>2, <1>3
<1>4. CASE i > n
  <2>1. i - n \in 1..m /\ n + (i - n) = i
    BY <1>1, <1>2, <1>4
  <2>2. next[n + (i - n)] = children[i - n]
    BY <1>1, <2>1
  <2> QED BY <1>4, <2>1, <2>2
<1>5. \/ i + 1 \in 2..(n + 1) /\ i <= n /\ next[i] = queue[i + 1]
      \/ i - n \in 1..m /\ i > n /\ next[i] = children[i - n]
  BY <1>1, <1>2, <1>3, <1>4
<1> QED BY <1>5 DEF next, children, n, m

\* A link that the next queue has is one that the queue had, or a child of the
\* first of those.
LEMMA Visited ==
  ASSUME NEW queue \in Seq(Links), queue # <<>>, QueueApart(queue), QueueSorted(queue)
  PROVE  LET next == Tail(queue) \o Children[queue[1]]
         IN /\ Pending(next) = Pending(queue) \ {queue[1]}
            /\ queue[1] \in Pending(queue)
            /\ QueueApart(next) /\ QueueSorted(next)
            /\ next # <<>> => Depth(queue[1]) <= Depth(next[1])
<1> DEFINE first    == queue[1]
           children == Children[first]
           next     == Tail(queue) \o children
           n        == Len(queue) - 1
           m        == Len(children)
<1>1. /\ first \in Links /\ children \in Seq(Links) /\ next \in Seq(Links)
      /\ n \in Nat /\ m \in Nat
      /\ DOMAIN queue = 1..(n + 1) /\ DOMAIN children = 1..m /\ DOMAIN next = 1..(n + m)
      /\ \A i \in 1..n : next[i] = queue[i + 1]
      /\ \A i \in 1..m : next[n + i] = children[i]
  BY NextQueue
<1>2. \A i \in 1..m : /\ children[i] \in Links
                      /\ children[i] \in Below(first) /\ first \notin Below(children[i])
                      /\ PathTo[children[i]] = PathTo[first] \cup {children[i]}
                      /\ children[i] \notin PathTo[first]
                      /\ Depth(children[i]) = Depth(first) + 1
  BY <1>1, ChildIsLink, BelowItself, BelowIsClosed, NoCycle, PathToChild, ChildIsDeeper DEF IsClosed
<1>3. \A i, j \in 1..m : i # j => children[i] # children[j]
  BY <1>1, OneParent
<1>4. \A i \in 1..(n + 1) : queue[i] \in Links
  BY <1>1, ElementOfSeq
<1> HIDE DEF next, children, first, n, m
\* where a position of the next queue comes from
<1>5. ASSUME NEW i \in DOMAIN next
      PROVE  \/ i + 1 \in 2..(n + 1) /\ i <= n /\ next[i] = queue[i + 1]
             \/ i - n \in 1..m /\ i > n /\ next[i] = children[i - n]
  BY NextFrom DEF next, children, first, n, m
<1>6. 1 \in DOMAIN queue /\ queue[1] = first
  BY <1>1 DEF first
<1>7. Pending(next) \subseteq Pending(queue) \ {first}
  <2> SUFFICES ASSUME NEW l \in Links, NEW i \in DOMAIN next, l \in Below(next[i])
               PROVE  l \in Pending(queue) /\ l # first
    BY DEF Pending
  <2>1. CASE i + 1 \in 2..(n + 1) /\ i <= n /\ next[i] = queue[i + 1]
    <3>1. i + 1 \in DOMAIN queue /\ i + 1 # 1
      BY <1>1, <2>1
    <3>2. first \notin Below(queue[i + 1])
      BY <1>6, <3>1 DEF QueueApart
    <3> QED BY <2>1, <3>1, <3>2 DEF Pending
  <2>2. CASE i - n \in 1..m /\ i > n /\ next[i] = children[i - n]
    <3>1. l \in Below(first) /\ first \notin Below(next[i])
      BY <1>2, <2>2, BelowIsTransitive
    <3> QED BY <1>6, <3>1 DEF Pending
  <2> QED BY <1>5, <2>1, <2>2
<1>8. Pending(queue) \ {first} \subseteq Pending(next)
  <2> SUFFICES ASSUME NEW l \in Links, l # first, NEW i \in DOMAIN queue, l \in Below(queue[i])
               PROVE  \E j \in DOMAIN next : l \in Below(next[j])
    BY DEF Pending
  <2>1. CASE i = 1
    <3>1. PICK j \in 1..m : l \in Below(children[j])
      BY <1>1, <1>6, <2>1, BelowChildren DEF children
    <3>2. n + j \in DOMAIN next /\ next[n + j] = children[j]
      <4>1. n + j \in 1..(n + m)
        BY <1>1
      <4> QED BY <1>1, <4>1
    <3> QED BY <3>1, <3>2
  <2>2. CASE i # 1
    <3>1. i - 1 \in 1..n /\ (i - 1) + 1 = i
      BY <1>1, <2>2
    <3>2. i - 1 \in DOMAIN next
      BY <1>1, <3>1
    <3>3. next[i - 1] = queue[i]
      BY <1>1, <3>1
    <3> QED BY <3>2, <3>3
  <2> QED BY <2>1, <2>2
<1>9. first \in Pending(queue)
  BY <1>1, <1>6, BelowItself DEF Pending
\* a child of the first link, and another link of the queue
<1>10. ASSUME NEW i \in 2..(n + 1), NEW j \in 1..m
       PROVE  children[j] \notin Below(queue[i]) /\ queue[i] \notin Below(children[j])
  <2>0. i \in DOMAIN queue /\ i # 1 /\ queue[i] \in Links
    BY <1>1, <1>4
  <2>1. first \notin Below(queue[i]) /\ queue[i] \notin Below(first)
    BY <1>6, <2>0 DEF QueueApart
  <2>2. queue[i] # children[j]
    BY <1>2, <2>1
  <2>3. ASSUME children[j] \in Below(queue[i]) PROVE FALSE
    <3>1. queue[i] \in PathTo[children[j]]
      BY <1>2, <2>0, <2>3 DEF PathTo
    <3>2. queue[i] \in PathTo[first]
      BY <1>2, <2>2, <3>1
    <3> QED BY <1>1, <2>1, <3>2 DEF PathTo
  <2>4. ASSUME queue[i] \in Below(children[j]) PROVE FALSE
    BY <1>2, <2>1, <2>4, BelowIsTransitive
  <2> QED BY <2>3, <2>4
<1>11. QueueApart(next)
  <2> SUFFICES ASSUME NEW i \in DOMAIN next, NEW j \in DOMAIN next, i # j
               PROVE  next[j] \notin Below(next[i])
    BY DEF QueueApart
  <2>0. i \in Int /\ j \in Int /\ n \in Int
    BY <1>1
  <2>1. CASE i <= n /\ j <= n
    <3>1. /\ i + 1 \in DOMAIN queue /\ j + 1 \in DOMAIN queue /\ i + 1 # j + 1
          /\ next[i] = queue[i + 1] /\ next[j] = queue[j + 1]
      BY <1>1, <1>5, <2>0, <2>1
    <3> QED BY <3>1 DEF QueueApart
  <2>2. CASE i <= n /\ j > n
    <3>1. /\ i + 1 \in 2..(n + 1) /\ j - n \in 1..m
          /\ next[i] = queue[i + 1] /\ next[j] = children[j - n]
      BY <1>5, <2>0, <2>2
    <3> QED BY <1>10, <3>1
  <2>3. CASE i > n /\ j <= n
    <3>1. /\ j + 1 \in 2..(n + 1) /\ i - n \in 1..m
          /\ next[j] = queue[j + 1] /\ next[i] = children[i - n]
      BY <1>5, <2>0, <2>3
    <3> QED BY <1>10, <3>1
  <2>4. CASE i > n /\ j > n
    <3>1. /\ j - n \in 1..m /\ i - n \in 1..m /\ i - n # j - n
          /\ next[j] = children[j - n] /\ next[i] = children[i - n]
      BY <1>5, <2>0, <2>4
    <3> DEFINE c == children[i - n]
               d == children[j - n]
    <3>2. c # d /\ c \in Links /\ d \in Links
      BY <1>2, <1>3, <3>1
    <3>3. ASSUME d \in Below(c) PROVE FALSE
      <4>1. c \in PathTo[d]
        BY <3>2, <3>3 DEF PathTo
      <4>2. c \in PathTo[first]
        BY <1>2, <3>1, <3>2, <4>1
      <4> QED BY <1>2, <3>1, <4>2
    <3> QED BY <3>1, <3>3
  <2> QED BY <2>0, <2>1, <2>2, <2>3, <2>4
\* the depths
<1>12. /\ Depth(first) \in Nat
       /\ \A i \in 1..(n + 1) : /\ Depth(queue[i]) \in Nat
                                /\ Depth(first) <= Depth(queue[i])
                                /\ Depth(queue[i]) <= Depth(first) + 1
  <2>1. ASSUME NEW i \in 1..(n + 1)
        PROVE  /\ Depth(first) <= Depth(queue[i])
               /\ Depth(queue[i]) <= Depth(first) + 1
    <3>1. i \in DOMAIN queue /\ 1 <= i
      BY <1>1
    <3> QED BY <1>6, <3>1 DEF QueueSorted
  <2> QED BY <1>1, <1>4, <2>1, PathIsFinite
<1>13. ASSUME NEW i \in DOMAIN next
       PROVE  /\ Depth(next[i]) \in Nat
              /\ Depth(first) <= Depth(next[i]) /\ Depth(next[i]) <= Depth(first) + 1
  <2>1. CASE i + 1 \in 2..(n + 1) /\ i <= n /\ next[i] = queue[i + 1]
    <3>1. i + 1 \in 1..(n + 1)
      BY <1>1, <2>1
    <3> QED BY <1>12, <2>1, <3>1
  <2>2. CASE i - n \in 1..m /\ i > n /\ next[i] = children[i - n]
    BY <1>2, <1>12, <2>2
  <2> QED BY <1>5, <2>1, <2>2
<1>14. next # <<>> => 1 \in DOMAIN next
  BY <1>1
<1>15. ASSUME NEW i \in DOMAIN next, NEW j \in DOMAIN next, i <= j
       PROVE  Depth(next[i]) <= Depth(next[j])
  <2>0. i \in Int /\ j \in Int /\ n \in Int
    BY <1>1
  <2>1. CASE j <= n
    <3>1. /\ i + 1 \in DOMAIN queue /\ j + 1 \in DOMAIN queue /\ i + 1 <= j + 1
          /\ next[i] = queue[i + 1] /\ next[j] = queue[j + 1]
      BY <1>1, <1>5, <1>15, <2>0, <2>1
    <3> QED BY <3>1 DEF QueueSorted
  <2>2. CASE j > n
    <3>1. next[j] = children[j - n] /\ j - n \in 1..m
      BY <1>5, <2>0, <2>2
    <3>2. Depth(next[j]) = Depth(first) + 1
      BY <1>2, <3>1
    <3> QED BY <1>13, <3>2
  <2> QED BY <2>0, <2>1, <2>2
<1>16. QueueSorted(next)
  <2> SUFFICES ASSUME NEW i \in DOMAIN next, NEW j \in DOMAIN next, i <= j
               PROVE  Depth(next[i]) <= Depth(next[j]) /\ Depth(next[j]) <= Depth(next[1]) + 1
    BY DEF QueueSorted
  <2>1. 1 \in DOMAIN next
    BY <1>1
  <2>2. /\ Depth(next[1]) \in Nat /\ Depth(next[j]) \in Nat /\ Depth(first) \in Nat
        /\ Depth(first) <= Depth(next[1]) /\ Depth(next[j]) <= Depth(first) + 1
    BY <1>12, <1>13, <2>1
  <2> QED BY <1>15, <2>2
<1>17. next # <<>> => Depth(first) <= Depth(next[1])
  BY <1>13, <1>14
<1> QED BY <1>7, <1>8, <1>9, <1>11, <1>16, <1>17 DEF next, children, first

LEMMA LeftOfBelow ==
  ASSUME NEW l, NEW d, LeftOf(l, d), NEW x \in Below(l), NEW y \in Below(d)
  PROVE  LeftOf(x, y)
<1>1. PICK k \in Links : \E i, j \in DOMAIN Children[k] :
        i < j /\ l \in Below(Children[k][i]) /\ d \in Below(Children[k][j])
  BY DEF LeftOf
<1>2. PICK i \in DOMAIN Children[k], j \in DOMAIN Children[k] :
        i < j /\ l \in Below(Children[k][i]) /\ d \in Below(Children[k][j])
  BY <1>1
<1>3. x \in Below(Children[k][i]) /\ y \in Below(Children[k][j])
  BY <1>2, BelowIsTransitive
<1> QED BY <1>2, <1>3 DEF LeftOf

\* The search has met the parent of a link that waits behind another one.
LEMMA ParentIsMet ==
  ASSUME NEW queue \in Seq(Links), QueueApart(queue), NEW i \in DOMAIN queue, i # 1
  PROVE  \E p \in Links \ Pending(queue) : \E h \in DOMAIN Children[p] :
           Children[p][h] = queue[i]
<1>1. 1 \in DOMAIN queue /\ queue[1] \in Links /\ queue[i] \in Links
  <2>1. DOMAIN queue = 1..Len(queue) /\ Len(queue) \in Nat
    OBVIOUS
  <2>2. 1 \in DOMAIN queue
    BY <2>1
  <2> QED BY <2>2, ElementOfSeq
<1>2. queue[i] # Root
  <2>1. queue[1] \notin Below(queue[i])
    BY <1>1 DEF QueueApart
  <2> QED BY <1>1, <2>1, TreeAssumption DEF TreeAssumption, IsTree
<1>3. Root \in Links /\ queue[i] \in Below(Root)
  BY <1>1, TreeAssumption, PluginAssumption DEF TreeAssumption, IsTree, PluginAssumption
<1>4. PICK p \in Below(Root) : \E h \in DOMAIN Children[p] : Children[p][h] = queue[i]
  BY <1>2, <1>3, BelowParent
<1>5. p \in Links
  BY DEF Below
<1>6. PICK h \in DOMAIN Children[p] : Children[p][h] = queue[i]
  BY <1>4
<1>7. ASSUME p \in Pending(queue) PROVE FALSE
  <2>1. PICK k \in DOMAIN queue : p \in Below(queue[k])
    BY <1>7 DEF Pending
  <2>2. queue[i] \in Below(queue[k])
    BY <1>6, <2>1, BelowIsClosed DEF IsClosed
  <2>3. k = i
    BY <2>2 DEF QueueApart
  <2> QED BY <1>5, <1>6, <2>1, <2>3, NoCycle
<1> QED BY <1>5, <1>6, <1>7

\* The children that join the queue are to the right of what the search has met
\* and of the children that wait.
LEMMA VisitedInOrder ==
  ASSUME NEW queue \in Seq(Links), queue # <<>>,
         QueueApart(queue), QueueSorted(queue), QueueInOrder(queue), MetBefore(queue),
         \A l \in Links \ Pending(queue) : Depth(l) <= Depth(queue[1])
  PROVE  LET next == Tail(queue) \o Children[queue[1]]
         IN QueueInOrder(next) /\ MetBefore(next)
<1> DEFINE first    == queue[1]
           children == Children[first]
           next     == Tail(queue) \o children
           n        == Len(queue) - 1
           m        == Len(children)
<1>1. /\ first \in Links /\ n \in Nat /\ m \in Nat
      /\ DOMAIN queue = 1..(n + 1) /\ DOMAIN children = 1..m /\ DOMAIN next = 1..(n + m)
  BY NextQueue
<1>2. \A i \in 1..m : children[i] \in Links /\ children[i] \in Below(first)
                      /\ Depth(children[i]) = Depth(first) + 1
  BY <1>1, ChildIsLink, BelowItself, BelowIsClosed, ChildIsDeeper DEF IsClosed
<1>3. \A i, j \in 1..m : i < j => LeftOf(children[i], children[j])
  BY <1>1, <1>2, BelowItself DEF LeftOf
<1>4. Pending(next) = Pending(queue) \ {first}
  BY Visited
<1>5. Depth(first) \in Nat /\ \A i \in 1..(n + 1) : queue[i] \in Links /\ Depth(queue[i]) \in Nat
  BY <1>1, ElementOfSeq, PathIsFinite
<1>6. \A i \in 1..(n + 1) : Depth(first) <= Depth(queue[i])
  <2>1. \A i \in 1..(n + 1) : 1 \in DOMAIN queue /\ i \in DOMAIN queue /\ 1 <= i
    BY <1>1
  <2> QED BY <2>1 DEF QueueSorted
<1> HIDE DEF next, children, first, n, m
<1>7. ASSUME NEW i \in DOMAIN next
      PROVE  \/ i + 1 \in 2..(n + 1) /\ i <= n /\ next[i] = queue[i + 1]
             \/ i - n \in 1..m /\ i > n /\ next[i] = children[i - n]
  BY NextFrom DEF next, children, first, n, m
\* what is in the queue and as deep as a child is to the left of it
<1>8. ASSUME NEW i \in 2..(n + 1), NEW j \in 1..m, Depth(queue[i]) = Depth(children[j])
      PROVE  LeftOf(queue[i], children[j])
  <2>1. i \in DOMAIN queue /\ i # 1 /\ 1 \in DOMAIN queue
    BY <1>1
  <2>2. PICK p \in Links \ Pending(queue) : \E h \in DOMAIN Children[p] :
          Children[p][h] = queue[i]
    BY <2>1, ParentIsMet
  <2>3. PICK h \in DOMAIN Children[p] : Children[p][h] = queue[i]
    BY <2>2
  <2>4. Depth(queue[i]) = Depth(p) + 1 /\ Depth(p) \in Nat
    BY <2>3, ChildIsDeeper, PathIsFinite
  <2>5. Depth(p) = Depth(first)
    <3>1. Depth(children[j]) = Depth(first) + 1
      BY <1>2
    <3>2. Depth(p) + 1 = Depth(first) + 1
      BY <1>8, <2>4, <3>1
    <3> QED BY <1>5, <2>4, <3>2
  <2>6. LeftOf(p, first)
    BY <2>1, <2>5 DEF MetBefore, first
  <2>7. queue[i] \in Below(p)
    BY <2>3, BelowItself, BelowIsClosed DEF IsClosed
  <2> QED BY <1>2, <2>6, <2>7, LeftOfBelow
<1>9. QueueInOrder(next)
  <2> SUFFICES ASSUME NEW i \in DOMAIN next, NEW j \in DOMAIN next, i < j,
                      Depth(next[i]) = Depth(next[j])
               PROVE  LeftOf(next[i], next[j])
    BY DEF QueueInOrder
  <2>0. i \in Int /\ j \in Int /\ n \in Int
    BY <1>1
  <2>1. CASE i <= n /\ j <= n
    <3>1. /\ i + 1 \in DOMAIN queue /\ j + 1 \in DOMAIN queue /\ i + 1 < j + 1
          /\ next[i] = queue[i + 1] /\ next[j] = queue[j + 1]
      BY <1>1, <1>7, <2>0, <2>1
    <3> QED BY <3>1 DEF QueueInOrder
  <2>2. CASE i <= n /\ j > n
    <3>1. /\ i + 1 \in 2..(n + 1) /\ j - n \in 1..m
          /\ next[i] = queue[i + 1] /\ next[j] = children[j - n]
      BY <1>7, <2>0, <2>2
    <3> QED BY <1>8, <3>1
  <2>3. CASE i > n /\ j > n
    <3>1. /\ j - n \in 1..m /\ i - n \in 1..m /\ i - n < j - n
          /\ next[j] = children[j - n] /\ next[i] = children[i - n]
      BY <1>7, <2>0, <2>3
    <3> QED BY <1>3, <3>1
  <2> QED BY <2>0, <2>1, <2>2, <2>3
<1>10. MetBefore(next)
  <2> SUFFICES ASSUME NEW l \in Links \ Pending(next), NEW i \in DOMAIN next,
                      Depth(l) = Depth(next[i])
               PROVE  LeftOf(l, next[i])
    BY DEF MetBefore
  <2>1. l = first \/ l \notin Pending(queue)
    BY <1>4
  <2>2. Depth(l) <= Depth(first) /\ Depth(l) \in Nat
    BY <1>5, <2>1, PathIsFinite DEF first
  <2>3. i + 1 \in 2..(n + 1) /\ i <= n /\ next[i] = queue[i + 1]
    <3>1. CASE i - n \in 1..m /\ i > n /\ next[i] = children[i - n]
      BY <1>2, <1>5, <2>2, <3>1
    <3> QED BY <1>7, <3>1
  <2>4. i + 1 \in DOMAIN queue /\ 1 \in DOMAIN queue /\ i + 1 > 1
    BY <1>1, <2>3
  <2>5. CASE l = first
    BY <2>3, <2>4, <2>5 DEF QueueInOrder, first
  <2>6. CASE l \notin Pending(queue)
    BY <2>3, <2>4, <2>6 DEF MetBefore
  <2> QED BY <2>1, <2>5, <2>6
<1> QED BY <1>9, <1>10 DEF next, children, first

LEMMA SearchStep ==
  ASSUME NEW search, SearchInv(search)
  PROVE  /\ SearchInv(Visit(search))
         /\ search.queue # <<>> => \E l \in Pending(search.queue) :
              Pending(Visit(search).queue) = Pending(search.queue) \ {l}
<1>1. CASE search.queue = <<>>
  BY <1>1 DEF Visit
<1>2. CASE search.queue # <<>>
  <2> DEFINE queue    == search.queue
             first    == queue[1]
             children == Children[first]
             next     == Tail(queue) \o children
             leaf     == IF children = <<>> THEN first ELSE search.leaf
  <2>1. /\ queue \in Seq(Links) /\ queue # <<>> /\ QueueApart(queue) /\ QueueSorted(queue)
        /\ QueueInOrder(queue) /\ MetBefore(queue)
        /\ search.leaf \in Links \cup {NoLink}
        /\ \A l \in Links \ Pending(queue) : Depth(l) <= Depth(first)
    BY <1>2 DEF SearchInv, MetFirst
  <2> HIDE DEF queue
  <2>2. /\ first \in Links /\ Head(queue) = first /\ next \in Seq(Links)
        /\ children \in Seq(Links) /\ DOMAIN next = 1..((Len(queue) - 1) + Len(children))
        /\ Len(queue) - 1 \in Nat /\ Len(children) \in Nat
    BY <2>1, NextQueue
  <2>3. /\ Pending(next) = Pending(queue) \ {first} /\ first \in Pending(queue)
        /\ QueueApart(next) /\ QueueSorted(next)
        /\ next # <<>> => Depth(first) <= Depth(next[1])
        /\ QueueInOrder(next) /\ MetBefore(next)
    BY <2>1, Visited, VisitedInOrder
  <2> HIDE DEF children, next
  <2>4. Visit(search) = [queue |-> next, leaf |-> leaf]
    BY <1>2, <2>2 DEF Visit, queue, next, children
  <2> HIDE DEF first
  <2>5. ASSUME NEW l \in Links \ Pending(next) PROVE Depth(l) <= Depth(first)
    <3>1. l = first \/ l \notin Pending(queue)
      BY <2>3
    <3>2. Depth(first) \in Nat
      BY <2>2, PathIsFinite
    <3> QED BY <2>1, <3>1, <3>2
  <2>6. CASE next # <<>>
    <3>1. 1 \in DOMAIN next
      BY <2>2, <2>6
    <3>2. Depth(first) \in Nat /\ Depth(next[1]) \in Nat
      BY <2>2, <3>1, ElementOfSeq, PathIsFinite
    <3>3. \A l \in Links \ Pending(next) : Depth(l) <= Depth(next[1])
      BY <2>3, <2>5, <2>6, <3>2, PathIsFinite
    <3>4. MetFirst(Visit(search))
      BY <2>4, <2>6, <3>3 DEF MetFirst
    <3> QED BY <2>1, <2>2, <2>3, <2>4, <3>4 DEF SearchInv, queue
  <2>7. CASE next = <<>>
    <3>1. children = <<>> /\ Pending(next) = {}
      BY <2>2, <2>7 DEF Pending
    <3>2. IsLast(first)
      <4> SUFFICES ASSUME NEW l \in Links \ {first}
                   PROVE  \/ Depth(l) < Depth(first)
                          \/ Depth(l) = Depth(first) /\ LeftOf(l, first)
        BY DEF IsLast, Depth
      <4>1. l \notin Pending(queue) /\ 1 \in DOMAIN queue
        BY <2>1, <2>3, <3>1
      <4>2. Depth(l) = Depth(first) => LeftOf(l, first)
        BY <2>1, <4>1 DEF MetBefore, first
      <4>3. Depth(l) \in Nat /\ Depth(first) \in Nat /\ Depth(l) <= Depth(first)
        BY <2>2, <2>5, <3>1, PathIsFinite
      <4>4. Depth(l) < Depth(first) \/ Depth(l) = Depth(first)
        BY <4>3
      <4> QED BY <4>2, <4>4
    <3>3. MetFirst(Visit(search))
      BY <2>2, <2>4, <2>7, <3>1, <3>2 DEF MetFirst
    <3> QED BY <2>1, <2>2, <2>3, <2>4, <3>3 DEF SearchInv, queue
  <2> QED BY <2>6, <2>7
<1> QED BY <1>1, <1>2

AreSearches(f, last) ==
  f = [n \in 0..last |-> IF n = 0 THEN SearchStart ELSE Visit(f[n - 1])]

LEMMA SearchesExist == ASSUME NEW last \in Nat PROVE \E f : AreSearches(f, last)
<1> DEFINE S == {n \in Nat : \E f : AreSearches(f, n)}
<1>1. 0 \in S
  <2>1. AreSearches([i \in 0..0 |-> SearchStart], 0)
    BY DEF AreSearches
  <2> QED BY <2>1
<1>2. ASSUME NEW n \in S PROVE n + 1 \in S
  <2>1. PICK f : AreSearches(f, n)
    OBVIOUS
  <2> DEFINE Value(i) == IF i = 0 THEN SearchStart ELSE Visit(f[i - 1])
             g == [i \in 0..(n + 1) |-> Value(i)]
  <2>2. \A i \in 0..n : f[i] = Value(i)
    BY <2>1 DEF AreSearches
  <2>3. \A i \in 0..n : g[i] = f[i]
    <3> HIDE DEF Value
    <3> QED BY <2>2
  <2>4. \A i \in 0..(n + 1) : Value(i) = IF i = 0 THEN SearchStart ELSE Visit(g[i - 1])
    <3> SUFFICES ASSUME NEW i \in 0..(n + 1)
                 PROVE  Value(i) = IF i = 0 THEN SearchStart ELSE Visit(g[i - 1])
      OBVIOUS
    <3>1. CASE i = 0
      BY <3>1
    <3>2. CASE i # 0
      <4>1. i - 1 \in 0..n
        BY <3>2
      <4> HIDE DEF g
      <4> QED BY <2>3, <3>2, <4>1
    <3> QED BY <3>1, <3>2
  <2>5. g = [i \in 0..(n + 1) |-> IF i = 0 THEN SearchStart ELSE Visit(g[i - 1])]
    <3> DEFINE After(i) == IF i = 0 THEN SearchStart ELSE Visit(g[i - 1])
    <3>1. \A i \in 0..(n + 1) : Value(i) = After(i)
      BY <2>4
    <3> HIDE DEF Value, After
    <3>2. g = [i \in 0..(n + 1) |-> After(i)]
      BY <3>1
    <3> QED BY <3>2 DEF After
  <2>6. AreSearches(g, n + 1)
    <3> HIDE DEF g
    <3> QED BY <2>5 DEF AreSearches
  <2> QED BY <2>6
<1>3. S = Nat
  <2> HIDE DEF S
  <2>1. S \in SUBSET Nat
    BY DEF S
  <2> QED BY <1>1, <1>2, <2>1, Induction
<1> QED BY <1>3

LEMMA SearchesAre == AreSearches(Search, Cardinality(Links))
<1>1. Cardinality(Links) \in Nat
  BY PluginAssumption, FS_CardinalityType DEF PluginAssumption
<1>2. \E f : AreSearches(f, Cardinality(Links))
  BY <1>1, SearchesExist
<1>3. Search = CHOOSE f : AreSearches(f, Cardinality(Links))
  BY DEF Search, AreSearches, SearchStart
<1> QED BY <1>2, <1>3

LEMMA PendingIsFinite ==
  ASSUME NEW queue
  PROVE  IsFiniteSet(Pending(queue)) /\ Cardinality(Pending(queue)) \in Nat
<1>1. Pending(queue) \subseteq Links /\ IsFiniteSet(Links)
  BY PluginAssumption DEF Pending, PluginAssumption
<1>2. IsFiniteSet(Pending(queue))
  BY <1>1, FS_Subset
<1> QED BY <1>2, FS_CardinalityType

\* An iteration takes a link from those the search will still meet.
LEMMA SearchShrinks ==
  ASSUME NEW n \in 0..Cardinality(Links)
  PROVE  /\ SearchInv(Search[n])
         /\ Cardinality(Pending(Search[n].queue)) <= Cardinality(Links) - n
<1> DEFINE last  == Cardinality(Links)
           Left(i) == Cardinality(Pending(Search[i].queue))
           S == {i \in Nat : i <= last => SearchInv(Search[i]) /\ Left(i) <= last - i}
<1>1. last \in Nat
  BY PluginAssumption, FS_CardinalityType DEF PluginAssumption
<1>2. /\ Search[0] = SearchStart
      /\ \A i \in 0..(last - 1) : Search[i + 1] = Visit(Search[i])
  BY <1>1, SearchesAre DEF AreSearches
<1>3. 0 \in S
  BY <1>1, <1>2, SearchStarts
<1>4. ASSUME NEW i \in S PROVE i + 1 \in S
  <2> SUFFICES ASSUME i + 1 <= last
               PROVE  SearchInv(Search[i + 1]) /\ Left(i + 1) <= last - (i + 1)
    OBVIOUS
  <2>1. i \in Nat /\ i <= last /\ i \in 0..(last - 1)
    BY <1>1
  <2>2. SearchInv(Search[i]) /\ Left(i) <= last - i
    BY <2>1
  <2>3. Search[i + 1] = Visit(Search[i])
    BY <1>2, <2>1
  <2>4. SearchInv(Search[i + 1])
    BY <2>2, <2>3, SearchStep
  <2>5. CASE Search[i].queue = <<>>
    <3>1. Search[i + 1].queue = <<>>
      BY <2>3, <2>5 DEF Visit
    <3>2. Pending(Search[i + 1].queue) = {}
      BY <3>1 DEF Pending
    <3>3. Left(i + 1) = 0
      BY <3>2, FS_EmptySet
    <3> HIDE DEF last
    <3> QED BY <1>1, <2>1, <2>4, <3>3
  <2>6. CASE Search[i].queue # <<>>
    <3>1. PICK l \in Pending(Search[i].queue) :
            Pending(Search[i + 1].queue) = Pending(Search[i].queue) \ {l}
      BY <2>2, <2>3, <2>6, SearchStep
    <3>2. Left(i + 1) = Left(i) - 1
      BY <3>1, PendingIsFinite, FS_RemoveElement
    <3>3. Left(i) \in Nat
      BY PendingIsFinite
    <3> HIDE DEF last, Left
    <3> QED BY <1>1, <2>1, <2>2, <2>4, <3>2, <3>3
  <2> QED BY <2>5, <2>6
<1>5. S = Nat
  <2> HIDE DEF S
  <2>1. S \in SUBSET Nat
    BY DEF S
  <2> QED BY <1>3, <1>4, <2>1, Induction
<1> QED BY <1>1, <1>5

\* The search has ended by then: with the last of the deepest links.
LEMMA TipIsLast == findTipLink \in Links /\ IsLast(findTipLink)
<1> DEFINE end == Search[Cardinality(Links)]
<1>1. Cardinality(Links) \in Nat
  BY PluginAssumption, FS_CardinalityType DEF PluginAssumption
<1>2. SearchInv(end) /\ Cardinality(Pending(end.queue)) <= 0
  BY <1>1, SearchShrinks
<1> HIDE DEF end
<1>3. Pending(end.queue) = {}
  <2>1. Cardinality(Pending(end.queue)) = 0
    BY <1>2, PendingIsFinite
  <2> QED BY <2>1, PendingIsFinite, FS_EmptySet
<1>4. end.queue = <<>>
  <2> SUFFICES ASSUME end.queue # <<>> PROVE FALSE
    OBVIOUS
  <2>1. end.queue \in Seq(Links)
    BY <1>2 DEF SearchInv
  <2>2. 1 \in DOMAIN end.queue /\ end.queue[1] \in Links
    BY <2>1, ElementOfSeq
  <2>3. end.queue[1] \in Pending(end.queue)
    BY <2>2, BelowItself DEF Pending
  <2> QED BY <1>3, <2>3
<1> QED BY <1>2, <1>4 DEF SearchInv, MetFirst, findTipLink, end

-----------------------------------------------------------------------------
LEMMA LastIsDeepest ==
  ASSUME NEW l \in Links, IsLast(l), NEW k \in Links
  PROVE  Cardinality(PathTo[k]) <= Cardinality(PathTo[l])
BY PathIsFinite DEF IsLast, Depth

\* What findTipLink() is meant to find: of the deepest links, which are those of
\* the hand, the last is beyond the joints of the arm and no finger.
ArmEndsLast == \A l \in Links : IsLast(l) => Cardinality(PathTo[l] \cap Movable) = ArmJoints

TipInv == tip \in {NoLink, findTipLink}

LEMMA StepTip == ASSUME TipInv, [Next]_vars PROVE TipInv'
BY DEF TipInv, Next, vars, plugin, Configure, ConfigureFails, Destroy, RequestSwitch,
       PreUpdate, SimulationStep, PostUpdate, Done

\* The chain whose weight is compensated ends at a link of greatest depth, the last
\* of those that the names of the joints order; and it is that of the arm when in
\* the description such a link is beyond the arm's joints and no other.
THEOREM ChainIsTheArmAlways ==
  ASSUME ArmEndsLast
  PROVE  Spec => []ChainIsTheArm
<1>1. Init => TipInv
  BY DEF Init, TipInv
<1>2. TipInv => ChainIsTheArm
  BY TipIsLast, LastIsDeepest DEF TipInv, ChainIsTheArm, ArmEndsLast
<1> QED BY <1>1, <1>2, StepTip, PTL DEF Spec

-----------------------------------------------------------------------------
(***************************************************************************)
(* Types                                                                   *)
(***************************************************************************)
LEMMA InitTyped == Init => TypeOK
<1> SUFFICES ASSUME Init PROVE TypeOK
  OBVIOUS
<1>1. JointsTypeOK
  <2>1. method \in [Joints -> SUBSET Interfaces]
    BY DEF Init, initSim, Interfaces
  <2>2. cmd \in [Joints -> [Interfaces -> Controllers \cup {Nobody}]]
    BY DEF Init, initSim
  <2>3. velocity \in [Joints -> Command] /\ force \in [Joints -> Command]
    BY DEF Init, initSim, Command
  <2> QED BY <2>1, <2>2, <2>3 DEF JointsTypeOK
<1>2. spinning \in BOOLEAN /\ manager \in BOOLEAN /\ tip \in Links \cup {NoLink}
  BY DEF Init
<1>3. pending \in [start : SUBSET Controllers, stop : SUBSET active]
  BY DEF Init, NoSwitch
<1>4. switches \in 0 .. MaxSwitches /\ elapsed \in Nat
  BY PluginAssumption DEF Init, PluginAssumption
<1> QED BY <1>1, <1>2, <1>3, <1>4 DEF Init, TypeOK

LEMMA CreateOrSetTyped ==
  ASSUME NEW component, NEW command \in Command
  PROVE  CreateOrSet(component, command) \in Command
BY DEF CreateOrSet, Command

LEMMA VelocityTyped ==
  ASSUME JointsTypeOK, NEW j \in Joints
  PROVE  VelocityOf(j) \in Command
<1>1. cmd[j]["velocity"] \in Controllers \cup {Nobody}
      /\ cmd[j]["position"] \in Controllers \cup {Nobody}
  BY DEF JointsTypeOK, Interfaces
<1>2. /\ <<"velocity", cmd[j]["velocity"]>> \in Command
      /\ <<"position", cmd[j]["position"]>> \in Command
      /\ Zero \in Command /\ velocity[j] \in Command
  BY <1>1 DEF JointsTypeOK, Command, Sources, Interfaces
<1>3. CreateOrSet(velocity[j], <<"velocity", cmd[j]["velocity"]>>) \in Command
  BY <1>2, CreateOrSetTyped
<1>4. \/ VelocityOf(j) = CreateOrSet(velocity[j], <<"velocity", cmd[j]["velocity"]>>)
      \/ VelocityOf(j) = <<"position", cmd[j]["position"]>>
      \/ VelocityOf(j) = Zero
      \/ VelocityOf(j) = velocity[j]
  BY DEF VelocityOf
<1> QED BY <1>2, <1>3, <1>4

LEMMA ForceTyped ==
  ASSUME JointsTypeOK, NEW j \in Joints
  PROVE  ForceOf(j) \in Command
<1>1. cmd[j]["effort"] \in Controllers \cup {Nobody} /\ force[j] \in Command
  BY DEF JointsTypeOK, Interfaces
<1>2. EffortOf(j) \in Command
  BY <1>1 DEF EffortOf, Command, Sources, Interfaces
<1> QED BY <1>1, <1>2, CreateOrSetTyped DEF ForceOf

LEMMA WriteTyped == ASSUME JointsTypeOK, write PROVE JointsTypeOK'
<1>1. ASSUME NEW j \in DOMAIN Mimics
      PROVE  <<"mimic", Mimics[j][1]>> \in Command
  BY JointsAssumption DEF JointsAssumption, Command
<1>2. ASSUME NEW j \in Joints PROVE velocity'[j] \in Command
  <2>1. CASE Follows(j, "position")
    BY <1>1, <2>1 DEF write, Follows, InterfacesToMimic
  <2>2. CASE ~Follows(j, "position") /\ Follows(j, "velocity")
    <3>1. velocity'[j] = CreateOrSet(VelocityOf(j), <<"mimic", Mimics[j][1]>>)
      BY <2>2 DEF write
    <3> QED BY <1>1, <2>2, <3>1, CreateOrSetTyped DEF Follows
  <2>3. CASE ~Follows(j, "position") /\ ~Follows(j, "velocity")
    <3>1. velocity'[j] = VelocityOf(j)
      BY <2>3 DEF write
    <3> QED BY <3>1, VelocityTyped
  <2> QED BY <2>1, <2>2, <2>3
<1>3. ASSUME NEW j \in Joints PROVE force'[j] \in Command
  <2>1. CASE Follows(j, "effort")
    <3>1. force'[j] = CreateOrSet(ForceOf(j), <<"mimic", Mimics[j][1]>>)
      BY <2>1 DEF write
    <3> QED BY <1>1, <2>1, <3>1, CreateOrSetTyped DEF Follows
  <2>2. CASE ~Follows(j, "effort")
    <3>1. force'[j] = ForceOf(j)
      BY <2>2 DEF write
    <3> QED BY <3>1, ForceTyped
  <2> QED BY <2>1, <2>2
<1>4. velocity' \in [Joints -> Command] /\ force' \in [Joints -> Command]
  <2>1. velocity' = [j \in Joints |-> velocity'[j]] /\ force' = [j \in Joints |-> force'[j]]
    BY DEF write
  <2> QED BY <1>2, <1>3, <2>1
<1> QED BY <1>4 DEF JointsTypeOK, write

LEMMA SimulateTyped == ASSUME JointsTypeOK, Simulate PROVE JointsTypeOK'
BY DEF JointsTypeOK, Simulate, Command

LEMMA UpdateTyped ==
  ASSUME JointsTypeOK, NEW cs \in SUBSET Controllers, Update(cs)
  PROVE  cmd' \in [Joints -> [Interfaces -> Controllers \cup {Nobody}]]
<1>1. ASSUME NEW j \in Joints, NEW i \in Interfaces
      PROVE  (IF \E c \in cs : <<j, i>> \in Claims[c]
              THEN CHOOSE c \in cs : <<j, i>> \in Claims[c] ELSE cmd[j][i])
             \in Controllers \cup {Nobody}
  BY DEF JointsTypeOK
<1> QED BY <1>1 DEF Update

LEMMA SwitchTyped ==
  ASSUME TypeOK, NEW updated \in SUBSET active, SwitchAfter(updated)
  PROVE  /\ method' \in [Joints -> SUBSET Interfaces]
         /\ active' \subseteq Controllers /\ fresh' \subseteq active'
         /\ pending' \in [start : SUBSET Controllers, stop : SUBSET active']
         /\ released' \subseteq Joints
<1>1. pending.start \subseteq Controllers /\ pending.stop \subseteq active
      /\ active \subseteq Controllers
  BY DEF TypeOK
<1>2. method' \in [Joints -> SUBSET Interfaces]
  <2>1. ASSUME NEW j \in Joints, NEW ss, NEW ts
        PROVE  MethodAfter(method[j], On(j, ss), On(j, ts)) \in SUBSET Interfaces
    BY DEF MethodAfter, On, TypeOK, JointsTypeOK
  <2> QED BY <2>1 DEF SwitchAfter, perform_command_mode_switch
<1>3. JointsOf(ClaimsOf(pending.stop)) \subseteq Joints
  <2> SUFFICES ASSUME NEW c \in pending.stop, NEW p \in Claims[c] PROVE p[1] \in Joints
    BY DEF JointsOf, ClaimsOf
  <2> QED BY <1>1, ClaimIsPair
<1>4. active' \subseteq Controllers /\ fresh' \subseteq active'
  BY <1>1 DEF SwitchAfter
<1>5. pending' \in [start : SUBSET Controllers, stop : SUBSET active']
  BY DEF SwitchAfter, NoSwitch
<1>6. released' \subseteq Joints
  BY <1>3 DEF SwitchAfter, TypeOK
<1> QED BY <1>2, <1>4, <1>5, <1>6

LEMMA StepTyped ==
  ASSUME TypeOK, [Next]_vars
  PROVE  TypeOK'
<1>1. CASE Configure
  BY <1>1, TipIsLast DEF Configure, TypeOK, JointsTypeOK, joints, switching
<1>2. CASE ConfigureFails
  BY <1>2 DEF ConfigureFails, TypeOK, JointsTypeOK, joints, switching
<1>3. CASE Destroy
  BY <1>3 DEF Destroy, TypeOK, JointsTypeOK, joints, switching
<1>4. CASE RequestSwitch
  <2>1. JointsTypeOK'
    BY <1>4 DEF RequestSwitch, TypeOK, JointsTypeOK, joints
  <2>2. pending' \in [start : SUBSET Controllers, stop : SUBSET active']
    BY <1>4 DEF RequestSwitch
  <2>3. switches' \in 0 .. MaxSwitches
    BY <1>4, PluginAssumption DEF RequestSwitch, TypeOK, PluginAssumption
  <2> QED BY <1>4, <2>1, <2>2, <2>3 DEF RequestSwitch, TypeOK, plugin
<1>5. CASE PreUpdate
  <2>1. JointsTypeOK'
    <3>1. CASE UNCHANGED joints
      BY <3>1 DEF TypeOK, JointsTypeOK, joints
    <3>2. CASE write
      BY <3>2, WriteTyped DEF TypeOK
    <3> QED BY <1>5, <3>1, <3>2 DEF PreUpdate
  <2> QED BY <1>5, <2>1 DEF PreUpdate, TypeOK, plugin, switching
<1>6. CASE SimulationStep
  <2>1. JointsTypeOK'
    BY <1>6, SimulateTyped DEF SimulationStep, TypeOK
  <2>2. elapsed' \in Nat
    BY <1>6 DEF SimulationStep, TypeOK
  <2> QED BY <1>6, <2>1, <2>2 DEF SimulationStep, TypeOK, plugin, switching
<1>7. CASE PostUpdate
  <2> USE <1>7 DEF PostUpdate
  <2>1. UNCHANGED <<plugin, switches>> /\ turn' = "pre" /\ elapsed' \in Nat
    BY DEF TypeOK
  <2>2. CASE Update(active) /\ fresh' = active /\ UNCHANGED <<method, active, pending, released>>
             /\ UNCHANGED <<velocity, force>>
    <3>1. JointsTypeOK'
      BY <2>2, UpdateTyped DEF TypeOK, JointsTypeOK
    <3> QED BY <2>1, <2>2, <3>1 DEF TypeOK, plugin
  <2>3. CASE Update(active) /\ SwitchAfter(active) /\ UNCHANGED <<velocity, force>>
    <3>1. JointsTypeOK'
      BY <2>3, UpdateTyped, SwitchTyped DEF TypeOK, JointsTypeOK
    <3> QED BY <2>1, <2>3, <3>1, SwitchTyped DEF TypeOK, plugin
  <2>4. CASE UNCHANGED <<joints, active, pending, fresh, released>>
    <3>1. JointsTypeOK'
      BY <2>4 DEF TypeOK, JointsTypeOK, joints
    <3> QED BY <2>1, <2>4, <3>1 DEF TypeOK, plugin
  <2> QED BY <2>2, <2>3, <2>4
<1>8. CASE Done \/ UNCHANGED vars
  BY <1>8 DEF Done, vars, plugin, switching, joints, TypeOK, JointsTypeOK
<1> QED BY <1>1, <1>2, <1>3, <1>4, <1>5, <1>6, <1>7, <1>8 DEF Next

\* Every variable keeps its type; the end of the chain is a link.
THEOREM TypeCorrect == Spec => []TypeOK
BY InitTyped, StepTyped, PTL DEF Spec
=============================================================================
