------------------------ MODULE FrankaHardware_proofs ------------------------
(***************************************************************************)
(* Proofs about FrankaHardware, for every set of controllers, every choice *)
(* of the interfaces they claim and every discipline of the operator.      *)
(*                                                                         *)
(* The state of the component only changes through a few operators on the  *)
(* record hw, and HwInv is what all of them preserve.  IInv adds what ties *)
(* the outcome of a write to the session it went to.  DisciplinedInv is    *)
(* for an operator who keeps the rules, with controllers of one mode each: *)
(* at most one controller is active, and the flags are those of its kinds. *)
(***************************************************************************)
EXTENDS FrankaHardware, FiniteSetTheorems, TLAPS

-----------------------------------------------------------------------------
(* The invariant of the component's record                                 *)

Flags(s)   == s.active = IF s.control = NoControl THEN {} ELSE {s.control}
Running(s) == s.control # NoControl => s.control \in s.running
Tool(s)    == Elbow \in s.running => s.running \cap CartesianModes # {}

\* Once the first update of the mode under control is done, its buffer was
\* loaded since the session began, and so was the elbow's beside a pose.
PoseAlone(s) == s.control = "cartesian_pose_command" /\ "cartesian_velocity" \notin s.running

Loaded(s) ==
  /\ s.control \in Measured \ s.first => s.control \in s.measured
  /\ PoseAlone(s) /\ Elbow \in s.running \ s.first => Elbow \in s.measured

HwInv(s) == s \in HwState /\ Flags(s) /\ Running(s) /\ Tool(s) /\ Loaded(s)

USE DEF JointModes, CartesianModes, Modes, Kinds, Elbow, NoControl

\* No mode is called like the absence of one, and a session is never the
\* elbow's.
LEMMA Names == NoControl \notin Modes /\ Elbow \notin Modes /\ Nowhere \notin Kinds
BY DEF Nowhere

\* Ending the session preserves the invariant and leaves no flag behind.
LEMMA StopRobotInv ==
  ASSUME NEW s \in HwState, HwInv(s)
  PROVE  /\ HwInv(stopRobot(s))
         /\ stopRobot(s) = [s EXCEPT !.control = NoControl, !.active = {}]
BY DEF HwInv, HwState, Flags, Running, Tool, Loaded, PoseAlone, stopRobot, Measured

\* Neither the values in the buffers, nor the claims, nor the mark of a throw
\* matter to the invariant.
LEMMA DataInv ==
  ASSUME NEW s \in HwState, HwInv(s),
         NEW nf \in SUBSET Kinds, NEW cl \in SUBSET Kinds, NEW b \in BOOLEAN
  PROVE  /\ HwInv([s EXCEPT !.nonfinite = nf])
         /\ HwInv([s EXCEPT !.claimed = cl])
         /\ HwInv([s EXCEPT !.threw = b])
BY DEF HwInv, HwState, Flags, Running, Tool, Loaded, PoseAlone, Measured

\* Starting a mode that does not run: a throw leaves a stopped robot, success a session of the
\* new mode whose buffer waits for a first read.
LEMMA EnterModeInv ==
  ASSUME NEW s \in HwState, HwInv(s), NEW m \in Modes \ s.running, NEW failing
  PROVE  HwInv(EnterMode(s, m, failing))
<1> DEFINE nf == s.nonfinite \ ({m} \cap Zeroed)
           z  == [s EXCEPT !.nonfinite = nf]
           st == stopRobot(z)
           e  == ElbowStartedWith(s, m)
<1>1. z \in HwState /\ HwInv(z) /\ z.running = s.running /\ z.first = s.first
  <2>1. nf \in SUBSET Kinds
    BY DEF HwState
  <2> HIDE DEF nf
  <2>2. HwInv(z)
    BY <2>1, DataInv
  <2> QED BY <2>1, <2>2 DEF HwState, HwInv
<1>2. /\ st \in HwState /\ HwInv(st)
      /\ st.control = NoControl /\ st.active = {}
      /\ st.running = s.running /\ st.first = s.first
  <2> HIDE DEF z
  <2>1. HwInv(st) /\ st = [z EXCEPT !.control = NoControl, !.active = {}]
    BY <1>1, StopRobotInv
  <2> QED BY <1>1, <2>1 DEF HwState, HwInv
<1>3. CASE m = failing
  BY <1>2, <1>3, DataInv DEF EnterMode
<1>4. CASE m # failing
  <2> DEFINE r == [initializeInterface(st, m)
                     EXCEPT !.running = @ \cup {m} \cup e,
                            !.first = @ \cup e \cup ({m} \cap Measured)]
  <2>1. EnterMode(s, m, failing) = r
    BY <1>4 DEF EnterMode
  <2>2. e \subseteq {Elbow} /\ (e # {} => m \in CartesianModes)
    BY DEF ElbowStartedWith
  <2>3. r = [st EXCEPT !.control = m, !.active = {m}, !.measured = {},
                       !.running = s.running \cup {m} \cup e,
                       !.first = s.first \cup e \cup ({m} \cap Measured)]
    BY <1>2 DEF initializeInterface, HwState
  <2> HIDE DEF r, e, st, z
  <2>4. r \in HwState
    BY <1>2, <2>2, <2>3 DEF HwState, Measured, HwInv
  <2>5. Flags(r) /\ Running(r)
    BY <1>2, <2>3 DEF HwState, Flags, Running
  <2>6. Tool(r)
    BY <1>2, <2>2, <2>3 DEF HwState, Tool, HwInv
  <2>7. Loaded(r)
    <3>1. r.control = m /\ r.measured = {} /\ (m \in Measured => m \in r.first)
      BY <1>2, <2>3 DEF HwState
    <3>2. ASSUME PoseAlone(r) PROVE Elbow \notin r.running \ r.first
      <4>1. m = "cartesian_pose_command" /\ "cartesian_velocity" \notin s.running
        BY <1>2, <2>3, <3>2 DEF HwState, PoseAlone
      <4>2. Elbow \notin s.running
        BY <1>2, <4>1 DEF HwInv, Tool
      <4> QED BY <1>2, <2>3, <4>1, <4>2 DEF HwState
    <3> QED BY <3>1, <3>2 DEF Loaded
  <2> QED BY <2>1, <2>4, <2>5, <2>6, <2>7 DEF HwInv
<1> QED BY <1>3, <1>4

\* Stopping a mode ends the session, and takes the elbow along with the tool.
LEMMA LeaveModeInv ==
  ASSUME NEW s \in HwState, HwInv(s), NEW m \in Modes
  PROVE  HwInv(LeaveMode(s, m))
<1> DEFINE st == stopRobot(s)
           e  == IF m \in CartesianModes THEN {Elbow} \cap s.running ELSE {}
           r  == [st EXCEPT !.running = @ \ ({m} \cup e), !.claimed = @ \ e]
<1>1. /\ st \in HwState /\ HwInv(st)
      /\ st.control = NoControl /\ st.active = {} /\ st.running = s.running
  <2> HIDE DEF st
  <2>1. HwInv(st) /\ st = [s EXCEPT !.control = NoControl, !.active = {}]
    BY StopRobotInv DEF st
  <2> QED BY <2>1 DEF HwInv, HwState
<1>2. LeaveMode(s, m) = r
  BY DEF LeaveMode
<1> HIDE DEF st
<1>3. r \in HwState
  BY <1>1 DEF HwState
<1>4. Flags(r) /\ Running(r) /\ Loaded(r)
  BY <1>1 DEF HwState, Flags, Running, Loaded, PoseAlone, Measured
<1>5. Tool(r)
  BY <1>1 DEF HwState, Tool, HwInv
<1> QED BY <1>2, <1>3, <1>4, <1>5 DEF HwInv

LEMMA SwitchModeInv ==
  ASSUME NEW s \in HwState, HwInv(s), NEW m \in Modes, NEW failing
  PROVE  SwitchMode(s, m, failing) \in HwState /\ HwInv(SwitchMode(s, m, failing))
<1>1. m \notin s.running => HwInv(EnterMode(s, m, failing))
  BY EnterModeInv
<1>2. HwInv(LeaveMode(s, m))
  BY LeaveModeInv
<1> QED BY <1>1, <1>2 DEF SwitchMode, HwInv

\* The five blocks of perform_command_mode_switch(), in their order.
LEMMA SwitchModesInv ==
  ASSUME NEW s \in HwState, HwInv(s), NEW failing
  PROVE  SwitchModes(s, failing) \in HwState /\ HwInv(SwitchModes(s, failing))
<1> DEFINE s1 == SwitchMode(s, "effort", failing)
           s2 == SwitchMode(s1, "velocity", failing)
           s3 == SwitchMode(s2, "position", failing)
           s4 == SwitchMode(s3, "cartesian_velocity", failing)
           s5 == SwitchMode(s4, "cartesian_pose_command", failing)
<1>1. s1 \in HwState /\ HwInv(s1) BY SwitchModeInv
<1>2. s2 \in HwState /\ HwInv(s2) BY <1>1, SwitchModeInv
<1>3. s3 \in HwState /\ HwInv(s3) BY <1>2, SwitchModeInv
<1>4. s4 \in HwState /\ HwInv(s4) BY <1>3, SwitchModeInv
<1>5. s5 \in HwState /\ HwInv(s5) BY <1>4, SwitchModeInv
<1> QED BY <1>5 DEF SwitchModes

\* Loading the measured state finishes first updates and records them.
LEMMA ReadInv ==
  ASSUME NEW s \in HwState, HwInv(s), NEW bad \in SUBSET Measured
  PROVE  LET r == initializePositionCommands(s, bad)
         IN  r \in HwState /\ HwInv(r) /\ s.measured \subseteq r.measured
<1> DEFINE r == initializePositionCommands(s, bad)
<1>1. r = [s EXCEPT !.first = s.first \ (s.first \cap s.running),
                    !.nonfinite = (s.nonfinite \ (s.first \cap s.running))
                                     \cup (bad \cap (s.first \cap s.running)),
                    !.measured = s.measured \cup (s.first \cap s.running)]
  BY DEF initializePositionCommands, HwState
<1> HIDE DEF r
<1>2. r \in HwState /\ s.measured \subseteq r.measured
  BY <1>1 DEF HwState, Measured
<1>3. Flags(r) /\ Running(r) /\ Tool(r)
  BY <1>1 DEF HwState, Flags, Running, Tool, HwInv
<1>4. Loaded(r)
  <2>1. r.control \in Measured \ r.first => r.control \in r.measured
    BY <1>1 DEF HwState, Loaded, Running, HwInv, Measured
  <2>2. PoseAlone(r) /\ Elbow \in r.running \ r.first => Elbow \in r.measured
    BY <1>1 DEF HwState, Loaded, PoseAlone, HwInv, Measured
  <2> QED BY <2>1, <2>2 DEF Loaded
<1> QED BY <1>2, <1>3, <1>4 DEF HwInv, r

-----------------------------------------------------------------------------
(* What write() does                                                       *)

\* write() takes a command of a mode, and position and pose commands only
\* when their first update is done; an elbow with a pose, when its own is.
LEMMA BranchFrom ==
  ASSUME NEW s \in HwState
  PROVE  /\ Branch(s) \in [from : Modes \cup {Nowhere}, elbow : BOOLEAN]
         /\ Branch(s).from \notin s.first \ {Nowhere}
         /\ Branch(s).from = "cartesian_pose_command" /\ Branch(s).elbow
              => "cartesian_velocity" \notin s.running /\ Elbow \in s.running \ s.first
<1>1. /\ Branch(s) \in [from : Modes \cup {Nowhere}, elbow : BOOLEAN]
      /\ Branch(s).from \notin s.first \ {Nowhere}
  BY DEF Branch, HwState, Measured, Nowhere
<1>2. ASSUME Branch(s).from = "cartesian_pose_command", Branch(s).elbow
      PROVE  "cartesian_velocity" \notin s.running /\ Elbow \in s.running \ s.first
  <2>1. Elbow \in s.running \ s.first
    BY <1>2 DEF Branch, Nowhere
  <2>2. "cartesian_velocity" \notin s.running
    BY <1>2, <2>1 DEF Branch, Nowhere
  <2> QED BY <2>1, <2>2
<1> QED BY <1>1, <1>2

\* The Robot sends a command as a mode whose flag is set, or throws.
LEMMA WriteOnceTarget ==
  ASSUME NEW s \in HwState, NEW size, NEW elbowSize
  PROVE  /\ writeOnce(s, size) \in s.active \cup {Nowhere}
         /\ writeOnceWithElbow(s, size, elbowSize) \in s.active \cup {Nowhere}
<1>1. s.active \subseteq Modes
  BY DEF HwState
<1>2. s.active \cap JointModes # {} => JointWriter(s) \in s.active
  BY <1>1 DEF JointWriter
<1> QED BY <1>2 DEF writeOnce, writeOnceWithElbow

LEMMA WriteOutcomeInv ==
  ASSUME NEW s \in HwState, HwInv(s)
  PROVE  LET o == WriteOutcome(s)
         IN  /\ o \in Outcome
             /\ o.result = "sent" /\ o.from = o.into =>
                  /\ o.from \in Measured => o.from \in s.measured
                  /\ o.from = "cartesian_pose_command" /\ o.elbow => Elbow \in s.measured
<1> DEFINE b == Branch(s)
           into == IF b.elbow
                   THEN writeOnceWithElbow(s, CommandSize[b.from], CommandSize[Elbow])
                   ELSE writeOnce(s, CommandSize[b.from])
           o == WriteOutcome(s)
<1>1. b \in [from : Modes \cup {Nowhere}, elbow : BOOLEAN]
  BY BranchFrom
<1>2. into \in s.active \cup {Nowhere}
  BY WriteOnceTarget
<1>3. \/ o = [NoWrite EXCEPT !.result = "error"]
      \/ o = [NoWrite EXCEPT !.result = "skipped"]
      \/ o = [result |-> IF into = Nowhere THEN "exception" ELSE "sent",
              from |-> b.from, into |-> into, elbow |-> b.elbow]
  BY DEF WriteOutcome
<1>4. /\ b.from \notin s.first \ {Nowhere}
      /\ b.from = "cartesian_pose_command" /\ b.elbow
           => "cartesian_velocity" \notin s.running /\ Elbow \in s.running \ s.first
  BY BranchFrom
<1> HIDE DEF b, into, o
<1>5. o \in Outcome
  <2>1. into \in Modes \cup {Nowhere} /\ b.from \in Kinds \cup {Nowhere}
    BY <1>1, <1>2 DEF HwState
  <2>2. b.elbow \in BOOLEAN
    BY <1>1
  <2>3. ASSUME NEW r \in {"skipped", "error"}
        PROVE  [NoWrite EXCEPT !.result = r] \in Outcome
    <3>1. NoWrite \in Outcome
      BY DEF NoWrite, Outcome
    <3> QED BY <3>1 DEF Outcome
  <2>4. ASSUME NEW r \in {"sent", "exception"}
        PROVE  [result |-> r, from |-> b.from, into |-> into, elbow |-> b.elbow]
                 \in Outcome
    BY <2>1, <2>2 DEF Outcome
  <2> QED BY <1>3, <2>3, <2>4
<1>6. ASSUME o.result = "sent", o.from = o.into, o.from \in Measured
      PROVE  o.from \in s.measured
  <2>1. o.from = b.from /\ o.into = into /\ into # Nowhere
    BY <1>3, <1>6 DEF NoWrite
  <2>2. into \in s.active
    BY <1>2, <2>1
  <2>3. s.control = into
    BY <2>2 DEF HwInv, Flags
  <2>4. s.control \in Measured \ s.first
    BY <1>4, <1>6, <2>1, <2>3
  <2> QED BY <1>6, <2>1, <2>3, <2>4 DEF HwInv, Loaded
<1>7. ASSUME o.result = "sent", o.from = o.into, o.from = "cartesian_pose_command", o.elbow
      PROVE  Elbow \in s.measured
  <2>1. /\ o = [result |-> IF into = Nowhere THEN "exception" ELSE "sent",
                from |-> b.from, into |-> into, elbow |-> b.elbow]
        /\ into # Nowhere
    <3>1. /\ o # [NoWrite EXCEPT !.result = "error"]
          /\ o # [NoWrite EXCEPT !.result = "skipped"]
      BY <1>7 DEF NoWrite
    <3> QED BY <1>3, <1>7, <3>1
  <2>4. o.from = b.from /\ o.into = into
    BY <2>1
  <2>5. b.elbow
    BY <1>7, <2>1, Zenon
  <2>2. into \in s.active
    BY <1>2, <2>1
  <2>3. s.control = "cartesian_pose_command"
    BY <1>7, <2>2, <2>4 DEF HwInv, Flags
  <2> QED BY <1>4, <1>7, <2>3, <2>4, <2>5 DEF HwInv, Loaded, PoseAlone
<1> QED BY <1>5, <1>6, <1>7 DEF o

-----------------------------------------------------------------------------
(* The inductive invariant                                                 *)

SentBeforeRead == pc # "read" => sent = NoWrite

IInv == TypeOK /\ HwInv(hw) /\ SentBeforeRead /\ FirstWriteAfterRead

\* A component that was just initialised satisfies the invariant.
LEMMA InitInv == Init => IInv
BY FaultsAssumption
   DEF Init, IInv, TypeOK, HwInv, HwState, Flags, Running, Tool, Loaded, PoseAlone,
       SentBeforeRead, FirstWriteAfterRead, Switch, NoSwitch, Outcome, NoWrite,
       Measured, Nowhere

\* A failure is counted within its bound.
LEMMA FaultType ==
  ASSUME NEW happens \in BOOLEAN, faults \in 0 .. MaxFaults, Fault(happens)
  PROVE  faults' \in 0 .. MaxFaults
BY FaultsAssumption DEF Fault

\* prepare_command_mode_switch() changes claims only.
LEMMA RequestSwitchInv ==
  ASSUME IInv, NEW deact \in SUBSET held, NEW act \in SUBSET Controllers,
         NEW refuses \in BOOLEAN, RequestSwitch(act, deact, refuses)
  PROVE  IInv'
<1> DEFINE cl == ClaimedAfter(hw.claimed, InterfacesOf(act), InterfacesOf(deact))
<1>1. cl \in SUBSET Kinds
  BY DEF ClaimedAfter, IInv, TypeOK, HwState
<1>2. hw' \in HwState /\ HwInv(hw') /\ hw'.measured = hw.measured
  <2>1. CASE UNCHANGED hw
    BY <2>1 DEF IInv, TypeOK
  <2>2. CASE hw' = [hw EXCEPT !.claimed = cl]
    <3> HIDE DEF cl
    <3>1. HwInv(hw')
      BY <1>1, <2>2, DataInv DEF IInv, TypeOK
    <3> QED BY <2>2, <3>1 DEF HwInv, HwState
  <2> QED BY <2>1, <2>2 DEF RequestSwitch
<1>3. pending' \in Switch
  BY DEF RequestSwitch, IInv, TypeOK, Switch, NoSwitch
<1>4. faults' \in 0 .. MaxFaults
  BY FaultType DEF RequestSwitch, IInv, TypeOK
<1>5. performed' = "none" /\ UNCHANGED <<lifecycle, held, pc, sent>>
  BY DEF RequestSwitch
<1> QED BY <1>2, <1>3, <1>4, <1>5
  DEF IInv, TypeOK, SentBeforeRead, FirstWriteAfterRead

\* perform_command_mode_switch() may begin a session, when no outcome of an
\* earlier write is pending.
LEMMA PerformInv ==
  ASSUME IInv, NEW failing \in Modes \cup {NoControl}, Perform(failing)
  PROVE  IInv'
<1> DEFINE s == SwitchModes(hw, failing)
<1>1. s \in HwState /\ HwInv(s)
  BY SwitchModesInv DEF IInv, TypeOK
<1>2. hw' = [s EXCEPT !.threw = FALSE] /\ performed' = PerformResult(s)
  BY DEF Perform
<1> HIDE DEF s
<1>3. hw' \in HwState /\ HwInv(hw')
  BY <1>1, <1>2, DataInv DEF HwInv
<1>4. performed' \in {"ok", "error", "exception"}
  BY <1>2 DEF PerformResult
<1>5. held' \subseteq Controllers /\ pending' \in Switch
  BY DEF Perform, IInv, TypeOK, Switch, NoSwitch
<1>6. faults' \in 0 .. MaxFaults
  BY FaultType DEF Perform, IInv, TypeOK
<1>7. sent = NoWrite /\ sent' = NoWrite /\ UNCHANGED <<lifecycle, pc>>
  BY DEF Perform, IInv, SentBeforeRead
<1>8. FirstWriteAfterRead'
  BY <1>7 DEF FirstWriteAfterRead, NoWrite
<1> QED BY <1>3, <1>4, <1>5, <1>6, <1>7, <1>8
  DEF IInv, TypeOK, SentBeforeRead, NoWrite

\* read(), from the loop or from on_activate(), keeps what was loaded.
LEMMA ReadStepInv ==
  ASSUME IInv, NEW bad \in SUBSET Measured, Read(bad) \/ Activate(bad)
  PROVE  IInv'
<1>1. /\ hw' = initializePositionCommands(hw, bad)
      /\ Fault(bad # {})
      /\ performed' = "none" /\ UNCHANGED <<held, pending>>
      /\ \/ sent' = NoWrite /\ pc' = "update" /\ UNCHANGED lifecycle
         \/ UNCHANGED <<sent, pc>> /\ lifecycle' = "active"
  BY DEF Read, Activate
<1>2. hw' \in HwState /\ HwInv(hw') /\ hw.measured \subseteq hw'.measured
  BY <1>1, ReadInv DEF IInv, TypeOK
<1>3. faults' \in 0 .. MaxFaults
  BY <1>1, FaultType DEF IInv, TypeOK
<1>4. TypeOK'
  <2>1. NoWrite \in Outcome
    BY DEF Outcome, NoWrite
  <2> QED BY <1>1, <1>2, <1>3, <2>1 DEF IInv, TypeOK
<1>5. SentBeforeRead' /\ FirstWriteAfterRead'
  BY <1>1, <1>2 DEF IInv, SentBeforeRead, FirstWriteAfterRead, NoWrite
<1> QED BY <1>2, <1>4, <1>5 DEF IInv

\* write() hands a session only what it may receive.
LEMMA WriteInv == ASSUME IInv, Write PROVE IInv'
<1>1. hw \in HwState /\ HwInv(hw)
  BY DEF IInv, TypeOK
<1>2. /\ sent' \in Outcome
      /\ sent'.result = "sent" /\ sent'.from = sent'.into =>
           /\ sent'.from \in Measured => sent'.from \in hw.measured
           /\ sent'.from = "cartesian_pose_command" /\ sent'.elbow => Elbow \in hw.measured
  BY <1>1, WriteOutcomeInv DEF Write
<1>3. /\ pc' = "read" /\ performed' = "none" /\ UNCHANGED <<hw, faults>>
      /\ lifecycle' \in {"unconfigured", lifecycle}
      /\ held' \in {{}, held} /\ pending' \in {NoSwitch, pending}
  BY DEF Write, OutOfService
<1>4. TypeOK'
  BY <1>2, <1>3 DEF IInv, TypeOK, Switch, NoSwitch
<1>5. FirstWriteAfterRead'
  BY <1>2, <1>3 DEF FirstWriteAfterRead
<1> QED BY <1>1, <1>3, <1>4, <1>5 DEF IInv, SentBeforeRead

\* Controllers change the buffers, a failed read takes the component out of
\* service, and on_configure() does nothing.
LEMMA QuietInv ==
  ASSUME IInv, ReadThrows \/ Configure \/ \E bad \in SUBSET KindsOf(held) : Update(bad)
  PROVE  IInv'
<1>1. CASE ReadThrows
  <2>1. faults' \in 0 .. MaxFaults
    BY <1>1, FaultType DEF ReadThrows, IInv, TypeOK
  <2> QED BY <1>1, <2>1
    DEF ReadThrows, OutOfService, IInv, TypeOK, SentBeforeRead, Outcome,
        FirstWriteAfterRead, NoWrite, Switch, NoSwitch, Nowhere
<1>2. CASE Configure
  BY <1>2 DEF Configure, IInv, TypeOK, SentBeforeRead, FirstWriteAfterRead
<1>3. ASSUME NEW bad \in SUBSET KindsOf(held), Update(bad)
      PROVE  IInv'
  <2> DEFINE nf == (hw.nonfinite \ KindsOf(held)) \cup bad
  <2>1. KindsOf(held) \subseteq Kinds
    BY DEF KindsOf, Exported
  <2>2. nf \in SUBSET Kinds /\ hw' = [hw EXCEPT !.nonfinite = nf]
    BY <1>3, <2>1 DEF Update, IInv, TypeOK, HwState
  <2> HIDE DEF nf
  <2>3. hw' \in HwState /\ HwInv(hw') /\ hw'.measured = hw.measured
    <3>1. HwInv(hw')
      BY <2>2, DataInv DEF IInv, TypeOK
    <3>2. hw'.measured = hw.measured
      BY <2>2 DEF IInv, TypeOK, HwState
    <3> QED BY <3>1, <3>2 DEF HwInv
  <2>4. faults' \in 0 .. MaxFaults
    BY <1>3, FaultType DEF Update, IInv, TypeOK
  <2> QED BY <1>3, <2>3, <2>4
    DEF Update, IInv, TypeOK, SentBeforeRead, FirstWriteAfterRead
<1> QED BY <1>1, <1>2, <1>3

\* on_deactivate() ends the session.
LEMMA DeactivateInv == ASSUME IInv, Deactivate PROVE IInv'
<1>1. hw' = stopRobot(hw) /\ HwInv(hw')
  BY StopRobotInv DEF Deactivate, IInv, TypeOK
<1>2. hw' \in HwState /\ hw'.measured = hw.measured
  <2>1. hw' = [hw EXCEPT !.control = NoControl, !.active = {}]
    BY <1>1, StopRobotInv DEF IInv, TypeOK
  <2>2. hw'.measured = hw.measured
    BY <2>1 DEF IInv, TypeOK, HwState
  <2> QED BY <1>1, <2>2 DEF HwInv
<1> QED BY <1>1, <1>2
  DEF Deactivate, IInv, TypeOK, SentBeforeRead, FirstWriteAfterRead

\* Every step of the specification preserves the invariant.
LEMMA NextInv == IInv /\ [Next]_vars => IInv'
<1> SUFFICES ASSUME IInv, [Next]_vars PROVE IInv'
  OBVIOUS
<1>1. CASE UNCHANGED vars
  BY <1>1 DEF vars, IInv, TypeOK, SentBeforeRead, FirstWriteAfterRead
<1>2. ASSUME NEW deact \in SUBSET held, NEW act \in SUBSET Controllers,
             NEW refuses \in BOOLEAN, RequestSwitch(act, deact, refuses)
      PROVE  IInv'
  BY <1>2, RequestSwitchInv
<1>3. ASSUME NEW failing \in Modes \cup {NoControl}, Perform(failing)
      PROVE  IInv'
  BY <1>3, PerformInv
<1>4. ASSUME NEW bad \in SUBSET Measured, Read(bad) \/ Activate(bad)
      PROVE  IInv'
  BY <1>4, ReadStepInv
<1>5. CASE ReadThrows \/ Configure \/ \E bad \in SUBSET KindsOf(held) : Update(bad)
  BY <1>5, QuietInv
<1>6. CASE Write
  BY <1>6, WriteInv
<1>7. CASE Deactivate
  BY <1>7, DeactivateInv
<1> QED BY <1>1, <1>2, <1>3, <1>4, <1>5, <1>6, <1>7 DEF Next

LEMMA Invariance == Spec => []IInv
BY InitInv, NextInv, PTL DEF Spec

-----------------------------------------------------------------------------
(* Disciplined use: the operator keeps every rule, nothing fails, and each *)
(* controller claims whole kinds of interfaces of one mode, or all of them *)
(* (which the component refuses).                                          *)

UsesOneMode(c) ==
  /\ \A k \in Kinds : Accept(k, Uses[c])
  /\ \A j, k \in KindsOf({c}) \cap Modes : j = k

DisciplinedUse ==
  /\ IsFiniteSet(Controllers)
  /\ Discipline = Rules
  /\ MaxFaults = 0
  /\ \A c \in Controllers : UsesOneMode(c) \/ TooMany(Uses[c])

AtMostOne(S) == \A x, y \in S : x = y

\* What runs once a switch to the kinds ks was performed: an elbow only beside
\* a Cartesian mode.
RunOf(ks) ==
  (ks \cap Modes) \cup (IF ks \cap CartesianModes # {} THEN ks \cap {Elbow} ELSE {})

\* The controllers that are active once the prepared switch is performed.
Planned == (held \ pending.deact) \cup pending.act

LEMMA CommandSizes == \A k \in Kinds : CommandSize[k] \in Nat \ {0}
BY DEF CommandSize

\* The interfaces of one kind are finitely many.
LEMMA KindFinite ==
  ASSUME NEW U, NEW k \in Kinds
  PROVE  IsFiniteSet({x \in U \cap Exported : x[1] = k})
<1> DEFINE B == {k} \X (1 .. CommandSize[k])
           S == {x \in U \cap Exported : x[1] = k}
<1>1. IsFiniteSet(1 .. CommandSize[k])
  <2>1. 1 \in Int /\ CommandSize[k] \in Int
    BY CommandSizes
  <2> QED BY <2>1, FS_Interval
<1>2. IsFiniteSet({k})
  BY FS_Singleton
<1>3. IsFiniteSet(B)
  BY <1>1, <1>2, FS_Product
<1>4. S \in SUBSET B
  <2> SUFFICES ASSUME NEW x \in S PROVE x \in B
    OBVIOUS
  <2>1. PICK j \in Kinds : \E i \in 1 .. CommandSize[j] : x = <<j, i>>
    BY DEF Exported
  <2>2. PICK i \in 1 .. CommandSize[j] : x = <<j, i>>
    BY <2>1
  <2>3. j = k
    BY <2>2
  <2> QED BY <2>2, <2>3
<1> QED BY <1>3, <1>4, FS_Subset

\* A kind of which everything or nothing is given is given as a whole when one
\* of its interfaces is.
LEMMA WholeMeans ==
  ASSUME NEW U, NEW k \in Kinds, Accept(k, U)
  PROVE  Whole(k, U) <=> \E x \in U \cap Exported : x[1] = k
<1> DEFINE S == {x \in U \cap Exported : x[1] = k}
<1>1. IsFiniteSet(S)
  BY KindFinite
<1>2. Cardinality(S) = 0 <=> S = {}
  BY <1>1, FS_EmptySet
<1>3. Cardinality(S) \in {0, CommandSize[k]} /\ CommandSize[k] # 0
  BY CommandSizes DEF Accept, Count
<1> QED BY <1>2, <1>3 DEF Whole, Count

\* The same for the request of one controller, and for an empty one.
LEMMA OneRequest ==
  ASSUME NEW c, UsesOneMode(c)
  PROVE  /\ InterfacesOf({c}) = Uses[c]
         /\ \A k \in Kinds : Accept(k, InterfacesOf({c}))
         /\ {k \in Kinds : Whole(k, InterfacesOf({c}))} = KindsOf({c})
<1>1. InterfacesOf({c}) = Uses[c]
  BY DEF InterfacesOf
<1>2. \A k \in Kinds : Accept(k, InterfacesOf({c}))
  BY <1>1 DEF UsesOneMode
<1>3. KindsOf({c}) \subseteq Kinds
  BY DEF KindsOf, Exported
<1>4. \A k \in Kinds : Whole(k, InterfacesOf({c})) <=> k \in KindsOf({c})
  BY <1>2, WholeMeans DEF KindsOf
<1> QED BY <1>1, <1>2, <1>3, <1>4

LEMMA NoRequest ==
  /\ InterfacesOf({}) = {} /\ KindsOf({}) = {}
  /\ \A k \in Kinds : Accept(k, {}) /\ ~ Whole(k, {})
<1>1. InterfacesOf({}) = {} /\ KindsOf({}) = {}
  BY DEF InterfacesOf, KindsOf
<1>2. ASSUME NEW k \in Kinds PROVE Count(k, {}) = 0
  <2>1. {x \in {} \cap Exported : x[1] = k} = {}
    OBVIOUS
  <2> QED BY <2>1, FS_EmptySet DEF Count
<1> QED BY <1>1, <1>2, CommandSizes DEF Accept, Whole

\* A set of at most one element is empty or a singleton.
LEMMA SmallSet ==
  ASSUME NEW S, IsFiniteSet(S), Cardinality(S) <= 1
  PROVE  AtMostOne(S)
<1> SUFFICES ASSUME NEW x \in S, NEW y \in S, x # y PROVE FALSE
  BY DEF AtMostOne
<1>1. IsFiniteSet({x}) /\ Cardinality({x}) = 1
  BY FS_Singleton
<1>2. Cardinality({x} \cup {y}) = 2
  <2>1. y \notin {x}
    OBVIOUS
  <2> QED BY <1>1, <2>1, FS_AddElement
<1>3. {x} \cup {y} \in SUBSET S
  OBVIOUS
<1>4. Cardinality({x} \cup {y}) <= Cardinality(S) /\ Cardinality(S) \in Nat
  BY <1>3, FS_Subset, FS_CardinalityType
<1> QED BY <1>2, <1>4

\* A block that has nothing to do leaves the record alone, so that a switch in
\* which one mode has something to do is that mode's block.
LEMMA IdleBlock ==
  ASSUME NEW s, NEW m, NEW failing, m \in s.claimed <=> m \in s.running
  PROVE  SwitchMode(s, m, failing) = s
BY DEF SwitchMode

LEMMA OnlyBlock ==
  ASSUME NEW s, NEW m \in Modes, NEW failing, NEW r,
         SwitchMode(s, m, failing) = r,
         \A n \in Modes \ {m} :
            SwitchMode(s, n, failing) = s /\ SwitchMode(r, n, failing) = r
  PROVE  SwitchModes(s, failing) = r
<1>1. CASE m = "effort"
  BY <1>1 DEF SwitchModes
<1>2. CASE m = "velocity"
  BY <1>2 DEF SwitchModes
<1>3. CASE m = "position"
  BY <1>3 DEF SwitchModes
<1>4. CASE m = "cartesian_velocity"
  BY <1>4 DEF SwitchModes
<1>5. CASE m = "cartesian_pose_command"
  BY <1>5 DEF SwitchModes
<1> QED BY <1>1, <1>2, <1>3, <1>4, <1>5

LEMMA NoBlock ==
  ASSUME NEW s, NEW failing, \A n \in Modes : SwitchMode(s, n, failing) = s
  PROVE  SwitchModes(s, failing) = s
BY DEF SwitchModes

\* The state a switch that went well leaves behind.
Settled(r, claims, runs, s) ==
  /\ r.claimed = claims /\ r.running = runs
  /\ r.threw = FALSE /\ r.nonfinite \subseteq s.nonfinite
  /\ IF runs = {} THEN r.control = NoControl ELSE r.control \in runs

\* A mode that starts alone starts a session of its own and, when it is
\* Cartesian, the claimed elbow with it.
LEMMA EnterAlone ==
  ASSUME NEW s \in HwState, HwInv(s), NEW m \in Modes,
         s.claimed \cap Modes = {m}, s.running = {}, s.threw = FALSE
  PROVE  Settled(EnterMode(s, m, NoControl), s.claimed, RunOf(s.claimed), s)
<1> DEFINE nf == s.nonfinite \ ({m} \cap Zeroed)
           z  == [s EXCEPT !.nonfinite = nf]
           st == stopRobot(z)
           e  == ElbowStartedWith(s, m)
           r  == [initializeInterface(st, m)
                    EXCEPT !.running = @ \cup {m} \cup e,
                           !.first = @ \cup e \cup ({m} \cap Measured)]
<1>1. EnterMode(s, m, NoControl) = r
  BY DEF EnterMode
<1>2. z \in HwState /\ HwInv(z) /\ z.running = {} /\ z.claimed = s.claimed
        /\ z.threw = FALSE /\ z.nonfinite = nf
  <2>1. nf \in SUBSET Kinds
    BY DEF HwState
  <2> HIDE DEF nf
  <2>2. HwInv(z)
    BY <2>1, DataInv
  <2> QED BY <2>1, <2>2 DEF HwState, HwInv
<1>3. /\ st \in HwState /\ st.running = {} /\ st.claimed = s.claimed
      /\ st.threw = FALSE /\ st.nonfinite = nf
  <2> HIDE DEF z, nf
  <2>1. HwInv(st) /\ st = [z EXCEPT !.control = NoControl, !.active = {}]
    BY <1>2, StopRobotInv
  <2> QED BY <1>2, <2>1 DEF HwState, HwInv
<1>4. e = IF m \in CartesianModes THEN {Elbow} \cap s.claimed ELSE {}
  BY DEF ElbowStartedWith
<1>5. {m} \cup e = RunOf(s.claimed)
  BY <1>4 DEF RunOf
<1> HIDE DEF st, e
<1>6. /\ r.claimed = s.claimed /\ r.running = {m} \cup e /\ r.threw = FALSE
      /\ r.nonfinite = nf /\ r.control = m
  BY <1>3 DEF initializeInterface, HwState
<1> QED BY <1>1, <1>5, <1>6 DEF Settled

\* The mode that stops is the only one, and takes the elbow with it.
LEMMA LeaveAlone ==
  ASSUME NEW s \in HwState, HwInv(s), NEW m \in Modes, NEW ks \in SUBSET Kinds,
         ks \cap Modes = {m}, s.claimed = {}, s.running = RunOf(ks), s.threw = FALSE
  PROVE  Settled(LeaveMode(s, m), {}, {}, s)
<1> DEFINE st == stopRobot(s)
<1>1. /\ st \in HwState /\ st.control = NoControl /\ st.running = s.running
      /\ st.claimed = {} /\ st.threw = FALSE /\ st.nonfinite = s.nonfinite
  <2> HIDE DEF st
  <2>1. HwInv(st) /\ st = [s EXCEPT !.control = NoControl, !.active = {}]
    BY StopRobotInv DEF st
  <2> QED BY <2>1 DEF HwInv, HwState
<1>2. RunOf(ks) \ ({m} \cup (IF m \in CartesianModes THEN {Elbow} \cap RunOf(ks)
                             ELSE {})) = {}
  BY DEF RunOf
<1> HIDE DEF st
<1> QED BY <1>1, <1>2 DEF LeaveMode, Settled, HwState, st

\* perform_command_mode_switch() after a controller of at most one mode was
\* asked to start on a component where nothing runs.
LEMMA PerformStart ==
  ASSUME NEW s \in HwState, HwInv(s), AtMostOne(s.claimed \cap Modes),
         s.running = {}, s.threw = FALSE
  PROVE  Settled(SwitchModes(s, NoControl), s.claimed, RunOf(s.claimed), s)
<1>1. CASE s.claimed \cap Modes = {}
  <2>1. SwitchModes(s, NoControl) = s
    BY <1>1, IdleBlock, NoBlock
  <2>2. RunOf(s.claimed) = {}
    BY <1>1 DEF RunOf
  <2>3. s.control = NoControl
    BY DEF HwInv, Running
  <2> QED BY <2>1, <2>2, <2>3 DEF Settled
<1>2. CASE s.claimed \cap Modes # {}
  <2>1. PICK m \in Modes : s.claimed \cap Modes = {m}
    BY <1>2 DEF AtMostOne
  <2> DEFINE r == EnterMode(s, m, NoControl)
  <2>2. Settled(r, s.claimed, RunOf(s.claimed), s)
    BY <2>1, EnterAlone
  <2>3. SwitchMode(s, m, NoControl) = r
    BY <2>1 DEF SwitchMode
  <2> HIDE DEF r
  <2>4. ASSUME NEW n \in Modes \ {m}
        PROVE  SwitchMode(s, n, NoControl) = s /\ SwitchMode(r, n, NoControl) = r
    <3>1. n \notin s.claimed /\ n \notin RunOf(s.claimed)
      BY <2>1 DEF RunOf
    <3>2. n \notin r.claimed /\ n \notin r.running
      BY <2>2, <3>1 DEF Settled
    <3> QED BY <3>1, <3>2, IdleBlock
  <2>5. SwitchModes(s, NoControl) = r
    BY <2>3, <2>4, OnlyBlock
  <2> QED BY <2>2, <2>5
<1> QED BY <1>1, <1>2

\* The same after that controller was asked to stop.
LEMMA PerformStop ==
  ASSUME NEW s \in HwState, HwInv(s), NEW ks \in SUBSET Kinds,
         AtMostOne(ks \cap Modes), s.claimed = {}, s.running = RunOf(ks),
         s.threw = FALSE
  PROVE  Settled(SwitchModes(s, NoControl), {}, {}, s)
<1>1. CASE ks \cap Modes = {}
  <2>1. RunOf(ks) = {}
    BY <1>1 DEF RunOf
  <2>2. SwitchModes(s, NoControl) = s
    BY <2>1, IdleBlock, NoBlock
  <2>3. s.control = NoControl
    BY <2>1 DEF HwInv, Running
  <2> QED BY <2>1, <2>2, <2>3 DEF Settled
<1>2. CASE ks \cap Modes # {}
  <2>1. PICK m \in Modes : ks \cap Modes = {m}
    BY <1>2 DEF AtMostOne
  <2> DEFINE r == LeaveMode(s, m)
  <2>2. Settled(r, {}, {}, s)
    BY <2>1, LeaveAlone
  <2>3. m \in s.running
    BY <2>1 DEF RunOf
  <2>4. SwitchMode(s, m, NoControl) = r
    BY <2>3 DEF SwitchMode
  <2> HIDE DEF r
  <2>5. ASSUME NEW n \in Modes \ {m}
        PROVE  SwitchMode(s, n, NoControl) = s /\ SwitchMode(r, n, NoControl) = r
    <3>1. n \notin s.claimed /\ n \notin s.running
      BY <2>1 DEF RunOf
    <3>2. n \notin r.claimed /\ n \notin r.running
      BY <2>2 DEF Settled
    <3> QED BY <3>1, <3>2, IdleBlock
  <2>6. SwitchModes(s, NoControl) = r
    BY <2>4, <2>5, OnlyBlock
  <2> QED BY <2>2, <2>6
<1> QED BY <1>1, <1>2

\* A claim for a controller of one mode is complete and counts nothing else,
\* and one for its stop takes back exactly that.
LEMMA ClaimedStart ==
  ASSUME NEW c, UsesOneMode(c)
  PROVE  /\ ClaimedAfter({}, InterfacesOf({c}), {}) = KindsOf({c})
         /\ ~ PrepareThrows(InterfacesOf({c}), {})
         /\ ClaimedAfter(KindsOf({c}), {}, InterfacesOf({c})) = {}
         /\ ~ PrepareThrows({}, InterfacesOf({c}))
<1>1. /\ \A k \in Kinds : Accept(k, InterfacesOf({c}))
      /\ {k \in Kinds : Whole(k, InterfacesOf({c}))} = KindsOf({c})
  BY OneRequest
<1>2. \A k \in Kinds : Accept(k, {}) /\ ~ Whole(k, {})
  BY NoRequest
<1>3. \A k \in Kinds : /\ Reached(k, InterfacesOf({c}), {})
                       /\ Reached(k, {}, InterfacesOf({c}))
  BY <1>1, <1>2 DEF Reached
<1> QED BY <1>1, <1>2, <1>3 DEF ClaimedAfter, PrepareThrows

\* write() sends the buffer of the mode that runs, to the session it has.
LEMMA WriteOfOneMode ==
  ASSUME NEW s \in HwState, HwInv(s), NEW ks \in SUBSET Kinds,
         AtMostOne(ks \cap Modes), s.running = RunOf(ks), s.nonfinite = {},
         s.running # {} => s.control \in s.running
  PROVE  LET o == WriteOutcome(s)
         IN  /\ o.result \in {"skipped", "sent"}
             /\ o.result = "sent" => o.from = o.into
<1> DEFINE b == Branch(s)
           into == IF b.elbow
                   THEN writeOnceWithElbow(s, CommandSize[b.from], CommandSize[Elbow])
                   ELSE writeOnce(s, CommandSize[b.from])
           o == WriteOutcome(s)
<1>1. CASE b.from = Nowhere
  BY <1>1 DEF WriteOutcome, NoWrite
<1>2. CASE b.from # Nowhere
  <2>1. /\ b.from \in s.running \cap Modes
        /\ b.elbow \in BOOLEAN
        /\ b.elbow => b.from \in CartesianModes
    <3>1. b \in [from : Modes \cup {Nowhere}, elbow : BOOLEAN]
      BY BranchFrom
    <3>2. b.from \in s.running \cup {Nowhere}
      BY DEF Branch
    <3>3. b.elbow => b.from \in CartesianModes
      BY DEF Branch, Nowhere
    <3> QED BY <1>2, <3>1, <3>2, <3>3
  <2>2. s.control = b.from /\ s.active = {b.from}
    <3>1. s.control \in Modes /\ s.active = {s.control}
      BY <2>1 DEF HwInv, HwState, Flags
    <3>2. s.control \in RunOf(ks) /\ b.from \in RunOf(ks)
      BY <2>1
    <3>3. s.control = b.from
      BY <2>1, <3>1, <3>2 DEF RunOf, AtMostOne
    <3> QED BY <3>1, <3>3
  <2>3. into = b.from
    <3> HIDE DEF b
    <3>1. s.control # NoControl
      BY <2>1, <2>2
    <3>2. CASE b.elbow
      BY <2>1, <2>2, <3>1, <3>2 DEF writeOnceWithElbow, CommandSize,
         kMaxNumberOfElbowCommands, kMaxNumberOfCartesianVelocities,
         kMaxNumberOfCartesianPoseCommands
    <3>3. CASE ~ b.elbow
      <4>1. CASE b.from \in JointModes
        <5>1. CommandSize[b.from] = 7
          BY <4>1 DEF CommandSize
        <5>2. JointWriter(s) = b.from /\ s.active \cap JointModes # {}
          BY <2>2, <4>1 DEF JointWriter
        <5> QED BY <3>1, <3>3, <5>1, <5>2 DEF writeOnce, kMaxNumberOfJoints
      <4>2. CASE b.from \in CartesianModes
        BY <2>2, <3>1, <3>3, <4>2 DEF writeOnce, CommandSize,
           kMaxNumberOfCartesianVelocities, kMaxNumberOfCartesianPoseCommands
      <4> QED BY <2>1, <4>1, <4>2
    <3> QED BY <2>1, <3>2, <3>3
  <2> HIDE DEF b, into
  <2>4. o = [result |-> "sent", from |-> b.from, into |-> b.from, elbow |-> b.elbow]
    BY <1>2, <2>3 DEF WriteOutcome, b, into
  <2> QED BY <2>4
<1> QED BY <1>1, <1>2

\* What holds of disciplined use: one controller at a time, whose kinds are
\* claimed from the request on and run from the switch on, and a session
\* whenever something runs.  DisciplinedInv is inductive together with IInv.
Healthy == faults = 0 /\ hw.nonfinite = {} /\ hw.threw = FALSE
             /\ lifecycle # "unconfigured"

OneController ==
  /\ AtMostOne(held \cup pending.act)
  /\ \A c \in held \cup pending.act : UsesOneMode(c)
  /\ pending.deact \in {{}, held}
  /\ pending.act # {} => held = {}

ClaimsFollow ==
  /\ hw.claimed = KindsOf(Planned)
  /\ hw.running = RunOf(KindsOf(held))
  /\ hw.running # {} => hw.control \in hw.running

DisciplinedInv ==
  /\ Healthy /\ OneController /\ ClaimsFollow
  /\ performed = "ok" => hw.running = KindsOf(held)
  /\ CommandReachesItsMode

LEMMA DisciplinedInit == DisciplinedUse /\ Init => DisciplinedInv
BY NoRequest
   DEF Init, DisciplinedInv, Healthy, OneController, ClaimsFollow, Planned,
       RunOf, AtMostOne, NoSwitch, CommandReachesItsMode, NoWrite

\* Nothing fails.
LEMMA NoFault ==
  ASSUME DisciplinedUse, faults = 0, NEW happens \in BOOLEAN, Fault(happens)
  PROVE  happens = FALSE /\ faults' = 0
BY DEF DisciplinedUse, Fault

\* At most one mode is planned, and at most one runs.
LEMMA OneModeOf ==
  ASSUME NEW cs, AtMostOne(cs), \A c \in cs : UsesOneMode(c)
  PROVE  AtMostOne(KindsOf(cs) \cap Modes) /\ KindsOf(cs) \in SUBSET Kinds
<1>1. KindsOf(cs) \in SUBSET Kinds
  BY DEF KindsOf, Exported
<1>2. CASE cs = {}
  BY <1>2, NoRequest DEF AtMostOne
<1>3. CASE cs # {}
  <2>1. PICK c : c \in cs /\ cs = {c}
    BY <1>3 DEF AtMostOne
  <2>2. UsesOneMode(c)
    BY <2>1
  <2> QED BY <1>1, <2>1, <2>2 DEF UsesOneMode, AtMostOne
<1> QED BY <1>1, <1>2, <1>3

\* A request of a disciplined operator starts one controller on an idle
\* component, or stops the one that is active.
LEMMA DisciplinedRequest ==
  ASSUME DisciplinedUse, IInv, DisciplinedInv,
         NEW deact \in SUBSET held, NEW act \in SUBSET Controllers,
         SwitchAllowed(act, deact)
  PROVE  \/ held = {} /\ deact = {} /\ \E c \in Controllers : act = {c}
         \/ act = {} /\ deact = held /\ \E c \in Controllers : held = {c}
<1>1. held \subseteq Controllers /\ AtMostOne(held)
  BY DEF IInv, TypeOK, DisciplinedInv, OneController, AtMostOne
<1>2. act = {} \/ deact = {}
  BY DEF SwitchAllowed, DisciplinedUse, Rules
<1>3. AtMostOne((held \ deact) \cup act)
  <2>1. IsFiniteSet((held \ deact) \cup act)
    <3>1. (held \ deact) \cup act \in SUBSET Controllers
      BY <1>1
    <3> QED BY <3>1, FS_Subset DEF DisciplinedUse
  <2>2. Cardinality((held \ deact) \cup act) <= 1
    BY DEF SwitchAllowed, DisciplinedUse, Rules
  <2> QED BY <2>1, <2>2, SmallSet
<1>4. CASE act = {}
  <2>1. deact # {}
    BY <1>4 DEF SwitchAllowed
  <2>2. PICK c \in held : held = {c}
    BY <1>1, <2>1 DEF AtMostOne
  <2> QED BY <1>1, <1>4, <2>1, <2>2
<1>5. CASE act # {}
  <2>1. deact = {} /\ act \cap held = {}
    BY <1>2, <1>5 DEF SwitchAllowed
  <2>2. AtMostOne(held \cup act)
    BY <1>3, <2>1
  <2>3. held = {} /\ \E c \in Controllers : act = {c}
    BY <1>5, <2>1, <2>2 DEF AtMostOne
  <2> QED BY <2>1, <2>3
<1> QED BY <1>4, <1>5

LEMMA DisciplinedRequestInv ==
  ASSUME DisciplinedUse, IInv, DisciplinedInv,
         NEW deact \in SUBSET held, NEW act \in SUBSET Controllers,
         NEW refuses \in BOOLEAN, RequestSwitch(act, deact, refuses)
  PROVE  DisciplinedInv'
<1> DEFINE start == InterfacesOf(act)
           stop  == InterfacesOf(deact)
<1>1. /\ SwitchAllowed(act, deact) /\ pending = NoSwitch
      /\ performed' = "none" /\ UNCHANGED <<lifecycle, held, pc, sent>>
  BY DEF RequestSwitch, SwitchAllowed
<1>2. refuses = FALSE /\ faults' = 0
  BY NoFault DEF RequestSwitch, DisciplinedInv, Healthy
<1>3. hw \in HwState
  BY DEF IInv, TypeOK
<1>4. pending.act = {} /\ pending.deact = {} /\ Planned = held
  BY <1>1 DEF NoSwitch, Planned
<1>5. CASE TooMany(start)
  <2>1. UNCHANGED <<hw, pending>>
    BY <1>5 DEF RequestSwitch
  <2> QED BY <1>1, <1>2, <2>1
    DEF DisciplinedInv, Healthy, OneController, ClaimsFollow, Planned,
        CommandReachesItsMode
<1>6. CASE ~ TooMany(start)
  <2>1. /\ hw' = [hw EXCEPT !.claimed = ClaimedAfter(@, start, stop)]
        /\ pending' = IF PrepareThrows(start, stop) THEN NoSwitch
                      ELSE [act |-> act, deact |-> deact]
    BY <1>2, <1>6 DEF RequestSwitch
  <2>2. /\ hw'.claimed = ClaimedAfter(hw.claimed, start, stop)
        /\ hw'.running = hw.running /\ hw'.control = hw.control
        /\ hw'.nonfinite = hw.nonfinite /\ hw'.threw = hw.threw
    BY <1>3, <2>1 DEF HwState
  <2>3. Healthy' /\ (performed = "ok" => hw.running = KindsOf(held))'
          /\ CommandReachesItsMode'
    BY <1>1, <1>2, <2>2 DEF DisciplinedInv, Healthy, CommandReachesItsMode
  <2>4. ASSUME held = {}, deact = {}, NEW c \in Controllers, act = {c}
        PROVE  OneController' /\ ClaimsFollow'
    <3>1. UsesOneMode(c)
      BY <1>6, <2>4 DEF DisciplinedUse, InterfacesOf
    <3>2. hw.claimed = {}
      BY <1>4, <2>4, NoRequest DEF DisciplinedInv, ClaimsFollow
    <3>3. stop = {}
      BY <2>4, NoRequest
    <3>4. hw'.claimed = KindsOf({c}) /\ pending' = [act |-> {c}, deact |-> {}]
      BY <2>1, <2>2, <2>4, <3>1, <3>2, <3>3, ClaimedStart
    <3>5. OneController'
      BY <1>1, <2>4, <3>1, <3>4 DEF OneController, AtMostOne
    <3>6. Planned' = {c}
      BY <1>1, <2>4, <3>4 DEF Planned
    <3> QED BY <1>1, <2>2, <3>4, <3>5, <3>6 DEF DisciplinedInv, ClaimsFollow
  <2>5. ASSUME act = {}, deact = held, NEW c \in Controllers, held = {c}
        PROVE  OneController' /\ ClaimsFollow'
    <3>1. UsesOneMode(c)
      BY <2>5 DEF DisciplinedInv, OneController
    <3>2. hw.claimed = KindsOf({c})
      BY <1>4, <2>5 DEF DisciplinedInv, ClaimsFollow
    <3>3. start = {}
      BY <2>5, NoRequest
    <3>4. hw'.claimed = {} /\ pending' = [act |-> {}, deact |-> held]
      BY <2>1, <2>2, <2>5, <3>1, <3>2, <3>3, ClaimedStart
    <3>5. OneController'
      BY <1>1, <2>5, <3>1, <3>4 DEF OneController, AtMostOne
    <3>6. Planned' = {}
      BY <1>1, <2>5, <3>4 DEF Planned
    <3> QED BY <1>1, <2>2, <3>4, <3>5, <3>6, NoRequest
      DEF DisciplinedInv, ClaimsFollow
  <2>6. OneController' /\ ClaimsFollow'
    BY <1>1, <2>4, <2>5, DisciplinedRequest
  <2> QED BY <2>3, <2>6 DEF DisciplinedInv
<1> QED BY <1>5, <1>6

\* The switch that is performed settles: what runs afterwards is what the new
\* set of controllers claims.
LEMMA DisciplinedPerformInv ==
  ASSUME DisciplinedUse, IInv, DisciplinedInv,
         NEW failing \in Modes \cup {NoControl}, Perform(failing)
  PROVE  DisciplinedInv'
<1> DEFINE s == SwitchModes(hw, NoControl)
<1>1. failing = NoControl /\ faults' = 0
  BY NoFault DEF Perform, DisciplinedInv, Healthy
<1>2. /\ hw' = [s EXCEPT !.threw = FALSE] /\ performed' = PerformResult(s)
      /\ held' = Planned /\ pending' = NoSwitch
      /\ UNCHANGED <<lifecycle, sent>> /\ pending # NoSwitch
  BY <1>1 DEF Perform, Planned
<1>3. hw \in HwState /\ HwInv(hw) /\ s \in HwState
  BY SwitchModesInv DEF IInv, TypeOK
<1>4. AtMostOne(Planned) /\ \A c \in Planned : UsesOneMode(c)
  BY DEF DisciplinedInv, OneController, AtMostOne, Planned
<1> HIDE DEF s
<1>5. Settled(s, hw.claimed, RunOf(hw.claimed), hw)
  <2>1. CASE held = {}
    <3>1. hw.running = {}
      BY <2>1, NoRequest DEF DisciplinedInv, ClaimsFollow, RunOf
    <3>2. AtMostOne(hw.claimed \cap Modes)
      BY <1>4, OneModeOf DEF DisciplinedInv, ClaimsFollow
    <3> QED BY <1>3, <3>1, <3>2, PerformStart DEF s, DisciplinedInv, Healthy
  <2>2. CASE held # {}
    <3>1. pending.act = {} /\ pending.deact = held
      <4>1. pending.act = {}
        BY <2>2 DEF DisciplinedInv, OneController
      <4>2. pending.deact # {}
        BY <1>2, <4>1 DEF IInv, TypeOK, Switch, NoSwitch
      <4> QED BY <4>1, <4>2 DEF DisciplinedInv, OneController
    <3>2. hw.claimed = {} /\ RunOf(hw.claimed) = {}
      BY <3>1, NoRequest DEF DisciplinedInv, ClaimsFollow, Planned, RunOf
    <3>3. /\ hw.running = RunOf(KindsOf(held)) /\ KindsOf(held) \in SUBSET Kinds
          /\ AtMostOne(KindsOf(held) \cap Modes) /\ hw.threw = FALSE
      BY OneModeOf DEF DisciplinedInv, ClaimsFollow, Healthy, OneController, AtMostOne
    <3> QED BY <1>3, <3>2, <3>3, PerformStop DEF s
  <2> QED BY <2>1, <2>2
<1>6. hw.claimed = KindsOf(Planned)
  BY DEF DisciplinedInv, ClaimsFollow
<1>7. /\ hw'.claimed = KindsOf(held') /\ hw'.running = RunOf(KindsOf(held'))
      /\ hw'.threw = FALSE /\ hw'.nonfinite = {}
      /\ hw'.running # {} => hw'.control \in hw'.running
  BY <1>2, <1>3, <1>5, <1>6 DEF Settled, HwState, DisciplinedInv, Healthy
<1>8. performed' = "ok" => hw'.running = KindsOf(held')
  <2>1. SUFFICES ASSUME PerformResult(s) = "ok" PROVE RunOf(s.claimed) = s.claimed
    BY <1>2, <1>5, <1>6, <1>7 DEF Settled
  <2>2. ~ (Elbow \in s.claimed /\ s.claimed \cap CartesianModes = {})
    BY <2>1 DEF PerformResult
  <2>3. s.claimed \subseteq Kinds
    BY <1>3 DEF HwState
  <2> QED BY <2>2, <2>3 DEF RunOf
<1>9. pending'.act = {} /\ pending'.deact = {} /\ Planned' = held'
  BY <1>2 DEF NoSwitch, Planned
<1>10. OneController'
  BY <1>2, <1>4, <1>9 DEF OneController
<1> QED BY <1>1, <1>2, <1>7, <1>8, <1>9, <1>10
  DEF DisciplinedInv, Healthy, ClaimsFollow, CommandReachesItsMode

\* No write fails, so that the component stays in service.
LEMMA DisciplinedWriteInv ==
  ASSUME DisciplinedUse, IInv, DisciplinedInv, Write
  PROVE  DisciplinedInv'
<1>1. /\ hw \in HwState /\ HwInv(hw) /\ KindsOf(held) \in SUBSET Kinds
      /\ AtMostOne(KindsOf(held) \cap Modes)
  BY OneModeOf DEF IInv, TypeOK, DisciplinedInv, OneController, AtMostOne
<1>2. /\ sent' = WriteOutcome(hw)
      /\ sent'.result \in {"skipped", "sent"}
      /\ sent'.result = "sent" => sent'.from = sent'.into
  BY <1>1, WriteOfOneMode DEF Write, DisciplinedInv, ClaimsFollow, Healthy
<1>3. performed' = "none" /\ UNCHANGED <<hw, faults, lifecycle, held, pending>>
  BY <1>2 DEF Write
<1> QED BY <1>2, <1>3
  DEF DisciplinedInv, Healthy, OneController, ClaimsFollow, Planned,
      CommandReachesItsMode

\* The other calls leave the switch and the session alone, except that a
\* deactivation ends the session of a component on which nothing runs.
LEMMA DisciplinedRestInv ==
  ASSUME DisciplinedUse, IInv, DisciplinedInv,
         \/ \E bad \in SUBSET Measured : Read(bad) \/ Activate(bad)
         \/ \E bad \in SUBSET KindsOf(held) : Update(bad)
         \/ ReadThrows \/ Configure \/ Deactivate
  PROVE  DisciplinedInv'
<1>0. hw \in HwState /\ faults = 0 /\ hw.nonfinite = {} /\ hw.threw = FALSE
  BY DEF IInv, TypeOK, DisciplinedInv, Healthy
\* It is enough that no fault is counted, that the switch and the controllers
\* stay, and that only a session of which nothing runs is lost.
<1>1. ASSUME faults' = 0, lifecycle' # "unconfigured", performed' = "none",
             UNCHANGED <<held, pending>>, sent' = sent \/ sent' = NoWrite,
             hw'.nonfinite = {}, hw'.threw = FALSE, hw'.claimed = hw.claimed,
             hw'.running = hw.running,
             hw.running # {} => hw'.control = hw.control
      PROVE  DisciplinedInv'
  <2>1. Healthy'
    BY <1>1 DEF Healthy
  <2>2. OneController'
    BY <1>1 DEF DisciplinedInv, OneController
  <2>3. ClaimsFollow'
    BY <1>1 DEF DisciplinedInv, ClaimsFollow, Planned
  <2>4. CommandReachesItsMode'
    BY <1>1 DEF DisciplinedInv, CommandReachesItsMode, NoWrite
  <2> QED BY <1>1, <2>1, <2>2, <2>3, <2>4 DEF DisciplinedInv
<1>2. ASSUME NEW bad \in SUBSET Measured, Read(bad) \/ Activate(bad)
      PROVE  DisciplinedInv'
  <2>1. bad = {} /\ faults' = 0
    BY <1>0, <1>2, NoFault DEF Read, Activate
  <2>2. hw' = initializePositionCommands(hw, bad)
    BY <1>2 DEF Read, Activate
  <2>3. hw' = [hw EXCEPT !.first = hw.first \ (hw.first \cap hw.running),
                         !.nonfinite = {},
                         !.measured = hw.measured \cup (hw.first \cap hw.running)]
    BY <1>0, <2>1, <2>2 DEF initializePositionCommands, HwState
  <2>4. /\ hw'.nonfinite = {} /\ hw'.threw = FALSE /\ hw'.claimed = hw.claimed
        /\ hw'.running = hw.running /\ hw'.control = hw.control
    BY <1>0, <2>3 DEF HwState
  <2>5. /\ performed' = "none" /\ UNCHANGED <<held, pending>>
        /\ lifecycle' # "unconfigured" /\ (sent' = sent \/ sent' = NoWrite)
    BY <1>2 DEF Read, Activate
  <2> QED BY <1>1, <2>1, <2>4, <2>5
<1>3. ASSUME NEW bad \in SUBSET KindsOf(held), Update(bad)
      PROVE  DisciplinedInv'
  <2>1. bad = {} /\ faults' = 0
    BY <1>0, <1>3, NoFault DEF Update
  <2>2. hw' = [hw EXCEPT !.nonfinite = {}]
    BY <1>0, <1>3, <2>1 DEF Update
  <2>3. /\ hw'.nonfinite = {} /\ hw'.threw = FALSE /\ hw'.claimed = hw.claimed
        /\ hw'.running = hw.running /\ hw'.control = hw.control
    BY <1>0, <2>2 DEF HwState
  <2> QED BY <1>1, <1>3, <2>1, <2>3 DEF Update, DisciplinedInv, Healthy
<1>4. CASE ReadThrows
  BY <1>0, <1>4, NoFault DEF ReadThrows
<1>5. CASE Configure
  BY <1>5 DEF Configure, DisciplinedInv, Healthy
<1>6. CASE Deactivate
  <2>1. /\ held = {} /\ hw' = stopRobot(hw)
        /\ UNCHANGED <<held, pending, sent, faults>>
        /\ performed' = "none" /\ lifecycle' = "inactive"
    BY <1>6 DEF Deactivate, DisciplinedUse, Rules
  <2>2. hw.running = {}
    BY <2>1, NoRequest DEF DisciplinedInv, ClaimsFollow, RunOf
  <2>3. hw' = [hw EXCEPT !.control = NoControl, !.active = {}]
    BY <1>0, <2>1, StopRobotInv DEF IInv
  <2>4. /\ hw'.nonfinite = {} /\ hw'.threw = FALSE /\ hw'.claimed = hw.claimed
        /\ hw'.running = hw.running
    BY <1>0, <2>3 DEF HwState
  <2> QED BY <1>0, <1>1, <2>1, <2>2, <2>4
<1> QED BY <1>2, <1>3, <1>4, <1>5, <1>6

LEMMA DisciplinedNext ==
  ASSUME DisciplinedUse, IInv, DisciplinedInv, [Next]_vars
  PROVE  DisciplinedInv'
<1>1. CASE UNCHANGED vars
  BY <1>1 DEF vars, DisciplinedInv, Healthy, OneController, ClaimsFollow, Planned,
              CommandReachesItsMode
<1>2. ASSUME NEW deact \in SUBSET held, NEW act \in SUBSET Controllers,
             NEW refuses \in BOOLEAN, RequestSwitch(act, deact, refuses)
      PROVE  DisciplinedInv'
  BY <1>2, DisciplinedRequestInv
<1>3. ASSUME NEW failing \in Modes \cup {NoControl}, Perform(failing)
      PROVE  DisciplinedInv'
  BY <1>3, DisciplinedPerformInv
<1>4. CASE Write
  BY <1>4, DisciplinedWriteInv
<1>5. CASE \/ \E bad \in SUBSET Measured : Read(bad) \/ Activate(bad)
           \/ \E bad \in SUBSET KindsOf(held) : Update(bad)
           \/ ReadThrows \/ Configure \/ Deactivate
  BY <1>5, DisciplinedRestInv
<1> QED BY <1>1, <1>2, <1>3, <1>4, <1>5 DEF Next

LEMMA DisciplinedInvariance ==
  ASSUME DisciplinedUse PROVE Spec => []DisciplinedInv
<1>1. Init => DisciplinedInv
  BY DisciplinedInit
<1>2. IInv /\ DisciplinedInv /\ [Next]_vars => DisciplinedInv'
  BY DisciplinedNext
<1> QED BY <1>1, <1>2, Invariance, PTL DEF Spec

-----------------------------------------------------------------------------
(* The theorems                                                            *)

\* Every variable of the component keeps its type.
THEOREM TypeCorrect == Spec => []TypeOK
<1>1. IInv => TypeOK
  BY DEF IInv
<1> QED BY <1>1, Invariance, PTL

\* The dispatch flags of the Robot always name its one session.
THEOREM ControlMatchesFlagsAlways == Spec => []ControlMatchesFlags
<1>1. IInv => ControlMatchesFlags
  BY DEF IInv, HwInv, Flags, ControlMatchesFlags
<1> QED BY <1>1, Invariance, PTL

\* A session is always that of a mode the component knows to be running.
THEOREM ControlIsRunningAlways == Spec => []ControlIsRunning
<1>1. IInv => ControlIsRunning
  BY DEF IInv, HwInv, Running, ControlIsRunning
<1> QED BY <1>1, Invariance, PTL

\* The elbow never runs without the Cartesian velocity or pose interface.
THEOREM ElbowNeedsCartesianAlways == Spec => []ElbowNeedsCartesian
<1>1. IInv => ElbowNeedsCartesian
  BY DEF IInv, HwInv, Tool, ElbowNeedsCartesian
<1> QED BY <1>1, Invariance, PTL

\* No session is sent a position or a pose, or with a pose an elbow, that is older
\* than the session.
THEOREM FirstWriteAfterReadAlways == Spec => []FirstWriteAfterRead
<1>1. IInv => FirstWriteAfterRead
  BY DEF IInv
<1> QED BY <1>1, Invariance, PTL

\* Used with discipline, a command is always sent as the mode it is for.
THEOREM CommandReachesItsModeDisciplined ==
  ASSUME DisciplinedUse PROVE Spec => []CommandReachesItsMode
<1>1. DisciplinedInv => CommandReachesItsMode
  BY DEF DisciplinedInv
<1> QED BY <1>1, DisciplinedInvariance, PTL

\* Used with discipline, a switch that reports success leaves a session behind
\* for what it left running.
THEOREM SwitchedModeHasControlDisciplined ==
  ASSUME DisciplinedUse PROVE Spec => []SwitchedModeHasControl
<1>1. IInv /\ DisciplinedInv => SwitchedModeHasControl
  BY Names DEF DisciplinedInv, ClaimsFollow, SwitchedModeHasControl, IInv, TypeOK,
               HwState
<1> QED BY <1>1, Invariance, DisciplinedInvariance, PTL

\* Used with discipline, a switch that reports success leaves running what the
\* active controllers claim and nothing else.
THEOREM HeldModesRunDisciplined ==
  ASSUME DisciplinedUse PROVE Spec => []HeldModesRun
<1>1. DisciplinedInv => HeldModesRun
  BY DEF DisciplinedInv, HeldModesRun
<1> QED BY <1>1, DisciplinedInvariance, PTL


\* Used with discipline, no write() fails or throws, so that the component
\* never leaves service.
THEOREM ServiceIsKept ==
  ASSUME DisciplinedUse
  PROVE  Spec => [](lifecycle # "unconfigured")
<1>1. DisciplinedInv => lifecycle # "unconfigured"
  BY DEF DisciplinedInv, Healthy
<1> QED BY <1>1, DisciplinedInvariance, PTL
=============================================================================
