--------------------- MODULE GripperActionServer_proofs ---------------------
(***************************************************************************)
(* Proofs about GripperActionServer, for every set of goals, every task    *)
(* and target of each, and every discipline of the clients.                *)
(*                                                                         *)
(* GoalInv ties the status of a goal to the place of its thread and to its *)
(* call.  It is inductive, and it is all that the refinement needs.        *)
(***************************************************************************)
EXTENDS GripperActionServer, TLAPS

Pending == {"queued", "running"}

GoalInv(g) ==
  /\ thread[g] = "none" <=> status[g] = "unknown"
  /\ thread[g] \in {"none", "start"} => call[g] = "none"
  /\ thread[g] \notin {"none", "done"} => status[g] \in Open
  /\ thread[g] = "drain" => status[g] = "canceling"
  /\ thread[g] \in {"report", "done"} => call[g] \notin Pending

\* The gripper executes one command at a time.
OneCommand ==
  \A g, h \in Goals : call[g] = "running" /\ call[h] = "running" => g = h

IInv == TypeOK /\ OneCommand /\ \A g \in Goals : GoalInv(g)

USE DEF Open, Terminal, Returned, Pending, Tasks

\* A goal whose call is pending has a thread that waits for it.
LEMMA PendingIsOpen ==
  ASSUME IInv, NEW g \in Goals, call[g] \in Pending
  PROVE  status[g] \in Open
BY DEF IInv, GoalInv, TypeOK

-----------------------------------------------------------------------------
(* The invariant                                                           *)

LEMMA InitInv == Init => IInv
BY FaultsAssumption DEF Init, IInv, OneCommand, GoalInv, TypeOK

\* What stop() leaves behind.
LEMMA HaltedInv ==
  ASSUME IInv
  PROVE  /\ Halted \in [Goals -> {"none", "queued", "running", "ok", "failed"}]
         /\ \A g \in Goals : /\ Halted[g] # "running"
                             /\ Halted[g] \in {call[g], "failed"}
                             /\ call[g] # "running" => Halted[g] = call[g]
BY DEF Halted, IInv, TypeOK

\* The steps of the executor.
LEMMA ExecutorInv ==
  ASSUME IInv,
         \/ stopServiceCallback \/ publishGripperState \/ Shutdown
         \/ \E g \in Goals : handleGoal(g) \/ handleCancel(g)
  PROVE  IInv'
<1>1. CASE stopServiceCallback
  BY <1>1, HaltedInv DEF stopServiceCallback, IInv, OneCommand, GoalInv, TypeOK
<1>2. CASE publishGripperState
  BY <1>2 DEF publishGripperState, IInv, OneCommand, GoalInv, TypeOK
<1>3. CASE Shutdown
  BY <1>3 DEF Shutdown, IInv, OneCommand, GoalInv, TypeOK
<1>4. ASSUME NEW g \in Goals, handleGoal(g) PROVE IInv'
  BY <1>4 DEF handleGoal, IInv, OneCommand, GoalInv, TypeOK
<1>5. ASSUME NEW g \in Goals, handleCancel(g) PROVE IInv'
  BY <1>5 DEF handleCancel, IInv, OneCommand, GoalInv, TypeOK
<1> QED BY <1>1, <1>2, <1>3, <1>4, <1>5

\* What a thread may choose.
LEMMA ChosenType ==
  ASSUME NEW g \in Goals
  PROVE  Chosen(g) \in {"refuse", "stay", "homing", "move", "grasp"}
BY TaskAssumption DEF Chosen, Decision

\* The steps of a goal's thread.
LEMMA ThreadInv ==
  ASSUME IInv, NEW g \in Goals,
         \/ Execute(g) \/ resultIsReady(g)
         \/ \E throws \in BOOLEAN : CheckCanceling(g, throws)
         \/ ReportCanceled(g) \/ ReportResult(g) \/ LeaveAfterShutdown(g)
  PROVE  IInv'
<1>1. CASE Execute(g)
  <2>1. command' \in [Goals -> {"none", "refuse", "stay", "homing", "move", "grasp"}]
    BY <1>1, ChosenType DEF Execute, IInv, TypeOK
  <2>2. CASE Chosen(g) = "refuse"
    BY <1>1, <2>1, <2>2 DEF Execute, IInv, OneCommand, GoalInv, TypeOK
  <2>3. CASE Chosen(g) = "stay"
    BY <1>1, <2>1, <2>3 DEF Execute, IInv, OneCommand, GoalInv, TypeOK
  <2>4. CASE Chosen(g) \notin {"refuse", "stay"}
    BY <1>1, <2>1, <2>4 DEF Execute, IInv, OneCommand, GoalInv, TypeOK
  <2> QED BY <2>2, <2>3, <2>4
<1>2. CASE resultIsReady(g)
  BY <1>2 DEF resultIsReady, IInv, OneCommand, GoalInv, TypeOK
<1>3. ASSUME NEW throws \in BOOLEAN, CheckCanceling(g, throws) PROVE IInv'
  <2>1. faults' \in 0 .. MaxFaults /\ node' \in {"up", "shutdown", "terminated"}
    BY <1>3, FaultsAssumption DEF CheckCanceling, IInv, TypeOK
  <2>2. CASE status[g] = "canceling" /\ ~throws
    BY <1>3, <2>1, <2>2, HaltedInv DEF CheckCanceling, IInv, OneCommand, GoalInv, TypeOK
  <2>3. CASE ~(status[g] = "canceling" /\ ~throws)
    BY <1>3, <2>1, <2>3 DEF CheckCanceling, IInv, OneCommand, GoalInv, TypeOK
  <2> QED BY <2>2, <2>3
<1>4. CASE ReportCanceled(g)
  BY <1>4 DEF ReportCanceled, IInv, OneCommand, GoalInv, TypeOK
<1>5. CASE ReportResult(g)
  BY <1>5 DEF ReportResult, IInv, OneCommand, GoalInv, TypeOK
<1>6. CASE LeaveAfterShutdown(g)
  BY <1>6 DEF LeaveAfterShutdown, IInv, OneCommand, GoalInv, TypeOK
<1> QED BY <1>1, <1>2, <1>3, <1>4, <1>5, <1>6

\* The steps of the call and of the gripper.
LEMMA CallInv ==
  ASSUME IInv, NEW g \in Goals,
         \/ CommandBegins(g)
         \/ \E w \in Widths : GripperMoves(g, w)
         \/ \E outcome \in Returned : CommandEnds(g, outcome)
  PROVE  IInv'
<1>1. CASE CommandBegins(g)
  <2>1. CASE call' = [Halted EXCEPT ![g] = "running"]
    BY <1>1, <2>1, HaltedInv DEF CommandBegins, IInv, OneCommand, GoalInv, TypeOK
  <2>2. CASE call' = [call EXCEPT ![g] = "failed"]
    BY <1>1, <2>2 DEF CommandBegins, IInv, OneCommand, GoalInv, TypeOK
  <2> QED BY <1>1, <2>1, <2>2 DEF CommandBegins
<1>2. ASSUME NEW w \in Widths, GripperMoves(g, w) PROVE IInv'
  BY <1>2 DEF GripperMoves, IInv, OneCommand, GoalInv, TypeOK
<1>3. ASSUME NEW outcome \in Returned, CommandEnds(g, outcome) PROVE IInv'
  BY <1>3 DEF CommandEnds, IInv, OneCommand, GoalInv, TypeOK
<1> QED BY <1>1, <1>2, <1>3

LEMMA NextInv == IInv /\ [Next]_vars => IInv'
<1> SUFFICES ASSUME IInv, [Next]_vars PROVE IInv'
  OBVIOUS
<1>1. CASE UNCHANGED vars
  BY <1>1 DEF vars, IInv, OneCommand, GoalInv, TypeOK
<1>2. CASE Next
  BY <1>2, ExecutorInv, ThreadInv, CallInv DEF Next
<1> QED BY <1>1, <1>2

LEMMA Invariance == Spec => []IInv
BY InitInv, NextInv, PTL DEF Spec

\* Every variable of the gripper node keeps its type.
THEOREM TypeCorrect == Spec => []TypeOK
<1>1. IInv => TypeOK
  BY DEF IInv
<1> QED BY <1>1, Invariance, PTL

\* The gripper never moves for a goal whose end was reported, whatever goals,
\* cancellations and stops are interleaved.
THEOREM NoMotionAfterEndAlways == Spec => []NoMotionAfterEnd
<1>1. IInv => NoMotionAfterEnd
  BY PendingIsOpen DEF NoMotionAfterEnd
<1> QED BY <1>1, Invariance, PTL

-----------------------------------------------------------------------------
(* The refinement                                                          *)

\* A step that leaves the calls alone, and one that changes one of them.
LEMMA MotionKept == call' = call => Motion' = Motion
BY DEF Motion

LEMMA MotionChanged ==
  ASSUME IInv, NEW g \in Goals, NEW c \in {"queued", "running", "ok", "failed"},
         call' = [call EXCEPT ![g] = c]
  PROVE  Motion' = [Motion EXCEPT ![g] = CASE c = "queued" -> "none"
                                           [] c = "running" -> "moving"
                                           [] c = "ok" -> "reached"
                                           [] c = "failed" -> "stopped"]
BY DEF Motion, IInv, TypeOK

\* stop() ends the motion under way, if there is one.
LEMMA HaltedStep ==
  ASSUME IInv, call' = Halted, UNCHANGED status
  PROVE  UNCHANGED <<status, Motion>> \/ \E g \in Goals : Promise!Stop(g)
<1>1. CASE \A g \in Goals : call[g] # "running"
  <2>1. call' = call
    BY <1>1 DEF Halted, IInv, TypeOK
  <2> QED BY <2>1, MotionKept
<1>2. ASSUME NEW g \in Goals, call[g] = "running"
      PROVE  Promise!Stop(g)
  <2>1. call' = [call EXCEPT ![g] = "failed"]
    BY <1>2 DEF Halted, IInv, OneCommand, TypeOK
  <2>2. Motion' = [Motion EXCEPT ![g] = "stopped"]
    BY <2>1, MotionChanged
  <2>3. Motion[g] = "moving"
    BY <1>2 DEF Motion
  <2>4. status[g] \in Open
    BY <1>2, PendingIsOpen
  <2> QED BY <2>2, <2>3, <2>4 DEF Promise!Stop, Promise!Open
<1> QED BY <1>1, <1>2

\* The steps of the executor.
LEMMA ExecutorStep ==
  ASSUME IInv,
         \/ stopServiceCallback \/ publishGripperState \/ Shutdown
         \/ \E g \in Goals : handleGoal(g) \/ handleCancel(g)
  PROVE  [Promise!Next]_<<status, Motion>>
<1>1. CASE stopServiceCallback
  BY <1>1, HaltedStep DEF stopServiceCallback, Promise!Next
<1>2. CASE publishGripperState \/ Shutdown
  BY <1>2, MotionKept DEF publishGripperState, Shutdown
<1>3. ASSUME NEW g \in Goals, handleGoal(g) PROVE Promise!Accept(g)
  BY <1>3, MotionKept DEF handleGoal, Promise!Accept
<1>4. ASSUME NEW g \in Goals, handleCancel(g) PROVE Promise!Cancel(g)
  BY <1>4, MotionKept DEF handleCancel, Promise!Cancel
<1> QED BY <1>1, <1>2, <1>3, <1>4 DEF Promise!Next

\* The steps of a goal's thread.
LEMMA ThreadStep ==
  ASSUME IInv, NEW g \in Goals,
         \/ Execute(g) \/ resultIsReady(g)
         \/ \E throws \in BOOLEAN : CheckCanceling(g, throws)
         \/ ReportCanceled(g) \/ ReportResult(g) \/ LeaveAfterShutdown(g)
  PROVE  [Promise!Next]_<<status, Motion>>
<1> USE DEF Promise!Open, Promise!Terminal
<1>1. CASE Execute(g)
  <2>1. call[g] = "none" /\ status[g] \in Open /\ Motion[g] = "none"
    BY <1>1 DEF Execute, IInv, GoalInv, Motion
  <2>2. CASE Chosen(g) = "refuse"
    <3>1. Promise!Report(g, "aborted")
      BY <1>1, <2>1, <2>2, MotionKept DEF Execute, Promise!Report
    <3> QED BY <3>1 DEF Promise!Next
  <2>3. CASE Chosen(g) = "stay"
    <3>1. Promise!Report(g, "succeeded")
      BY <1>1, <2>1, <2>3, MotionKept DEF Execute, Promise!Report
    <3> QED BY <3>1 DEF Promise!Next
  <2>4. CASE Chosen(g) \notin {"refuse", "stay"}
    <3>1. call' = [call EXCEPT ![g] = "queued"] /\ UNCHANGED status
      BY <1>1, <2>4 DEF Execute
    <3>2. Motion' = [Motion EXCEPT ![g] = "none"]
      BY <3>1, MotionChanged
    <3>3. Motion' = Motion
      BY <2>1, <3>2 DEF Motion
    <3> QED BY <3>1, <3>3
  <2> QED BY <2>2, <2>3, <2>4
<1>2. CASE resultIsReady(g) \/ LeaveAfterShutdown(g)
  BY <1>2, MotionKept DEF resultIsReady, LeaveAfterShutdown
<1>3. ASSUME NEW throws \in BOOLEAN, CheckCanceling(g, throws)
      PROVE  [Promise!Next]_<<status, Motion>>
  <2>1. UNCHANGED status /\ (call' = Halted \/ call' = call)
    BY <1>3 DEF CheckCanceling
  <2> QED BY <2>1, HaltedStep, MotionKept DEF Promise!Next
<1>4. CASE ReportCanceled(g)
  <2>1. Motion[g] # "moving" /\ status[g] = "canceling"
    BY <1>4 DEF ReportCanceled, IInv, GoalInv, Motion
  <2>2. Promise!Report(g, "canceled")
    BY <1>4, <2>1, MotionKept DEF ReportCanceled, Promise!Report
  <2> QED BY <2>2 DEF Promise!Next
<1>5. CASE ReportResult(g)
  <2>1. Motion[g] # "moving" /\ status[g] \in Open
    BY <1>5 DEF ReportResult, IInv, GoalInv, Motion, TypeOK
  <2>2. CASE node # "up"
    <3>1. UNCHANGED status
      BY <1>5, <2>2 DEF ReportResult, IInv, TypeOK
    <3> QED BY <1>5, <3>1, MotionKept DEF ReportResult
  <2>3. CASE node = "up"
    <3>1. CASE call[g] = "ok"
      <4>1. status' = [status EXCEPT ![g] = "succeeded"] /\ Motion[g] = "reached"
        BY <1>5, <2>3, <3>1 DEF ReportResult, Motion, IInv, TypeOK
      <4>2. Promise!Report(g, "succeeded")
        BY <1>5, <2>1, <4>1, MotionKept DEF ReportResult, Promise!Report
      <4> QED BY <4>2 DEF Promise!Next
    <3>2. CASE call[g] # "ok"
      <4>1. status' = [status EXCEPT ![g] = "aborted"] /\ Motion[g] # "reached"
        BY <1>5, <2>3, <3>2 DEF ReportResult, Motion, IInv, TypeOK
      <4>2. Promise!Report(g, "aborted")
        BY <1>5, <2>1, <4>1, MotionKept DEF ReportResult, Promise!Report
      <4> QED BY <4>2 DEF Promise!Next
    <3> QED BY <3>1, <3>2
  <2> QED BY <2>2, <2>3
<1> QED BY <1>1, <1>2, <1>3, <1>4, <1>5

\* The steps of the call and of the gripper.
LEMMA CallStep ==
  ASSUME IInv, NEW g \in Goals,
         \/ CommandBegins(g)
         \/ \E w \in Widths : GripperMoves(g, w)
         \/ \E outcome \in Returned : CommandEnds(g, outcome)
  PROVE  [Promise!Next]_<<status, Motion>>
<1> USE DEF Promise!Open
<1>1. CASE CommandBegins(g)
  <2>1. call[g] = "queued" /\ status[g] \in Open /\ Motion[g] = "none"
    BY <1>1, PendingIsOpen DEF CommandBegins, Motion
  <2>2. CASE call' = [Halted EXCEPT ![g] = "running"]
    <3>1. Motion' = [h \in Goals |-> IF h = g THEN "moving"
                                     ELSE IF Motion[h] = "moving" THEN "stopped"
                                     ELSE Motion[h]]
      BY <2>1, <2>2 DEF Halted, Motion, IInv, TypeOK
    <3>2. Promise!Begin(g)
      BY <1>1, <2>1, <3>1 DEF CommandBegins, Promise!Begin
    <3> QED BY <3>2 DEF Promise!Next
  <2>3. CASE call' = [call EXCEPT ![g] = "failed"]
    <3>1. Motion' = [Motion EXCEPT ![g] = "stopped"]
      BY <2>3, MotionChanged
    <3>2. Promise!Stop(g)
      BY <1>1, <2>1, <3>1 DEF CommandBegins, Promise!Stop
    <3> QED BY <3>2 DEF Promise!Next
  <2> QED BY <1>1, <2>2, <2>3 DEF CommandBegins
<1>2. ASSUME NEW w \in Widths, GripperMoves(g, w)
      PROVE  UNCHANGED <<status, Motion>>
  BY <1>2, MotionKept DEF GripperMoves
<1>3. ASSUME NEW outcome \in Returned, CommandEnds(g, outcome)
      PROVE  Promise!Reach(g) \/ Promise!Stop(g)
  <2>1. status[g] \in Open /\ Motion[g] = "moving"
    BY <1>3, PendingIsOpen DEF CommandEnds, Motion
  <2>2. CASE outcome = "ok"
    <3>1. Motion' = [Motion EXCEPT ![g] = "reached"]
      BY <1>3, <2>2, MotionChanged DEF CommandEnds
    <3> QED BY <1>3, <2>1, <3>1 DEF CommandEnds, Promise!Reach
  <2>3. CASE outcome = "failed"
    <3>1. Motion' = [Motion EXCEPT ![g] = "stopped"]
      BY <1>3, <2>3, MotionChanged DEF CommandEnds
    <3> QED BY <1>3, <2>1, <3>1 DEF CommandEnds, Promise!Stop
  <2> QED BY <2>2, <2>3
<1> QED BY <1>1, <1>2, <1>3 DEF Promise!Next

\* The node keeps the promise of ActionGoals: one motion at a time, each for
\* an open goal and over before the end of the goal is reported as it was.
THEOREM NodeImplementsActionGoals == Spec => ImplementsActionGoals
<1>1. Init => Promise!Init
  BY DEF Init, Motion, Promise!Init
<1>2. IInv /\ [Next]_vars => [Promise!Next]_<<status, Motion>>
  <2>1. ASSUME IInv, UNCHANGED vars PROVE UNCHANGED <<status, Motion>>
    BY <2>1, MotionKept DEF vars
  <2>2. ASSUME IInv, Next PROVE [Promise!Next]_<<status, Motion>>
    BY <2>2, ExecutorStep, ThreadStep, CallStep DEF Next
  <2> QED BY <2>1, <2>2
<1> QED BY <1>1, <1>2, Invariance, PTL DEF Spec, ImplementsActionGoals, Promise!Spec
=============================================================================
