------------------------ MODULE GripperActionServer ------------------------
(***************************************************************************)
(* franka_gripper::GripperActionServer: four action servers and a stop     *)
(* service on one gripper.                                                 *)
(*                                                                         *)
(* The node's executor is one thread: it accepts goals and cancellations,  *)
(* answers the stop service and runs the timer that caches the gripper's   *)
(* state.  Every goal has a detached thread, which hands the command to an *)
(* asynchronous call and waits for its result in a loop.  libfranka's      *)
(* gripper executes the call that reached it last.                         *)
(*                                                                         *)
(* rclcpp_action and libfranka are external and modelled as they are used: *)
(* a goal's status follows the calls on its handle, a command ends with    *)
(* success, without, or with an exception, and stop() makes the command    *)
(* under way fail.                                                         *)
(***************************************************************************)
EXTENDS Integers

CONSTANTS
  Goals,        \* the goals clients may send
  Task,         \* the action each goal is for
  Target,       \* the width a goal asks for
  MaxWidth,     \* widths are 0 .. MaxWidth
  Discipline,   \* the rules the clients keep
  MaxFaults     \* bound on the exceptions of stop()

Tasks == {"homing", "move", "grasp", "gripper_command"}

\* Rules clients may keep; the code does not enforce them.
Rules == {"waits_for_result"}   \* a goal is sent when the others have ended

ASSUME TaskAssumption   == Task \in [Goals -> Tasks]
ASSUME TargetAssumption == Target \in [Goals -> Int]
ASSUME WidthAssumption  == MaxWidth \in Nat
ASSUME FaultsAssumption == MaxFaults \in Nat

Widths == 0 .. MaxWidth

VARIABLES
  node,      \* the process: "up", "shutdown" or "terminated"
  status,    \* status of each goal's handle
  thread,    \* where each goal's thread is
  command,   \* the command the thread chose
  call,      \* the asynchronous call of the command
  width,     \* the width of the gripper
  cached,    \* current_gripper_state_.width
  stopped,   \* history: goals open when the stop service succeeded
  faults     \* exceptions so far

vars == <<node, status, thread, command, call, width, cached, stopped, faults>>

Open     == {"executing", "canceling"}
Terminal == {"succeeded", "aborted", "canceled"}

\* Every variable ranges over the values the code can give it.
TypeOK ==
  /\ node \in {"up", "shutdown", "terminated"}
  /\ status \in [Goals -> {"unknown"} \cup Open \cup Terminal]
  /\ thread \in [Goals -> {"none", "start", "wait", "check", "drain",
                           "report", "leave", "done"}]
  /\ command \in [Goals -> {"none", "refuse", "stay", "homing", "move", "grasp"}]
  /\ call \in [Goals -> {"none", "queued", "running", "ok", "failed"}]
  /\ width \in Widths /\ cached \in Widths
  /\ stopped \subseteq Goals
  /\ faults \in 0 .. MaxFaults

Returned == {"ok", "failed"}

Init ==
  /\ node = "up"
  /\ status = [g \in Goals |-> "unknown"]
  /\ thread = [g \in Goals |-> "none"]
  /\ command = [g \in Goals |-> "none"]
  /\ call = [g \in Goals |-> "none"]
  /\ width \in Widths
  /\ cached = width
  /\ stopped = {}
  /\ faults = 0

-----------------------------------------------------------------------------
(* The executor                                                            *)

\* handleGoal() accepts every goal, whatever the others do, and a thread is
\* started for it.
handleGoal(g) ==
  /\ node = "up"
  /\ status[g] = "unknown"
  /\ "waits_for_result" \in Discipline =>
       \A h \in Goals : status[h] \notin Open
  /\ status' = [status EXCEPT ![g] = "executing"]
  /\ thread' = [thread EXCEPT ![g] = "start"]
  /\ UNCHANGED <<node, command, call, width, cached, stopped, faults>>

\* handleCancel() accepts every cancellation; nothing else happens then.
handleCancel(g) ==
  /\ node = "up"
  /\ status[g] = "executing"
  /\ status' = [status EXCEPT ![g] = "canceling"]
  /\ UNCHANGED <<node, thread, command, call, width, cached, stopped, faults>>

\* gripper_->stop(): the command under way fails.
Halted == [g \in Goals |-> IF call[g] = "running" THEN "failed" ELSE call[g]]

\* stopServiceCallback() when stop() succeeds; when it throws, the answer says
\* so and nothing changes.
stopServiceCallback ==
  /\ node = "up"
  /\ call' = Halted
  /\ stopped' = stopped \cup {g \in Goals : /\ status[g] \in Open
                                            /\ call[g] \notin Returned}
  /\ UNCHANGED <<node, status, thread, command, width, cached, faults>>

\* A slip: the cache gets the sum of the finger positions twice.
publishGripperStateDoubled ==
  /\ node = "up"
  /\ cached' = 2 * width
  /\ UNCHANGED <<node, status, thread, command, call, width, stopped, faults>>

\* publishGripperState(), by the timer; a readOnce() that throws keeps the
\* cached state.
publishGripperState ==
  /\ node = "up"
  /\ cached' = width
  /\ UNCHANGED <<node, status, thread, command, call, width, stopped, faults>>

\* rclcpp is shut down: the executor spins no more.
Shutdown ==
  /\ node = "up"
  /\ node' = "shutdown"
  /\ UNCHANGED <<status, thread, command, call, width, cached, stopped, faults>>

-----------------------------------------------------------------------------
(* A goal's thread                                                         *)

\* onExecuteGripperCommand() decides on the cached state.
Decision(g) ==
  IF Target[g] > MaxWidth \/ Target[g] < 0 THEN "refuse"
  ELSE IF Target[g] = cached THEN "stay"
  ELSE IF Target[g] >= cached THEN "move" ELSE "grasp"

\* The other tasks are commands of the gripper.
Chosen(g) == IF Task[g] = "gripper_command" THEN Decision(g) ELSE Task[g]

\* A goal that is refused or already reached ends at once; for the others the
\* command is handed to std::async.
Execute(g) ==
  /\ node # "terminated"
  /\ thread[g] = "start"
  /\ command' = [command EXCEPT ![g] = Chosen(g)]
  /\ CASE Chosen(g) = "refuse" ->
            /\ status' = [status EXCEPT ![g] = "aborted"]
            /\ thread' = [thread EXCEPT ![g] = "done"]
            /\ UNCHANGED call
       [] Chosen(g) = "stay" ->
            /\ status' = [status EXCEPT ![g] = "succeeded"]
            /\ thread' = [thread EXCEPT ![g] = "done"]
            /\ UNCHANGED call
       [] OTHER ->
            /\ call' = [call EXCEPT ![g] = "queued"]
            /\ thread' = [thread EXCEPT ![g] = "wait"]
            /\ UNCHANGED status
  /\ UNCHANGED <<node, width, cached, stopped, faults>>

\* The wait for the result ends, with the result or by its timeout; the loop
\* goes on while rclcpp is up.
resultIsReady(g) ==
  /\ node # "terminated"
  /\ thread[g] = "wait"
  /\ thread' = [thread EXCEPT ![g] = IF call[g] \in Returned THEN "report"
                                     ELSE IF node = "up" THEN "check"
                                     ELSE "leave"]
  /\ UNCHANGED <<node, status, command, call, width, cached, stopped, faults>>

\* In the loop: a cancelled goal stops the gripper, and the process ends when
\* stop() throws; another goal publishes feedback.
CheckCanceling(g, throws) ==
  /\ node # "terminated"
  /\ thread[g] = "check"
  /\ throws => status[g] = "canceling"
  /\ faults' = IF throws THEN faults + 1 ELSE faults
  /\ faults' <= MaxFaults
  /\ node' = IF throws THEN "terminated" ELSE node
  /\ IF status[g] = "canceling" /\ ~throws
     THEN /\ call' = Halted
          /\ thread' = [thread EXCEPT ![g] = "drain"]
     ELSE /\ UNCHANGED call
          /\ thread' = [thread EXCEPT ![g] = IF throws THEN @ ELSE "wait"]
  /\ UNCHANGED <<status, command, width, cached, stopped>>

\* A slip: the cancelled goal is reported before its call has returned.
ReportCanceledAtOnce(g) ==
  /\ node # "terminated"
  /\ thread[g] = "drain"
  /\ status' = [status EXCEPT ![g] = "canceled"]
  /\ thread' = [thread EXCEPT ![g] = "done"]
  /\ UNCHANGED <<node, command, call, width, cached, stopped, faults>>

\* result_future.get() of a cancelled goal, and canceled().
ReportCanceled(g) ==
  /\ node # "terminated"
  /\ thread[g] = "drain"
  /\ call[g] \in Returned
  /\ status' = [status EXCEPT ![g] = "canceled"]
  /\ thread' = [thread EXCEPT ![g] = "done"]
  /\ UNCHANGED <<node, command, call, width, cached, stopped, faults>>

\* Slips: a failure is reported as a cancellation, or not at all.
ReportFailureAsCanceled(g) ==
  /\ node # "terminated"
  /\ thread[g] = "report"
  /\ status' = [status EXCEPT ![g] = IF call[g] = "ok" THEN "succeeded"
                                     ELSE "canceled"]
  /\ thread' = [thread EXCEPT ![g] = "done"]
  /\ UNCHANGED <<node, command, call, width, cached, stopped, faults>>

ReportSuccessOnly(g) ==
  /\ node # "terminated"
  /\ thread[g] = "report"
  /\ status' = [status EXCEPT ![g] = IF call[g] = "ok" THEN "succeeded" ELSE @]
  /\ thread' = [thread EXCEPT ![g] = "done"]
  /\ UNCHANGED <<node, command, call, width, cached, stopped, faults>>

\* succeed() or abort(), unless rclcpp was shut down in the meantime.
ReportResult(g) ==
  /\ node # "terminated"
  /\ thread[g] = "report"
  /\ status' = [status EXCEPT
       ![g] = IF node # "up" THEN @
              ELSE IF call[g] = "ok" THEN "succeeded" ELSE "aborted"]
  /\ thread' = [thread EXCEPT ![g] = "done"]
  /\ UNCHANGED <<node, command, call, width, cached, stopped, faults>>

\* After a shutdown the future's destructor waits for the call.
LeaveAfterShutdown(g) ==
  /\ node # "terminated"
  /\ thread[g] = "leave"
  /\ call[g] \in Returned
  /\ thread' = [thread EXCEPT ![g] = "done"]
  /\ UNCHANGED <<node, status, command, call, width, cached, stopped, faults>>

-----------------------------------------------------------------------------
(* The asynchronous call and the gripper                                   *)

\* The command reaches the gripper, where it replaces the one under way or
\* is turned down in favour of it.
CommandBegins(g) ==
  /\ node # "terminated"
  /\ call[g] = "queued"
  /\ \/ call' = [Halted EXCEPT ![g] = "running"]
     \/ /\ \E h \in Goals : call[h] = "running"
        /\ call' = [call EXCEPT ![g] = "failed"]
  /\ UNCHANGED <<node, status, thread, command, width, cached, stopped, faults>>

GripperMoves(g, w) ==
  /\ call[g] = "running"
  /\ width' = w
  /\ UNCHANGED <<node, status, thread, command, call, cached, stopped, faults>>

\* A move succeeds at its target, the others wherever the gripper is.
CommandEnds(g, outcome) ==
  /\ node # "terminated"
  /\ call[g] = "running"
  /\ outcome = "ok" /\ command[g] = "move" => width = Target[g]
  /\ call' = [call EXCEPT ![g] = outcome]
  /\ UNCHANGED <<node, status, thread, command, width, cached, stopped, faults>>

-----------------------------------------------------------------------------
Next ==
  \/ stopServiceCallback
  \/ publishGripperState
  \/ Shutdown
  \/ \E g \in Goals :
       \/ handleGoal(g)
       \/ handleCancel(g)
       \/ Execute(g)
       \/ resultIsReady(g)
       \/ \E throws \in BOOLEAN : CheckCanceling(g, throws)
       \/ ReportCanceled(g)
       \/ ReportResult(g)
       \/ LeaveAfterShutdown(g)
       \/ CommandBegins(g)
       \/ \E w \in Widths : GripperMoves(g, w)
       \/ \E outcome \in Returned : CommandEnds(g, outcome)

Spec == Init /\ [][Next]_vars

\* The goals' threads run on, and every command of the gripper ends: at its
\* target, at an object, or by the gripper's own time limit.  Nothing is
\* assumed of the clients.
ServerFairness ==
  \A g \in Goals :
    /\ WF_vars(Execute(g))
    /\ WF_vars(resultIsReady(g))
    /\ WF_vars(CheckCanceling(g, FALSE))
    /\ WF_vars(ReportCanceled(g))
    /\ WF_vars(ReportResult(g))
    /\ WF_vars(LeaveAfterShutdown(g))
    /\ WF_vars(CommandBegins(g))
    /\ WF_vars(\E outcome \in Returned : CommandEnds(g, outcome))

FairSpec == Spec /\ ServerFairness

-----------------------------------------------------------------------------
(* Properties                                                              *)

\* The gripper never moves for a goal whose end was reported: what the client
\* takes for the result is not changed behind its back.
NoMotionAfterEnd ==
  \A g \in Goals : call[g] \in {"queued", "running"} => status[g] \in Open

\* The node keeps the promise of ActionGoals; a call that was not handed to
\* the gripper yet is no motion.
Motion ==
  [g \in Goals |-> CASE call[g] \in {"none", "queued"} -> "none"
                     [] call[g] = "running" -> "moving"
                     [] call[g] = "ok" -> "reached"
                     [] call[g] = "failed" -> "stopped"]

Promise == INSTANCE ActionGoals WITH motion <- Motion

ImplementsActionGoals == Promise!Spec

\* The thread of every goal that was accepted ends, after the goal did unless
\* the node was shut down: a client hears of its goal, and a shutdown leaves no
\* thread behind.
EveryGoalEnds ==
  \A g \in Goals :
    thread[g] = "start"
      ~> \/ thread[g] = "done" /\ (status[g] \in Terminal \/ node # "up")
         \/ node = "terminated"

\* "There is a stop service that aborts gripper actions": a goal that was open
\* when the service reported success does not succeed afterwards.
StopAborts ==
  \A g \in stopped : status[g] # "succeeded"
=============================================================================
