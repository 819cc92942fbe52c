---------------------------- MODULE RobotServices ----------------------------
(***************************************************************************)
(* What the hardware component runs beside the control loop: the executor  *)
(* (franka_executor.cpp) with the node of the parameter services           *)
(* (franka_param_service_server.cpp) and the node of the error recovery    *)
(* action (franka_action_server.cpp), and the robot calls both end in      *)
(* (robot.cpp).                                                            *)
(*                                                                         *)
(* The executor has several threads.  A node's callbacks exclude each      *)
(* other, the callbacks of different nodes do not: a setter holds          *)
(* write_mutex_ during its call, a recovery holds nothing.                 *)
(***************************************************************************)
EXTENDS Naturals, Sequences

CONSTANTS
  Clients,    \* who calls services and sends recovery goals
  Setters     \* the parameter services, "set_full_collision_behavior" and others

Recovery == "error_recovery"
Services == Setters \cup {Recovery}

NodeOf(s) == IF s = Recovery THEN "action_server" ELSE "service_server"
Nodes == {"action_server", "service_server"}

NoRequest == "none"
NoAnswer == "none"
Nobody == "nobody"

\* Both exceptions libfranka may throw are caught and end in a failure.
Results == {"success", "failure"}

VARIABLES
  ok,         \* rclcpp::ok(): nobody has shut the process down
  owner,      \* the hardware component's use of FrankaExecutor
  executor,   \* spin() in executor_spin_
  request,    \* request[c]: what c has sent and is not answered
  worker,     \* worker[n]: whose request node n's callback works on
  stage,      \* stage[n]: where that callback is
  writeLock,  \* who holds write_mutex_
  answer      \* answer[c]: response->success, or how the goal ended

serviceVars == <<ok, owner, executor, request, worker, stage, writeLock, answer>>

ServicesTypeOK ==
  /\ ok \in BOOLEAN
  /\ owner \in {"none", "waiting", "running", "joining", "gone"}
  /\ executor \in {"none", "starting", "spinning", "cancelled", "stopped"}
  /\ request \in [Clients -> Services \cup {NoRequest}]
  /\ worker \in [Nodes -> Clients \cup {Nobody}]
  /\ stage \in [Nodes -> {"idle", "lock", "robot"}]
  /\ writeLock \in Nodes \cup {Nobody}
  /\ answer \in [Clients -> {NoAnswer} \cup Results]

ServicesInit ==
  /\ ok = TRUE
  /\ owner = "none" /\ executor = "none"
  /\ request = [c \in Clients |-> NoRequest]
  /\ worker = [n \in Nodes |-> Nobody]
  /\ stage = [n \in Nodes |-> "idle"]
  /\ writeLock = Nobody
  /\ answer = [c \in Clients |-> NoAnswer]

-----------------------------------------------------------------------------
(* FrankaExecutor.                                                          *)

\* on_init() of the hardware component makes the executor, whose thread is
\* started first; the constructor then waits for it.
MakeExecutor ==
  /\ ok /\ owner = "none"
  /\ owner' = "waiting" /\ executor' = "starting"
  /\ UNCHANGED <<ok, request, worker, stage, writeLock, answer>>

\* run(): spin() raises the flag spinning.
ExecutorSpins ==
  /\ executor = "starting"
  /\ executor' = "spinning"
  /\ UNCHANGED <<ok, owner, request, worker, stage, writeLock, answer>>

\* A mutant of ConstructorReturns: the constructor does not wait for the thread.
ConstructorReturnsEarly ==
  /\ owner = "waiting" /\ executor \in {"starting", "spinning"}
  /\ owner' = "running"
  /\ UNCHANGED <<ok, executor, request, worker, stage, writeLock, answer>>

\* The constructor returns and the two nodes are added.
ConstructorReturns ==
  /\ owner = "waiting" /\ executor = "spinning"
  /\ owner' = "running"
  /\ UNCHANGED <<ok, executor, request, worker, stage, writeLock, answer>>

\* The destructor: shutdown() cancels an executor that spins, join() follows.
DestroyExecutor ==
  /\ owner = "running"
  /\ owner' = "joining"
  /\ executor' = IF executor = "spinning" THEN "cancelled" ELSE executor
  /\ UNCHANGED <<ok, request, worker, stage, writeLock, answer>>

\* rclcpp::shutdown(), which a signal calls.
Shutdown ==
  /\ ok
  /\ ok' = FALSE
  /\ UNCHANGED <<owner, executor, request, worker, stage, writeLock, answer>>

\* spin() ends after a shutdown as it does when it is cancelled.
ExecutorInterrupted ==
  /\ ~ok /\ executor = "spinning"
  /\ executor' = "cancelled"
  /\ UNCHANGED <<ok, owner, request, worker, stage, writeLock, answer>>

\* A cancelled executor ends once its callbacks have returned.
ExecutorEnds ==
  /\ executor = "cancelled" /\ \A n \in Nodes : worker[n] = Nobody
  /\ executor' = "stopped"
  /\ UNCHANGED <<ok, owner, request, worker, stage, writeLock, answer>>

JoinReturns ==
  /\ owner = "joining" /\ executor = "stopped"
  /\ owner' = "gone"
  /\ UNCHANGED <<ok, executor, request, worker, stage, writeLock, answer>>

-----------------------------------------------------------------------------
(* Requests and the callbacks that serve them.                              *)

Send(c, s) ==
  /\ request[c] = NoRequest
  /\ request' = [request EXCEPT ![c] = s]
  /\ answer' = [answer EXCEPT ![c] = NoAnswer]

\* A thread of the executor takes up a request for a node that is free.
TakeUp(c) ==
  LET n == NodeOf(request[c]) IN
  /\ owner = "running" /\ executor = "spinning"
  /\ request[c] # NoRequest /\ \A m \in Nodes : worker[m] # c
  /\ worker[n] = Nobody
  /\ worker' = [worker EXCEPT ![n] = c]
  /\ stage' = [stage EXCEPT ![n] = IF request[c] = Recovery THEN "robot" ELSE "lock"]
  /\ UNCHANGED <<ok, owner, executor, request, writeLock, answer>>

\* A setter of Robot takes write_mutex_ for the whole call.
LockWrites(n) ==
  /\ stage[n] = "lock" /\ writeLock = Nobody
  /\ writeLock' = n
  /\ stage' = [stage EXCEPT ![n] = "robot"]
  /\ UNCHANGED <<ok, owner, executor, request, worker, answer>>

\* A mutant of Reply(n, result): an exception leaves the response unsent.
ReplyNothing(n, result) ==
  LET c == worker[n] IN
  /\ worker' = [worker EXCEPT ![n] = Nobody]
  /\ stage' = [stage EXCEPT ![n] = "idle"]
  /\ request' = [request EXCEPT ![c] = NoRequest]
  /\ answer' = IF result = "failure" THEN answer ELSE [answer EXCEPT ![c] = result]

\* The callback of node n ends with the given answer.
Reply(n, result) ==
  LET c == worker[n] IN
  /\ worker' = [worker EXCEPT ![n] = Nobody]
  /\ stage' = [stage EXCEPT ![n] = "idle"]
  /\ request' = [request EXCEPT ![c] = NoRequest]
  /\ answer' = [answer EXCEPT ![c] = result]

\* setGenericRobotParam(): the robot accepts the parameters, or libfranka
\* throws one of its two exceptions and the answer says so.
SetParameter(n, result) ==
  /\ stage[n] = "robot" /\ request[worker[n]] \in Setters
  /\ Reply(n, result)
  /\ writeLock' = Nobody
  /\ UNCHANGED <<ok, owner, executor>>

\* errorRecoveryAction(): the goal succeeds or is aborted.
Recover(n, result) ==
  /\ stage[n] = "robot" /\ request[worker[n]] = Recovery
  /\ Reply(n, result)
  /\ UNCHANGED <<ok, owner, executor, writeLock>>

ServeNext ==
  \/ ExecutorSpins \/ ConstructorReturns
  \/ \E c \in Clients : TakeUp(c)
  \/ \E n \in Nodes : LockWrites(n)
  \/ \E n \in Nodes, r \in Results : SetParameter(n, r) \/ Recover(n, r)
  \/ ExecutorInterrupted \/ ExecutorEnds \/ JoinReturns

-----------------------------------------------------------------------------

\* Destroying the executor returns: its constructor did not return before the
\* thread was spinning, so that the destructor can cancel it before it joins,
\* and the callbacks under way end (FrankaExecutor).
DestructorReturns == (owner = "joining") ~> (owner = "gone")
=============================================================================
