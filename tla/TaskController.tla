--------------------------- MODULE TaskController ---------------------------
(***************************************************************************)
(* MoveCatersianImpWithGripper: a controller that takes the arm through    *)
(* pick and place tasks and asks the gripper's action server to open and   *)
(* to grasp.                                                               *)
(*                                                                         *)
(* Two threads share atomics.  The control loop runs update(), and the     *)
(* lifecycle callbacks between two updates; it raises requests.  The       *)
(* executor runs, one at a time, the subscription of /task_cmd, a timer    *)
(* that turns requests into goals, and the callbacks of their results.     *)
(*                                                                         *)
(* The gripper is ActionGoals, which GripperActionServer implements and    *)
(* which accepts every goal.  Left out: the control law, the log, and the  *)
(* flags that are written and never read (what was sent, what is active,   *)
(* the result of opening).  The controller manager is external: it         *)
(* configures, activates and deactivates in any legal order.               *)
(***************************************************************************)
EXTENDS Integers, Sequences, FiniteSets

CONSTANTS
  WarmUp,           \* is there a warm-up (warmup_seconds_ > 0.2)?
  MaxActivations,   \* bound on the activations
  MaxGoals,         \* bound on the goals sent
  Discipline        \* the rules its surroundings keep

\* Rules the surroundings may keep; the code enforces none of them.
Rules == {"server_up",      \* the gripper's servers are available
          "timer_in_time",  \* a request is taken before the grasp is overdue
          "settles_first",  \* no deactivation while a request or a goal is open
          "configured",     \* each activation follows a configuration
          "hand_in_order"}  \* the gripper begins goals as they were sent

ASSUME WarmUpAssumption      == WarmUp \in BOOLEAN
ASSUME ActivationsAssumption == MaxActivations \in Nat
ASSUME GoalsAssumption       == MaxGoals \in Nat

\* The task that must have ended before each task.
Before == [MOVE_POSE_1 |-> "NONE", GRASP |-> "MOVE_POSE_1",
           MOVE_POSE_2 |-> "GRASP", RUN_RL |-> "MOVE_POSE_2"]

Tasks    == DOMAIN Before
Moves    == {"MOVE_POSE_1", "MOVE_POSE_2"}
Commands == Tasks \cup {"NONE"}   \* NONE is also what opens, closes and stops
Kinds    == {"move", "grasp"}
Ids      == 1 .. MaxGoals

VARIABLES
  life, timers,          \* lifecycle state; do the timers exist?
  activation,            \* history: activations so far
  cmd, last,             \* task_cmd_, last_cmd_
  finished,              \* the tasks t whose flag t_finished_ is true
  ended,                 \* history: the tasks that ended in this activation
  warmup,                \* progress of the warm-up
  overdue,               \* elapsed_time_ > move_duration_grasp_
  rt,                    \* where update() is
  exec,                  \* where the executor is
  requests,              \* the kinds k whose request_send_k_ is true
  done, success, reported,   \* grasp_action_done_ and so on
  asked,                 \* history: requests raised, per kind
  sent,                  \* the goals sent, with kind and activation
  awaited,               \* grasp goals whose result has not arrived
  status, motion         \* the goals at the gripper

loop      == <<life, timers, activation, last, finished, ended, warmup, overdue, rt>>
handshake == <<done, success, reported>>
hand      == <<status, motion>>
goals     == <<sent, awaited, status, motion>>
vars      == <<loop, cmd, exec, requests, handshake, asked, goals>>

Hand == INSTANCE ActionGoals WITH Goals <- Ids

\* Every variable ranges over the values the code can give it.
TypeOK ==
  /\ life \in {"unconfigured", "inactive", "active"}
  /\ timers \in BOOLEAN /\ activation \in 0 .. MaxActivations
  /\ cmd \in Commands /\ last \in Tasks \cup {"NONE"}
  /\ finished \subseteq Tasks /\ ended \subseteq Tasks
  /\ warmup \in {"holding", "asked", "over"} /\ overdue \in BOOLEAN
  /\ rt \in {"idle", "entering", "working", "judging"}
  /\ exec \in {"idle", "send_move", "send_grasp", "store_success", "store_failure"}
  /\ requests \subseteq Kinds
  /\ done \in BOOLEAN /\ success \in BOOLEAN /\ reported \in BOOLEAN
  /\ asked \in [Kinds -> Nat]
  /\ sent \in Seq([kind : Kinds, activation : 1 .. MaxActivations])
  /\ Len(sent) <= MaxGoals
  /\ awaited \subseteq 1 .. Len(sent)
  /\ Hand!TypeOK

Init ==
  /\ life = "unconfigured" /\ timers = FALSE /\ activation = 0
  /\ cmd = "NONE" /\ last = "NONE"
  /\ finished = Tasks /\ ended = {}
  /\ warmup = "holding" /\ overdue = FALSE
  /\ rt = "idle" /\ exec = "idle"
  /\ requests = {}
  /\ done = FALSE /\ success = FALSE /\ reported = FALSE
  /\ asked = [k \in Kinds |-> 0]
  /\ sent = <<>> /\ awaited = {}
  /\ Hand!Init

-----------------------------------------------------------------------------
(* Lifecycle                                                               *)

\* on_configure() creates the timers and the subscription.
on_configure ==
  /\ life = "unconfigured"
  /\ life' = "inactive" /\ timers' = TRUE
  /\ UNCHANGED <<activation, last, finished, ended, warmup, overdue, rt,
                 cmd, exec, requests, handshake, asked, goals>>

\* The base class's on_cleanup() undoes nothing.
on_cleanup ==
  /\ life = "inactive"
  /\ life' = "unconfigured"
  /\ UNCHANGED <<timers, activation, last, finished, ended, warmup, overdue, rt,
                 cmd, exec, requests, handshake, asked, goals>>

\* on_activate() forgets the task and the request to open, nothing else.
on_activate ==
  /\ life = "inactive"
  /\ activation < MaxActivations
  /\ "configured" \in Discipline => timers
  /\ life' = "active"
  /\ activation' = activation + 1
  /\ cmd' = "NONE" /\ last' = "NONE"
  /\ ended' = {}
  /\ warmup' = IF WarmUp THEN "holding" ELSE "over"
  /\ requests' = requests \ {"move"}
  /\ UNCHANGED <<timers, finished, overdue, rt, exec, handshake, asked, goals>>

Settled ==
  /\ requests = {} /\ exec = "idle" /\ awaited = {}
  /\ \A g \in Ids : status[g] \notin Hand!Open

\* on_deactivate() destroys the timers.
on_deactivate ==
  /\ life = "active"
  /\ rt = "idle"
  /\ "settles_first" \in Discipline => Settled
  /\ life' = "inactive" /\ timers' = FALSE
  /\ UNCHANGED <<activation, last, finished, ended, warmup, overdue, rt,
                 cmd, exec, requests, handshake, asked, goals>>

-----------------------------------------------------------------------------
(* update()                                                                *)

\* A slip: GRASP does not lock.
LockedInMotion == last \in Moves /\ last \notin finished

Locked == last # "NONE" /\ last \notin finished

\* A task is entered on a command for it, after the task before it.
Effective ==
  IF /\ ~Locked
     /\ cmd \in Tasks
     /\ last = Before[cmd]
  THEN cmd ELSE last

\* The gate and lock at the head of update().  Entering GRASP raises the
\* request first and resets the flags of the handshake after it.
SelectTask ==
  /\ life = "active" /\ rt = "idle"
  /\ last' = Effective
  /\ IF Effective # last
     THEN /\ finished' = finished \ {last'}
          /\ overdue' = FALSE
          /\ requests' = IF last' = "GRASP" THEN requests \cup {"grasp"} ELSE requests
          /\ asked' = IF last' = "GRASP" THEN [asked EXCEPT !["grasp"] = @ + 1] ELSE asked
          /\ rt' = IF last' = "GRASP" THEN "entering" ELSE "working"
     ELSE rt' = "working" /\ UNCHANGED <<finished, overdue, requests, asked>>
  /\ UNCHANGED <<life, timers, activation, ended, warmup, cmd, exec,
                 handshake, goals>>

\* Slips: the result of an earlier goal stays, or the request goes as well.
ResetHandshakeKeepingResult ==
  /\ rt = "entering"
  /\ reported' = FALSE
  /\ rt' = "working"
  /\ UNCHANGED <<life, timers, activation, last, finished, ended, warmup, overdue,
                 cmd, exec, requests, done, success, asked, goals>>

ResetHandshakeAndRequest ==
  /\ rt = "entering"
  /\ done' = FALSE /\ success' = FALSE /\ reported' = FALSE
  /\ requests' = requests \ {"grasp"}
  /\ rt' = "working"
  /\ UNCHANGED <<life, timers, activation, last, finished, ended, warmup, overdue,
                 cmd, exec, asked, goals>>

ResetHandshake ==
  /\ rt = "entering"
  /\ done' = FALSE /\ success' = FALSE /\ reported' = FALSE
  /\ rt' = "working"
  /\ UNCHANGED <<life, timers, activation, last, finished, ended, warmup, overdue,
                 cmd, exec, requests, asked, goals>>

\* A cycle of the warm-up, which asks once for the gripper to open.
WarmUpCycle(next) ==
  /\ rt = "working"
  /\ <<warmup, next>> \in {<<"holding", "holding">>, <<"holding", "asked">>,
                           <<"asked", "asked">>, <<"asked", "over">>}
  /\ warmup' = next
  /\ IF warmup = "holding" /\ next = "asked"
     THEN /\ requests' = requests \cup {"move"}
          /\ asked' = [asked EXCEPT !["move"] = @ + 1]
     ELSE UNCHANGED <<requests, asked>>
  /\ rt' = "idle"
  /\ UNCHANGED <<life, timers, activation, last, finished, ended, overdue,
                 cmd, exec, handshake, goals>>

End(task) ==
  /\ finished' = finished \cup {task}
  /\ ended' = ended \cup {task}

\* A motion of the arm ends near its target or when its time is over.
MoveArm(ends) ==
  /\ rt = "working" /\ warmup = "over"
  /\ last \in Moves /\ last \notin finished
  /\ IF ends THEN End(last) ELSE UNCHANGED <<finished, ended>>
  /\ rt' = "idle"
  /\ UNCHANGED <<life, timers, activation, last, warmup, overdue,
                 cmd, exec, requests, handshake, asked, goals>>

\* GRASP waits for the result, or until it is overdue when there is none.
AwaitGrasp(late) ==
  /\ rt = "working" /\ warmup = "over"
  /\ last = "GRASP" /\ last \notin finished
  /\ overdue => late
  /\ "timer_in_time" \in Discipline /\ late =>
       "grasp" \notin requests /\ exec # "send_grasp"
  /\ overdue' = late
  /\ rt' = IF done THEN "judging" ELSE "idle"
  /\ IF ~done /\ late THEN End("GRASP") ELSE UNCHANGED <<finished, ended>>
  /\ UNCHANGED <<life, timers, activation, last, warmup,
                 cmd, exec, requests, handshake, asked, goals>>

\* A slip: a grasp that failed never ends.
JudgeGraspSuccessOnly ==
  /\ rt = "judging"
  /\ rt' = "idle"
  /\ reported' = TRUE
  /\ IF success THEN End("GRASP") ELSE UNCHANGED <<finished, ended>>
  /\ UNCHANGED <<life, timers, activation, last, warmup, overdue,
                 cmd, exec, requests, done, success, asked, goals>>

\* With a result: a success ends the task, a failure when it is overdue.
JudgeGrasp ==
  /\ rt = "judging"
  /\ rt' = "idle"
  /\ reported' = TRUE
  /\ IF success \/ (reported /\ overdue)
     THEN End("GRASP") ELSE UNCHANGED <<finished, ended>>
  /\ UNCHANGED <<life, timers, activation, last, warmup, overdue,
                 cmd, exec, requests, done, success, asked, goals>>

\* No task to work on, or the state could not be read.
SkipCycle ==
  /\ rt = "working"
  /\ rt' = "idle"
  /\ UNCHANGED <<life, timers, activation, last, finished, ended, warmup, overdue,
                 cmd, exec, requests, handshake, asked, goals>>

-----------------------------------------------------------------------------
(* The executor                                                            *)

\* A slip: save_log does not return before the command is stored.
TaskCommandStoringSave(c) ==
  /\ cmd' \in {c, "SAVE_LOG"}
  /\ UNCHANGED <<loop, exec, requests, handshake, asked, goals>>

\* The subscription of /task_cmd latches the command; save_log only saves.
TaskCommand(c) ==
  /\ cmd' = c
  /\ UNCHANGED <<loop, exec, requests, handshake, asked, goals>>

\* A slip: the request is read and stays raised.
GripperTimerReading ==
  /\ timers /\ exec = "idle"
  /\ requests # {}
  /\ exec' = IF "move" \in requests THEN "send_move" ELSE "send_grasp"
  /\ UNCHANGED <<loop, cmd, requests, handshake, asked, goals>>

\* A slip: the request to grasp is looked at first.
GripperTimerGraspFirst ==
  /\ timers /\ exec = "idle"
  /\ \/ /\ "grasp" \in requests
        /\ requests' = requests \ {"grasp"} /\ exec' = "send_grasp"
     \/ /\ requests = {"move"}
        /\ requests' = {} /\ exec' = "send_move"
  /\ UNCHANGED <<loop, cmd, handshake, asked, goals>>

\* The gripper's timer takes one request, to open before to grasp.
GripperTimer ==
  /\ timers /\ exec = "idle"
  /\ \/ /\ "move" \in requests
        /\ requests' = requests \ {"move"} /\ exec' = "send_move"
     \/ /\ requests = {"grasp"}
        /\ requests' = {} /\ exec' = "send_grasp"
  /\ UNCHANGED <<loop, cmd, handshake, asked, goals>>

Sending == IF exec = "send_move" THEN "move" ELSE "grasp"

\* The action server is not available: the request is raised again.
ServerUnavailable ==
  /\ "server_up" \notin Discipline
  /\ exec \in {"send_move", "send_grasp"}
  /\ requests' = requests \cup {Sending}
  /\ exec' = "idle"
  /\ UNCHANGED <<loop, cmd, handshake, asked, goals>>

\* The goal is sent, and accepted by the gripper.
SendGoal ==
  /\ exec \in {"send_move", "send_grasp"}
  /\ Len(sent) < MaxGoals
  /\ sent' = Append(sent, [kind |-> Sending, activation |-> activation])
  /\ Hand!Accept(Len(sent'))
  /\ IF Sending = "grasp"
     THEN /\ done' = FALSE /\ success' = FALSE /\ reported' = FALSE
          /\ awaited' = awaited \cup {Len(sent')}
     ELSE UNCHANGED <<handshake, awaited>>
  /\ exec' = "idle"
  /\ UNCHANGED <<loop, cmd, requests, asked>>

\* The result callback of a grasp stores that it is done ...
ResultArrives(g) ==
  /\ exec = "idle"
  /\ g \in awaited
  /\ status[g] \in Hand!Terminal
  /\ done' = TRUE
  /\ exec' = IF status[g] = "succeeded" THEN "store_success" ELSE "store_failure"
  /\ awaited' = awaited \ {g}
  /\ UNCHANGED <<loop, cmd, requests, success, reported, asked, sent, hand>>

\* ... and then whether it succeeded.
StoreSuccess ==
  /\ exec \in {"store_success", "store_failure"}
  /\ success' = (exec = "store_success")
  /\ exec' = "idle"
  /\ UNCHANGED <<loop, cmd, requests, done, reported, asked, goals>>

-----------------------------------------------------------------------------
(* The gripper                                                             *)

\* Nobody cancels the controller's goals, and neither opening nor grasping
\* succeeds without a motion.
HandStep(g) ==
  /\ g \in 1 .. Len(sent)
  /\ \/ /\ Hand!Begin(g)
        /\ "hand_in_order" \in Discipline =>
             \A h \in 1 .. g - 1 : motion[h] # "none"
     \/ Hand!Reach(g)
     \/ Hand!Stop(g)
     \/ Hand!Report(g, "aborted")
     \/ motion[g] = "reached" /\ Hand!Report(g, "succeeded")
  /\ UNCHANGED <<loop, cmd, exec, requests, handshake, asked, sent, awaited>>

-----------------------------------------------------------------------------
Next ==
  \/ on_configure \/ on_cleanup \/ on_activate \/ on_deactivate
  \/ SelectTask
  \/ ResetHandshake
  \/ \E next \in {"holding", "asked", "over"} : WarmUpCycle(next)
  \/ \E ends \in BOOLEAN : MoveArm(ends)
  \/ \E late \in BOOLEAN : AwaitGrasp(late)
  \/ JudgeGrasp
  \/ SkipCycle
  \/ \E c \in Commands : TaskCommand(c)
  \/ GripperTimer
  \/ ServerUnavailable
  \/ SendGoal
  \/ StoreSuccess
  \/ \E g \in Ids : ResultArrives(g) \/ HandStep(g)

Spec == Init /\ [][Next]_vars

\* The cycle that finds the time of the warm-up, or of the task, over.
TimeIsOver ==
  \/ warmup = "holding" /\ WarmUpCycle("asked")
  \/ WarmUpCycle("over")
  \/ MoveArm(TRUE)
  \/ AwaitGrasp(TRUE)

\* The control loop and the executor are threads that run on, and time passes:
\* of endless cycles one finds the time over.  The executor's timer gets its
\* turn among the other callbacks.  Nothing is assumed of the gripper, the
\* commands and the lifecycle.
Fairness ==
  /\ WF_vars(SelectTask \/ ResetHandshake \/ JudgeGrasp)
  /\ SF_vars(TimeIsOver)
  /\ SF_vars(GripperTimer)
  /\ WF_vars(SendGoal \/ StoreSuccess)

FairSpec == Spec /\ Fairness

-----------------------------------------------------------------------------
(* Properties                                                              *)

\* A task is entered only when the one before it ended in this activation,
\* whatever flags an earlier activation has left.
EntersAfterEnd ==
  [][last' # last /\ last' # "NONE" =>
       Before[last'] \in ended \cup {"NONE"}]_vars

GoalsOf(kind) == {g \in 1 .. Len(sent) : sent[g].kind = kind}

\* One request, one goal: the timer and the loop never turn a request into
\* two goals.
OneGoalPerRequest ==
  \A k \in Kinds : Cardinality(GoalsOf(k)) <= asked[k]

\* A grasp is sent for the GRASP under way, never while the arm moves.
GraspIsSentInGrasp ==
  [][Len(sent') > Len(sent) /\ sent'[Len(sent')].kind = "grasp" =>
       last = "GRASP" /\ last \notin finished]_vars

Grasped == "GRASP" \in finished' \ finished /\ done /\ success

\* "End grasp truly on the action's result": the success GRASP ends with is the
\* one of its own goal.
GraspEndsOnOwnResult ==
  [][Grasped =>
       \E g \in 1 .. Len(sent) :
         /\ sent[g] = [kind |-> "grasp", activation |-> activation]
         /\ status[g] = "succeeded"]_vars

\* When GRASP ends with success the hand is at rest: the arm lifts nothing that
\* the fingers are still closing on or letting go.
HandRestsWhenGrasped ==
  [][Grasped => \A g \in Ids : motion[g] # "moving"]_vars

\* Every task of the arm and of the gripper ends, whatever becomes of its goal.
TaskEnds ==
  Locked /\ last # "RUN_RL" ~> ~Locked \/ life # "active"

\* The gripper gets every goal that was asked for.
AllSent == \A k \in Kinds : asked[k] = Cardinality(GoalsOf(k))

EveryRequestIsSent == ~AllSent ~> AllSent
=============================================================================
