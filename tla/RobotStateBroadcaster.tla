------------------------ MODULE RobotStateBroadcaster ------------------------
(***************************************************************************)
(* The robot state broadcaster of                                          *)
(* franka_robot_state_broadcaster/src/franka_robot_state_broadcaster.cpp   *)
(* with the semantic component it reads (franka_robot_state.cpp).          *)
(*                                                                         *)
(* Three threads share one message.  The control loop calls update(): it   *)
(* takes the lock of the realtime publisher, then publish_mutex_, writes   *)
(* the message, hands it to the thread of the realtime publisher, and only *)
(* after publish_mutex_ is free again raises publish_now_ and notifies the *)
(* broadcaster's own thread, publishRunner(), which publishes eight topics *)
(* out of the same message.  A fourth actor, the controller manager,       *)
(* configures, activates, deactivates and at the end destroys the          *)
(* controller.                                                             *)
(*                                                                         *)
(* A message is a function of its parts; the value of a part is the        *)
(* version of the robot state it was taken from, counted modulo Versions.  *)
(***************************************************************************)
EXTENDS Integers, Sequences, SequencesExt, FiniteSets

CONSTANTS
  TryCounts,       \* values of the parameter lock_try_count
  Descriptions,    \* values of robot_description: [root, children]
  ConfigureWaits,  \* TRUE: no reconfiguration falls into the middle of a publication
  Versions         \* bound: versions of the robot state told apart

ASSUME BroadcasterAssumption ==
  /\ TryCounts \subseteq Int
  /\ ConfigureWaits \in BOOLEAN
  /\ Versions \in Nat \ {0}

VARIABLES
  lifecycle,    \* of the controller
  tryCount,     \* try_count_ of the realtime publisher
  frames,       \* frame_id of the message's headers, or NoFrames
  assigned,     \* the state interface is assigned to the semantic component
  msg,          \* realtime_franka_state_publisher->msg_
  version,      \* version of the robot state the hardware exports
  rtLock,       \* who holds msg_mutex_ of the realtime publisher
  rtTurn,       \* turn_ of the realtime publisher
  sent,         \* last message the realtime publisher sent
  mutex,        \* who holds publish_mutex_
  publishNow,   \* publish_now_
  running,      \* is_publish_thread_running_
  update,       \* where the control loop is in update()
  attempts,     \* count of trylock()
  runner,       \* where publishRunner() is
  topics,       \* what the eight topics last carried
  unpublished,  \* history: msg has not been on the topics yet
  destructor    \* where the destructor is

control == <<update, attempts>>
realtime == <<rtLock, rtTurn, sent>>
setup == <<lifecycle, tryCount, frames, assigned>>
signals == <<publishNow, running>>
vars == <<setup, msg, version, realtime, mutex, signals, control, runner,
          topics, unpublished, destructor>>

Parts == {"stamp", "pose", "joints"}
\* A message whose every part comes from state v.
MessageOf(v) == [p \in Parts |-> v]
NextVersion == (version + 1) % Versions
NoFrames == [base |-> "none", flange |-> "none", ee |-> "none"]

-----------------------------------------------------------------------------
(* The frames of the message, from the robot description.                   *)

kBaseLinkIndex == 0
kFlangeLinkIndex == 8
Tcp == "hand_tcp"
\* The names set_links_from_urdf() lists: the root once by itself, then again
\* as the first link the loop of set_child_links() pops from its stack; each
\* turn of the loop pops a link, notes its name and pushes its children.
LinkNames(d) ==
  LET turns == Cardinality(DOMAIN d.children)
      walk[n \in 0..turns] ==
        IF n = 0 THEN [stack |-> <<d.root>>, names |-> <<d.root>>]
        ELSE LET before == walk[n - 1]
                 link == Last(before.stack)
             IN  [stack |-> Front(before.stack) \o d.children[link],
                  names |-> Append(before.names, link)]
  IN  walk[turns].names

\* link_names is indexed from zero.
LinkName(d, index) == LinkNames(d)[index + 1]

\* get_link_index(): the first index of a name.
LinkIndex(d, name) ==
  CHOOSE i \in 0..Len(LinkNames(d)) - 1 :
    LinkName(d, i) = name /\ \A k \in 0..i - 1 : LinkName(d, k) # name

FramesOf(d) ==
  [base   |-> LinkName(d, kBaseLinkIndex),
   flange |-> LinkName(d, kFlangeLinkIndex),
   ee     |-> IF Tcp \in DOMAIN d.children THEN LinkName(d, LinkIndex(d, Tcp))
              ELSE LinkName(d, kFlangeLinkIndex)]

-----------------------------------------------------------------------------
TypeOK ==
  /\ lifecycle \in {"unconfigured", "inactive", "active", "finalized"}
  /\ tryCount \in Nat
  /\ frames \in {NoFrames} \cup {FramesOf(d) : d \in Descriptions}
  /\ assigned \in BOOLEAN
  /\ msg \in [Parts -> 0..Versions - 1]
  /\ version \in 0..Versions - 1
  /\ rtLock \in {"none", "loop", "publisher"}
  /\ rtTurn \in {"REALTIME", "NON_REALTIME"}
  /\ sent \in [Parts -> 0..Versions - 1]
  /\ mutex \in {"none", "loop", "runner"}
  /\ publishNow \in BOOLEAN
  /\ running \in BOOLEAN
  /\ update \in {"idle", "trylock", "lock", "stamp", "copy", "unlock", "flag", "notify"}
  /\ attempts \in Nat
  /\ runner \in {"top", "lock", "predicate", "blocking", "asleep", "publish",
                 "publishing", "reset", "exited"}
  /\ topics \in [Parts -> 0..Versions - 1]
  /\ unpublished \in BOOLEAN
  /\ destructor \in {"none", "notify", "join", "done"}

\* The constructor starts publishRunner(); on_init() declares the parameters.
Init ==
  /\ lifecycle = "unconfigured"
  /\ tryCount = 0
  /\ frames = NoFrames
  /\ assigned = FALSE
  /\ msg = MessageOf(0)
  /\ version = 0
  /\ rtLock = "none" /\ rtTurn = "REALTIME" /\ sent = MessageOf(0)
  /\ mutex = "none"
  /\ publishNow = FALSE
  /\ running = TRUE
  /\ update = "idle" /\ attempts = 0
  /\ runner = "top"
  /\ topics = MessageOf(0)
  /\ unpublished = FALSE
  /\ destructor = "none"

configured == frames # NoFrames

-----------------------------------------------------------------------------
(* The life cycle of the controller.                                        *)

\* A mutant of Configure().
ConfigureUnchecked(d, count) ==
  /\ lifecycle = "unconfigured" /\ destructor = "none"
  /\ ConfigureWaits => runner # "publishing"
  /\ rtLock = "none"
  /\ tryCount' = count
  /\ frames' = IF configured THEN frames ELSE FramesOf(d)
  /\ msg' = MessageOf(0) /\ unpublished' = FALSE
  /\ rtTurn' = "REALTIME" /\ sent' = MessageOf(0)
  /\ lifecycle' = "inactive"
  /\ UNCHANGED <<assigned, version, rtLock, mutex, signals, control, runner, topics, destructor>>

\* on_configure() with a usable parameter: the publishers are replaced, and
\* the message is a fresh one.  The semantic component of the first
\* configuration is kept, and with it the frames.  The old realtime publisher
\* stops its thread before it goes.
Configure(d, count) ==
  /\ lifecycle = "unconfigured" /\ destructor = "none"
  /\ ConfigureWaits => runner # "publishing"
  /\ rtLock = "none"
  /\ count >= 0
  /\ tryCount' = count
  /\ frames' = IF configured THEN frames ELSE FramesOf(d)
  /\ msg' = MessageOf(0) /\ unpublished' = FALSE
  /\ rtTurn' = "REALTIME" /\ sent' = MessageOf(0)
  /\ lifecycle' = "inactive"
  /\ UNCHANGED <<assigned, version, rtLock, mutex, signals, control, runner, topics, destructor>>

\* on_activate() and on_deactivate(), in the thread of the control loop.
Activate ==
  /\ lifecycle = "inactive" /\ destructor = "none"
  /\ lifecycle' = "active" /\ assigned' = TRUE
  /\ UNCHANGED <<tryCount, frames, msg, version, realtime, mutex, signals, control, runner,
                 topics, unpublished, destructor>>

Deactivate ==
  /\ lifecycle = "active" /\ update = "idle"
  /\ lifecycle' = "inactive" /\ assigned' = FALSE
  /\ UNCHANGED <<tryCount, frames, msg, version, realtime, mutex, signals, control, runner,
                 topics, unpublished, destructor>>

Cleanup ==
  /\ lifecycle = "inactive" /\ destructor = "none"
  /\ lifecycle' = "unconfigured"
  /\ UNCHANGED <<tryCount, frames, assigned, msg, version, realtime, mutex, signals, control,
                 runner, topics, unpublished, destructor>>

\* The destructor clears is_publish_thread_running_ and notifies, both
\* without publish_mutex_, and joins the thread.
DestructorStops ==
  /\ lifecycle \in {"unconfigured", "inactive"} /\ destructor = "none"
  /\ running' = FALSE /\ destructor' = "notify"
  /\ UNCHANGED <<setup, msg, version, realtime, mutex, publishNow, control, runner, topics,
                 unpublished>>

Woken == IF runner = "asleep" THEN "lock" ELSE runner

DestructorNotifies ==
  /\ destructor = "notify"
  /\ runner' = Woken /\ destructor' = "join"
  /\ UNCHANGED <<setup, msg, version, realtime, mutex, signals, control, topics, unpublished>>

DestructorJoins ==
  /\ destructor = "join" /\ runner = "exited"
  /\ destructor' = "done" /\ lifecycle' = "finalized"
  /\ UNCHANGED <<tryCount, frames, assigned, msg, version, realtime, mutex, signals, control,
                 runner, topics, unpublished>>

-----------------------------------------------------------------------------
(* update(), in the control loop.                                           *)

\* A cycle of the control loop: read() has refreshed the robot state.
StartUpdate ==
  /\ lifecycle = "active" /\ update = "idle"
  /\ version' = NextVersion
  /\ update' = "trylock" /\ attempts' = 0
  /\ UNCHANGED <<setup, msg, realtime, mutex, signals, runner, topics, unpublished, destructor>>

LockFree == rtLock = "none" /\ rtTurn = "REALTIME"

\* trylock(): ++count <= try_count_ and the base class gets the lock.
TryLock ==
  /\ update = "trylock" /\ attempts < tryCount /\ LockFree
  /\ rtLock' = "loop" /\ update' = "lock"
  /\ UNCHANGED <<setup, msg, version, rtTurn, sent, mutex, signals, attempts, runner, topics,
                 unpublished, destructor>>

\* The lock is taken: sleep and count an attempt.
TryAgain ==
  /\ update = "trylock" /\ attempts < tryCount /\ ~LockFree
  /\ attempts' = attempts + 1
  /\ UNCHANGED <<setup, msg, version, realtime, mutex, signals, update, runner, topics,
                 unpublished, destructor>>

\* After try_count_ attempts update() returns and the state is lost.
GiveUp ==
  /\ update = "trylock" /\ attempts >= tryCount
  /\ update' = "idle" /\ attempts' = 0
  /\ UNCHANGED <<setup, msg, version, realtime, mutex, signals, runner, topics, unpublished,
                 destructor>>

\* A mutant of LockTopics().
LockTopicsNotHeld ==
  /\ update = "lock"
  /\ mutex' = "loop" /\ update' = "stamp"
  /\ UNCHANGED <<setup, msg, version, realtime, signals, attempts, runner, topics, unpublished,
                 destructor>>

LockTopics ==
  /\ update = "lock" /\ mutex = "none"
  /\ mutex' = "loop" /\ update' = "stamp"
  /\ UNCHANGED <<setup, msg, version, realtime, signals, attempts, runner, topics, unpublished,
                 destructor>>

\* header.stamp, the search for the state interface, updateTimeStamps().
\* Without the interface the lock is given back and update() fails.
StampMessage ==
  /\ update = "stamp"
  /\ IF assigned
     THEN /\ msg' = [msg EXCEPT !["stamp"] = version]
          /\ update' = "copy"
          /\ UNCHANGED <<rtLock, mutex, attempts>>
     ELSE /\ rtLock' = "none" /\ mutex' = "none"
          /\ update' = "idle" /\ attempts' = 0
          /\ UNCHANGED msg
  /\ UNCHANGED <<setup, version, rtTurn, sent, signals, runner, topics, unpublished, destructor>>

\* The rest of get_values_as_message(): every part is copied and translated.
CopyValues ==
  /\ update = "copy"
  /\ msg' = [MessageOf(version) EXCEPT !["stamp"] = msg["stamp"]]
  /\ unpublished' = TRUE
  /\ update' = "unlock"
  /\ UNCHANGED <<setup, version, realtime, mutex, signals, attempts, runner, topics, destructor>>

\* unlockAndPublish(): the turn passes to the realtime publisher's thread.
\* Then the scope of publish_mutex_ ends.
HandOver ==
  /\ update = "unlock"
  /\ rtTurn' = "NON_REALTIME" /\ rtLock' = "none"
  /\ mutex' = "none"
  /\ update' = "flag"
  /\ UNCHANGED <<setup, msg, version, sent, signals, attempts, runner, topics, unpublished,
                 destructor>>

RaiseFlag ==
  /\ update = "flag"
  /\ publishNow' = TRUE /\ update' = "notify"
  /\ UNCHANGED <<setup, msg, version, realtime, mutex, running, attempts, runner, topics,
                 unpublished, destructor>>

\* A mutant of Notify().
NotifyNobody ==
  /\ update = "notify"
  /\ runner' = runner /\ update' = "idle" /\ attempts' = 0
  /\ UNCHANGED <<setup, msg, version, realtime, mutex, signals, topics, unpublished, destructor>>

Notify ==
  /\ update = "notify"
  /\ runner' = Woken /\ update' = "idle" /\ attempts' = 0
  /\ UNCHANGED <<setup, msg, version, realtime, mutex, signals, topics, unpublished, destructor>>

-----------------------------------------------------------------------------
(* publishRunner(), in its own thread.                                      *)

RunnerLoops ==
  /\ runner = "top"
  /\ runner' = IF running THEN "lock" ELSE "exited"
  /\ UNCHANGED <<setup, msg, version, realtime, mutex, signals, control, topics, unpublished,
                 destructor>>

\* Take publish_mutex_, at the top of the loop or when woken.
RunnerLocks ==
  /\ runner = "lock" /\ mutex = "none"
  /\ mutex' = "runner" /\ runner' = "predicate"
  /\ UNCHANGED <<setup, msg, version, realtime, signals, control, topics, unpublished, destructor>>

\* A mutant of RunnerChecks().
RunnerChecksFlagOnly ==
  /\ runner = "predicate"
  /\ runner' = IF publishNow THEN "publish" ELSE "blocking"
  /\ UNCHANGED <<setup, msg, version, realtime, mutex, signals, control, topics, unpublished,
                 destructor>>

\* The predicate of the wait; when it is false the thread is about to block.
RunnerChecks ==
  /\ runner = "predicate"
  /\ runner' = IF publishNow \/ ~running THEN "publish" ELSE "blocking"
  /\ UNCHANGED <<setup, msg, version, realtime, mutex, signals, control, topics, unpublished,
                 destructor>>

RunnerBlocks ==
  /\ runner = "blocking"
  /\ runner' = "asleep" /\ mutex' = "none"
  /\ UNCHANGED <<setup, msg, version, realtime, signals, control, topics, unpublished, destructor>>

\* A wait may return without a notification; it checks the predicate again.
SpuriousWakeup ==
  /\ runner = "asleep"
  /\ runner' = "lock"
  /\ UNCHANGED <<setup, msg, version, realtime, mutex, signals, control, topics, unpublished,
                 destructor>>

\* The first topics: the poses, the twist and the wrenches.
PublishPoses ==
  /\ runner = "publish"
  /\ IF publishNow
     THEN /\ topics' = [topics EXCEPT !["pose"] = msg["pose"], !["stamp"] = msg["stamp"]]
          /\ runner' = "publishing"
     ELSE runner' = "reset" /\ UNCHANGED topics
  /\ UNCHANGED <<setup, msg, version, realtime, mutex, signals, control, unpublished, destructor>>

\* The remaining topics: the joint states and torques.
PublishJoints ==
  /\ runner = "publishing"
  /\ topics' = [topics EXCEPT !["joints"] = msg["joints"]]
  /\ unpublished' = FALSE
  /\ runner' = "reset"
  /\ UNCHANGED <<setup, msg, version, realtime, mutex, signals, control, destructor>>

RunnerResets ==
  /\ runner = "reset"
  /\ publishNow' = FALSE /\ mutex' = "none" /\ runner' = "top"
  /\ UNCHANGED <<setup, msg, version, realtime, running, control, topics, unpublished, destructor>>

-----------------------------------------------------------------------------
(* The thread of the realtime publisher: it polls for its turn.             *)

PublisherLocks ==
  /\ configured /\ rtLock = "none"
  /\ rtLock' = "publisher"
  /\ UNCHANGED <<setup, msg, version, rtTurn, sent, mutex, signals, control, runner, topics,
                 unpublished, destructor>>

PublisherSends ==
  /\ rtLock = "publisher"
  /\ rtLock' = "none" /\ rtTurn' = "REALTIME"
  /\ sent' = IF rtTurn = "NON_REALTIME" THEN msg ELSE sent
  /\ UNCHANGED <<setup, msg, version, mutex, signals, control, runner, topics, unpublished,
                 destructor>>

-----------------------------------------------------------------------------
Update ==
  \/ TryLock \/ TryAgain \/ GiveUp \/ LockTopics \/ StampMessage
  \/ CopyValues \/ HandOver \/ RaiseFlag \/ Notify

Runner ==
  \/ RunnerLoops \/ RunnerLocks \/ RunnerChecks \/ RunnerBlocks
  \/ PublishPoses \/ PublishJoints \/ RunnerResets

Destructor == DestructorStops \/ DestructorNotifies \/ DestructorJoins

Next ==
  \/ \E d \in Descriptions, count \in TryCounts : Configure(d, count)
  \/ Activate \/ Deactivate \/ Cleanup
  \/ Destructor
  \/ StartUpdate \/ Update
  \/ Runner \/ SpuriousWakeup
  \/ PublisherLocks \/ PublisherSends

Spec == Init /\ [][Next]_vars

\* The threads take their steps.  publish_mutex_ is held for a moment and asked
\* for once a cycle of the loop, so that whoever asks gets it in the end; the
\* lock of the realtime publisher is only tried, and may always be missed.
FairSpec ==
  /\ Spec
  /\ WF_vars(StartUpdate \/ Update) /\ SF_vars(LockTopics)
  /\ WF_vars(Runner) /\ SF_vars(RunnerLocks)
  /\ WF_vars(PublisherLocks \/ PublisherSends)
  /\ WF_vars(DestructorNotifies \/ DestructorJoins)

-----------------------------------------------------------------------------
\* Neither the topics nor the message of the realtime publisher ever mix two
\* states of the robot: update() writes, and the two threads read, the one
\* message under the two locks (update() and publishRunner()).
StatesAreNotMixed ==
  /\ runner # "publishing" => \A p \in Parts : topics[p] = topics["stamp"]
  /\ \A p \in Parts : sent[p] = sent["stamp"]

\* As long as update() goes on writing states, states reach the topics,
\* although publish_now_ is raised outside the lock under which the waiting
\* thread checks it, so that a notification can be lost: the next one comes
\* after the thread is asleep.
StatesReachTopics == []<>(update = "copy") => []<>(~unpublished)

\* The destructor returns unless its notification, sent without
\* publish_mutex_, fell between publishRunner()'s check of the predicate and
\* its wait: then it joins a thread nobody wakes.
DestructorReturns ==
  (destructor = "join" /\ runner \notin {"blocking", "asleep"}) ~> (destructor = "done")
=============================================================================
