-------------------- MODULE RobotStateBroadcaster_proofs --------------------
(***************************************************************************)
(* Type correctness of the robot state broadcaster, and the proof that its *)
(* threads never publish a mixture of two states, whatever the parameters, *)
(* the descriptions and the order of the threads.                          *)
(***************************************************************************)
EXTENDS RobotStateBroadcaster, TLAPS

-----------------------------------------------------------------------------
(***************************************************************************)
(* Types                                                                   *)
(***************************************************************************)
\* The types of what the lifecycle sets, of the messages, and of the places
\* of the threads.
SetupTypes ==
  /\ lifecycle \in {"unconfigured", "inactive", "active", "finalized"}
  /\ tryCount \in Nat
  /\ frames \in {NoFrames} \cup {FramesOf(d) : d \in Descriptions}
  /\ assigned \in BOOLEAN

MessageTypes ==
  /\ msg \in [Parts -> 0..Versions - 1]
  /\ version \in 0..Versions - 1
  /\ sent \in [Parts -> 0..Versions - 1]
  /\ topics \in [Parts -> 0..Versions - 1]

ThreadTypes ==
  /\ rtLock \in {"none", "loop", "publisher"}
  /\ rtTurn \in {"REALTIME", "NON_REALTIME"}
  /\ mutex \in {"none", "loop", "runner"}
  /\ publishNow \in BOOLEAN
  /\ running \in BOOLEAN
  /\ update \in {"idle", "trylock", "lock", "stamp", "copy", "unlock", "flag", "notify"}
  /\ attempts \in Nat
  /\ runner \in {"top", "lock", "predicate", "blocking", "asleep", "publish",
                 "publishing", "reset", "exited"}
  /\ unpublished \in BOOLEAN
  /\ destructor \in {"none", "notify", "join", "done"}

LEMMA TypeParts == TypeOK <=> SetupTypes /\ MessageTypes /\ ThreadTypes
BY Zenon DEF TypeOK, SetupTypes, MessageTypes, ThreadTypes

LEMMA TypePartsNext == TypeOK' <=> SetupTypes' /\ MessageTypes' /\ ThreadTypes'
BY TypeParts, PTL

\* A message of one state is a message.
LEMMA MessageOfType ==
  ASSUME NEW v \in 0..Versions - 1
  PROVE  MessageOf(v) \in [Parts -> 0..Versions - 1]
BY DEF MessageOf

LEMMA NextVersionType ==
  ASSUME version \in 0..Versions - 1
  PROVE  NextVersion \in 0..Versions - 1
<1>1. Versions \in Nat \ {0}
  BY BroadcasterAssumption DEF BroadcasterAssumption
<1>2. version + 1 \in Nat
  BY <1>1
<1> QED BY <1>1, <1>2 DEF NextVersion

LEMMA ZeroIsAVersion == 0 \in 0..Versions - 1
BY BroadcasterAssumption DEF BroadcasterAssumption

-----------------------------------------------------------------------------
(***************************************************************************)
(* The invariant                                                           *)
(***************************************************************************)
\* Who holds a lock is where the lock is held.
LockInv ==
  /\ rtLock = "loop" <=> update \in {"lock", "stamp", "copy", "unlock"}
  /\ mutex = "loop" <=> update \in {"stamp", "copy", "unlock"}
  /\ mutex = "runner" <=> runner \in {"predicate", "blocking", "publish", "publishing", "reset"}

Coherent(m) == \A p \in Parts : m[p] = m["stamp"]

\* Unless a reconfiguration replaces it meanwhile, the message is of one state
\* except while update() fills it, and what has been published of it is what it
\* still contains.
MessageInv ==
  ConfigureWaits =>
    /\ update = "copy" => msg["stamp"] = version
    /\ update # "copy" => Coherent(msg)
    /\ Coherent(sent)
    /\ runner # "publishing" => Coherent(topics)
    /\ runner = "publishing" =>
         topics["pose"] = msg["pose"] /\ topics["stamp"] = msg["stamp"]

IInv == TypeOK /\ LockInv /\ MessageInv

LEMMA InitInv == Init => IInv
<1> SUFFICES ASSUME Init PROVE IInv
  OBVIOUS
<1>1. SetupTypes /\ ThreadTypes
  BY DEF Init, SetupTypes, ThreadTypes
<1>2. MessageTypes
  BY ZeroIsAVersion, MessageOfType DEF Init, MessageTypes
<1>3. LockInv
  BY DEF Init, LockInv
<1>4. MessageInv
  BY DEF Init, MessageInv, Coherent, MessageOf, Parts
<1> QED BY <1>1, <1>2, <1>3, <1>4, TypeParts DEF IInv

-----------------------------------------------------------------------------
(***************************************************************************)
(* The steps                                                               *)
(***************************************************************************)
\* The control loop: StartUpdate and Update.
LEMMA LoopInv ==
  ASSUME IInv,
         StartUpdate \/ TryLock \/ TryAgain \/ GiveUp \/ LockTopics
         \/ StampMessage \/ CopyValues \/ HandOver \/ RaiseFlag \/ Notify
  PROVE  IInv'
<1> USE DEF setup, realtime, signals, control
<1>0. SetupTypes /\ MessageTypes /\ ThreadTypes /\ LockInv /\ MessageInv
  BY TypeParts DEF IInv
<1>1. CASE StartUpdate
  <2>1. SetupTypes' /\ ThreadTypes' /\ LockInv'
    BY <1>0, <1>1 DEF SetupTypes, ThreadTypes, LockInv, StartUpdate
  <2>2. MessageTypes' /\ MessageInv'
    BY <1>0, <1>1, NextVersionType DEF MessageTypes, LockInv, MessageInv, Coherent, Parts,
      StartUpdate
  <2> QED BY <2>1, <2>2, TypePartsNext DEF IInv
<1>2. CASE TryLock
  <2>1. SetupTypes' /\ ThreadTypes' /\ LockInv'
    BY <1>0, <1>2 DEF SetupTypes, ThreadTypes, LockInv, TryLock
  <2>2. MessageTypes' /\ MessageInv'
    BY <1>0, <1>2 DEF MessageTypes, LockInv, MessageInv, Coherent, Parts, TryLock
  <2> QED BY <2>1, <2>2, TypePartsNext DEF IInv
<1>3. CASE TryAgain
  <2>1. SetupTypes' /\ ThreadTypes' /\ LockInv'
    BY <1>0, <1>3 DEF SetupTypes, ThreadTypes, LockInv, TryAgain
  <2>2. MessageTypes' /\ MessageInv'
    BY <1>0, <1>3 DEF MessageTypes, LockInv, MessageInv, Coherent, Parts, TryAgain
  <2> QED BY <2>1, <2>2, TypePartsNext DEF IInv
<1>4. CASE GiveUp
  <2>1. SetupTypes' /\ ThreadTypes' /\ LockInv'
    BY <1>0, <1>4 DEF SetupTypes, ThreadTypes, LockInv, GiveUp
  <2>2. MessageTypes' /\ MessageInv'
    BY <1>0, <1>4 DEF MessageTypes, LockInv, MessageInv, Coherent, Parts, GiveUp
  <2> QED BY <2>1, <2>2, TypePartsNext DEF IInv
<1>5. CASE LockTopics
  <2>1. SetupTypes' /\ ThreadTypes' /\ LockInv'
    BY <1>0, <1>5 DEF SetupTypes, ThreadTypes, LockInv, LockTopics
  <2>2. MessageTypes' /\ MessageInv'
    BY <1>0, <1>5 DEF MessageTypes, LockInv, MessageInv, Coherent, Parts, LockTopics
  <2> QED BY <2>1, <2>2, TypePartsNext DEF IInv
<1>6. CASE StampMessage
  <2>1. SetupTypes' /\ ThreadTypes' /\ LockInv'
    BY <1>0, <1>6 DEF SetupTypes, ThreadTypes, LockInv, StampMessage
  <2>2. MessageTypes' /\ MessageInv'
    BY <1>0, <1>6 DEF MessageTypes, LockInv, MessageInv, Coherent, Parts, StampMessage
  <2> QED BY <2>1, <2>2, TypePartsNext DEF IInv
<1>7. CASE CopyValues
  <2>1. SetupTypes' /\ ThreadTypes' /\ LockInv'
    BY <1>0, <1>7 DEF SetupTypes, ThreadTypes, LockInv, CopyValues
  <2>2. MessageTypes' /\ MessageInv'
    BY <1>0, <1>7, MessageOfType DEF MessageTypes, LockInv, MessageInv, Coherent, Parts,
      MessageOf, CopyValues
  <2> QED BY <2>1, <2>2, TypePartsNext DEF IInv
<1>8. CASE HandOver
  <2>1. SetupTypes' /\ ThreadTypes' /\ LockInv'
    BY <1>0, <1>8 DEF SetupTypes, ThreadTypes, LockInv, HandOver
  <2>2. MessageTypes' /\ MessageInv'
    BY <1>0, <1>8 DEF MessageTypes, LockInv, MessageInv, Coherent, Parts, HandOver
  <2> QED BY <2>1, <2>2, TypePartsNext DEF IInv
<1>9. CASE RaiseFlag
  <2>1. SetupTypes' /\ ThreadTypes' /\ LockInv'
    BY <1>0, <1>9 DEF SetupTypes, ThreadTypes, LockInv, RaiseFlag
  <2>2. MessageTypes' /\ MessageInv'
    BY <1>0, <1>9 DEF MessageTypes, LockInv, MessageInv, Coherent, Parts, RaiseFlag
  <2> QED BY <2>1, <2>2, TypePartsNext DEF IInv
<1>10. CASE Notify
  <2>1. SetupTypes' /\ ThreadTypes' /\ LockInv'
    BY <1>0, <1>10 DEF SetupTypes, ThreadTypes, LockInv, Notify, Woken
  <2>2. MessageTypes' /\ MessageInv'
    BY <1>0, <1>10 DEF MessageTypes, LockInv, MessageInv, Coherent, Parts, Notify, Woken
  <2> QED BY <2>1, <2>2, TypePartsNext DEF IInv
<1> QED BY <1>1, <1>2, <1>3, <1>4, <1>5, <1>6, <1>7, <1>8, <1>9, <1>10

\* The publishing thread.
LEMMA RunnerInv ==
  ASSUME IInv,
         RunnerLoops \/ RunnerLocks \/ RunnerChecks \/ RunnerBlocks
         \/ SpuriousWakeup \/ PublishPoses \/ PublishJoints \/ RunnerResets
  PROVE  IInv'
<1> USE DEF setup, realtime, signals, control
<1>0. SetupTypes /\ MessageTypes /\ ThreadTypes /\ LockInv /\ MessageInv
  BY TypeParts DEF IInv
<1>1. CASE RunnerLoops
  <2>1. SetupTypes' /\ ThreadTypes' /\ LockInv'
    BY <1>0, <1>1 DEF SetupTypes, ThreadTypes, LockInv, RunnerLoops
  <2>2. MessageTypes' /\ MessageInv'
    BY <1>0, <1>1 DEF MessageTypes, LockInv, MessageInv, Coherent, Parts, RunnerLoops
  <2> QED BY <2>1, <2>2, TypePartsNext DEF IInv
<1>2. CASE RunnerLocks
  <2>1. SetupTypes' /\ ThreadTypes' /\ LockInv'
    BY <1>0, <1>2 DEF SetupTypes, ThreadTypes, LockInv, RunnerLocks
  <2>2. MessageTypes' /\ MessageInv'
    BY <1>0, <1>2 DEF MessageTypes, LockInv, MessageInv, Coherent, Parts, RunnerLocks
  <2> QED BY <2>1, <2>2, TypePartsNext DEF IInv
<1>3. CASE RunnerChecks
  <2>1. SetupTypes' /\ ThreadTypes' /\ LockInv'
    BY <1>0, <1>3 DEF SetupTypes, ThreadTypes, LockInv, RunnerChecks
  <2>2. MessageTypes' /\ MessageInv'
    BY <1>0, <1>3 DEF MessageTypes, LockInv, MessageInv, Coherent, Parts, RunnerChecks
  <2> QED BY <2>1, <2>2, TypePartsNext DEF IInv
<1>4. CASE RunnerBlocks
  <2>1. SetupTypes' /\ ThreadTypes' /\ LockInv'
    BY <1>0, <1>4 DEF SetupTypes, ThreadTypes, LockInv, RunnerBlocks
  <2>2. MessageTypes' /\ MessageInv'
    BY <1>0, <1>4 DEF MessageTypes, LockInv, MessageInv, Coherent, Parts, RunnerBlocks
  <2> QED BY <2>1, <2>2, TypePartsNext DEF IInv
<1>5. CASE SpuriousWakeup
  <2>1. SetupTypes' /\ ThreadTypes' /\ LockInv'
    BY <1>0, <1>5 DEF SetupTypes, ThreadTypes, LockInv, SpuriousWakeup
  <2>2. MessageTypes' /\ MessageInv'
    BY <1>0, <1>5 DEF MessageTypes, LockInv, MessageInv, Coherent, Parts, SpuriousWakeup
  <2> QED BY <2>1, <2>2, TypePartsNext DEF IInv
<1>6. CASE PublishPoses
  <2>1. SetupTypes' /\ ThreadTypes' /\ LockInv'
    BY <1>0, <1>6 DEF SetupTypes, ThreadTypes, LockInv, PublishPoses
  <2>2. MessageTypes' /\ MessageInv'
    BY <1>0, <1>6 DEF MessageTypes, LockInv, MessageInv, Coherent, Parts, PublishPoses
  <2> QED BY <2>1, <2>2, TypePartsNext DEF IInv
<1>7. CASE PublishJoints
  <2>1. SetupTypes'
    BY <1>0, <1>7 DEF SetupTypes, PublishJoints
  <2>2. ThreadTypes'
    BY <1>0, <1>7 DEF ThreadTypes, PublishJoints
  <2>3. LockInv'
    BY <1>0, <1>7 DEF LockInv, PublishJoints
  <2>4. MessageTypes' /\ MessageInv'
    BY <1>0, <1>7 DEF MessageTypes, LockInv, MessageInv, Coherent, Parts, PublishJoints
  <2> QED BY <2>1, <2>2, <2>3, <2>4, TypePartsNext DEF IInv
<1>8. CASE RunnerResets
  <2>1. SetupTypes'
    BY <1>0, <1>8 DEF SetupTypes, RunnerResets
  <2>2. ThreadTypes'
    BY <1>0, <1>8 DEF ThreadTypes, RunnerResets
  <2>3. LockInv'
    BY <1>0, <1>8 DEF LockInv, RunnerResets
  <2>4. MessageTypes' /\ MessageInv'
    BY <1>0, <1>8 DEF MessageTypes, LockInv, MessageInv, Coherent, Parts, RunnerResets
  <2> QED BY <2>1, <2>2, <2>3, <2>4, TypePartsNext DEF IInv
<1> QED BY <1>1, <1>2, <1>3, <1>4, <1>5, <1>6, <1>7, <1>8

\* The thread of the realtime publisher.
LEMMA PublisherInv ==
  ASSUME IInv,
         PublisherLocks \/ PublisherSends
  PROVE  IInv'
<1> USE DEF setup, realtime, signals, control
<1>0. SetupTypes /\ MessageTypes /\ ThreadTypes /\ LockInv /\ MessageInv
  BY TypeParts DEF IInv
<1>1. CASE PublisherLocks
  <2>1. SetupTypes' /\ ThreadTypes' /\ LockInv'
    BY <1>0, <1>1 DEF SetupTypes, ThreadTypes, LockInv, PublisherLocks
  <2>2. MessageTypes' /\ MessageInv'
    BY <1>0, <1>1 DEF MessageTypes, LockInv, MessageInv, Coherent, Parts, PublisherLocks
  <2> QED BY <2>1, <2>2, TypePartsNext DEF IInv
<1>2. CASE PublisherSends
  <2>1. SetupTypes' /\ ThreadTypes' /\ LockInv'
    BY <1>0, <1>2 DEF SetupTypes, ThreadTypes, LockInv, PublisherSends
  <2>2. MessageTypes' /\ MessageInv'
    BY <1>0, <1>2 DEF MessageTypes, LockInv, MessageInv, Coherent, Parts, PublisherSends
  <2> QED BY <2>1, <2>2, TypePartsNext DEF IInv
<1> QED BY <1>1, <1>2

\* The lifecycle and the destructor.
LEMMA LifecycleInv ==
  ASSUME IInv,
         Activate \/ Deactivate \/ Cleanup \/ DestructorStops
         \/ DestructorNotifies \/ DestructorJoins
  PROVE  IInv'
<1> USE DEF setup, realtime, signals, control
<1>0. SetupTypes /\ MessageTypes /\ ThreadTypes /\ LockInv /\ MessageInv
  BY TypeParts DEF IInv
<1>1. CASE Activate
  <2>1. SetupTypes' /\ ThreadTypes' /\ LockInv'
    BY <1>0, <1>1 DEF SetupTypes, ThreadTypes, LockInv, Activate
  <2>2. MessageTypes' /\ MessageInv'
    BY <1>0, <1>1 DEF MessageTypes, LockInv, MessageInv, Coherent, Parts, Activate
  <2> QED BY <2>1, <2>2, TypePartsNext DEF IInv
<1>2. CASE Deactivate
  <2>1. SetupTypes'
    BY <1>0, <1>2 DEF SetupTypes, Deactivate
  <2>2. ThreadTypes'
    BY <1>0, <1>2 DEF ThreadTypes, Deactivate
  <2>3. LockInv'
    BY <1>0, <1>2 DEF LockInv, Deactivate
  <2>4. MessageTypes' /\ MessageInv'
    BY <1>0, <1>2 DEF MessageTypes, LockInv, MessageInv, Coherent, Parts, Deactivate
  <2> QED BY <2>1, <2>2, <2>3, <2>4, TypePartsNext DEF IInv
<1>3. CASE Cleanup
  <2>1. SetupTypes' /\ ThreadTypes' /\ LockInv'
    BY <1>0, <1>3 DEF SetupTypes, ThreadTypes, LockInv, Cleanup
  <2>2. MessageTypes' /\ MessageInv'
    BY <1>0, <1>3 DEF MessageTypes, LockInv, MessageInv, Coherent, Parts, Cleanup
  <2> QED BY <2>1, <2>2, TypePartsNext DEF IInv
<1>4. CASE DestructorStops
  <2>1. SetupTypes'
    BY <1>0, <1>4 DEF SetupTypes, DestructorStops
  <2>2. ThreadTypes'
    BY <1>0, <1>4 DEF ThreadTypes, DestructorStops
  <2>3. LockInv'
    BY <1>0, <1>4 DEF LockInv, DestructorStops
  <2>4. MessageTypes' /\ MessageInv'
    BY <1>0, <1>4 DEF MessageTypes, LockInv, MessageInv, Coherent, Parts, DestructorStops
  <2> QED BY <2>1, <2>2, <2>3, <2>4, TypePartsNext DEF IInv
<1>5. CASE DestructorNotifies
  <2>1. SetupTypes' /\ ThreadTypes' /\ LockInv'
    BY <1>0, <1>5 DEF SetupTypes, ThreadTypes, LockInv, DestructorNotifies, Woken
  <2>2. MessageTypes' /\ MessageInv'
    BY <1>0, <1>5 DEF MessageTypes, LockInv, MessageInv, Coherent, Parts, DestructorNotifies, Woken
  <2> QED BY <2>1, <2>2, TypePartsNext DEF IInv
<1>6. CASE DestructorJoins
  <2>1. SetupTypes' /\ ThreadTypes' /\ LockInv'
    BY <1>0, <1>6 DEF SetupTypes, ThreadTypes, LockInv, DestructorJoins
  <2>2. MessageTypes' /\ MessageInv'
    BY <1>0, <1>6 DEF MessageTypes, LockInv, MessageInv, Coherent, Parts, DestructorJoins
  <2> QED BY <2>1, <2>2, TypePartsNext DEF IInv
<1> QED BY <1>1, <1>2, <1>3, <1>4, <1>5, <1>6

\* A reconfiguration, which replaces the message between two publications.
LEMMA ConfigureInv ==
  ASSUME IInv, NEW d \in Descriptions, NEW count \in TryCounts,
         Configure(d, count)
  PROVE  IInv'
<1>0. SetupTypes /\ MessageTypes /\ ThreadTypes /\ LockInv /\ MessageInv
  BY TypeParts DEF IInv
<1>1. SetupTypes'
  <2>1. count \in Nat
    BY BroadcasterAssumption DEF BroadcasterAssumption, Configure
  <2>2. frames' \in {NoFrames} \cup {FramesOf(e) : e \in Descriptions}
    BY <1>0 DEF SetupTypes, Configure
  <2> QED BY <1>0, <2>1, <2>2 DEF SetupTypes, Configure
<1>2. ThreadTypes' /\ LockInv'
  BY <1>0 DEF ThreadTypes, LockInv, Configure, signals, control
<1>3. MessageTypes'
  BY <1>0, ZeroIsAVersion, MessageOfType DEF MessageTypes, Configure
<1>4. MessageInv'
  BY <1>0 DEF LockInv, MessageInv, Coherent, MessageOf, Parts, Configure, control
<1> QED BY <1>1, <1>2, <1>3, <1>4, TypePartsNext DEF IInv

LEMMA StutterInv == ASSUME IInv, UNCHANGED vars PROVE IInv'
<1>0. SetupTypes /\ MessageTypes /\ ThreadTypes /\ LockInv /\ MessageInv
  BY TypeParts DEF IInv
<1>1. SetupTypes' /\ MessageTypes' /\ ThreadTypes'
  BY <1>0 DEF SetupTypes, MessageTypes, ThreadTypes, vars, setup, realtime, signals, control
<1>2. LockInv' /\ MessageInv'
  BY <1>0 DEF LockInv, MessageInv, Coherent, vars, setup, realtime, signals, control
<1> QED BY <1>1, <1>2, TypePartsNext DEF IInv

LEMMA StepInv == ASSUME IInv, [Next]_vars PROVE IInv'
BY ConfigureInv, LifecycleInv, LoopInv, RunnerInv, PublisherInv, StutterInv
   DEF Next, Update, Runner, Destructor

-----------------------------------------------------------------------------
(***************************************************************************)
(* The theorems                                                            *)
(***************************************************************************)
\* No thread of the broadcaster, update(), publishRunner() or the realtime
\* publisher's, takes a variable out of its type.
THEOREM TypeCorrect == Spec => []TypeOK
<1>1. IInv => TypeOK
  BY DEF IInv
<1> QED BY InitInv, StepInv, <1>1, PTL DEF Spec

\* update() fills the message and two threads publish it, and neither ever
\* publishes parts of two states: the control loop holds both locks while it
\* fills it, each of the threads one.
THEOREM StatesAreNotMixedAlways == ASSUME ConfigureWaits PROVE Spec => []StatesAreNotMixed
<1>1. IInv => StatesAreNotMixed
  BY DEF IInv, MessageInv, Coherent, StatesAreNotMixed
<1> QED BY InitInv, StepInv, <1>1, PTL DEF Spec
=============================================================================
