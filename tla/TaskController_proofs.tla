------------------------ MODULE TaskController_proofs ------------------------
(***************************************************************************)
(* Proofs about TaskController, for any number of activations and of goals,*)
(* with and without a warm-up.                                             *)
(*                                                                         *)
(* LoopInv is what the control loop relies on from one cycle to the next,  *)
(* and across activations.  GoalsInv counts: the goals sent, the request   *)
(* that is raised and the one the timer has taken were all asked for.      *)
(* GraspInv follows a grasp from its request to its result through the     *)
(* flags, the goals and the phases, when the timer is in time; HandInv     *)
(* says that a hand that takes goals in order leaves none behind.          *)
(***************************************************************************)
EXTENDS TaskController, FiniteSetTheorems, TLAPS

LoopInv ==
  /\ rt # "idle" => life = "active"
  /\ life = "active" => activation > 0
  /\ last # "NONE" /\ last \in finished => last \in ended

\* Requests and goals that were asked for and not sent yet.
Raised(k) == IF k \in requests THEN 1 ELSE 0
Taken(k)  == IF <<exec, k>> \in {<<"send_move", "move">>,
                                  <<"send_grasp", "grasp">>}
             THEN 1 ELSE 0

GoalsInv ==
  /\ \A k \in Kinds : /\ IsFiniteSet(GoalsOf(k))
                      /\ Cardinality(GoalsOf(k)) + Raised(k) + Taken(k) <= asked[k]
  /\ \A k \in Kinds : Raised(k) = 1 \/ Taken(k) = 1 => activation > 0

IInv == TypeOK /\ LoopInv /\ GoalsInv

\* The types by the thread that writes the variables.
LoopTypes ==
  /\ life \in {"unconfigured", "inactive", "active"}
  /\ timers \in BOOLEAN /\ activation \in 0 .. MaxActivations
  /\ cmd \in Commands /\ last \in Tasks \cup {"NONE"}
  /\ finished \subseteq Tasks /\ ended \subseteq Tasks
  /\ warmup \in {"holding", "asked", "over"} /\ overdue \in BOOLEAN
  /\ rt \in {"idle", "entering", "working", "judging"}

ExecutorTypes ==
  /\ exec \in {"idle", "send_move", "send_grasp", "store_success", "store_failure"}
  /\ requests \subseteq Kinds
  /\ done \in BOOLEAN /\ success \in BOOLEAN /\ reported \in BOOLEAN
  /\ asked \in [Kinds -> Nat]

GoalTypes ==
  /\ sent \in Seq([kind : Kinds, activation : 1 .. MaxActivations])
  /\ Len(sent) <= MaxGoals
  /\ awaited \subseteq 1 .. Len(sent)
  /\ Hand!TypeOK

LEMMA TypeParts == TypeOK <=> LoopTypes /\ ExecutorTypes /\ GoalTypes
BY Zenon DEF TypeOK, LoopTypes, ExecutorTypes, GoalTypes

LEMMA TypePartsNext == TypeOK' <=> LoopTypes' /\ ExecutorTypes' /\ GoalTypes'
BY TypeParts, PTL

USE DEF Kinds, Moves, Hand!TypeOK, Hand!Open, Hand!Terminal

LEMMA TasksAre == Tasks = {"MOVE_POSE_1", "GRASP", "MOVE_POSE_2", "RUN_RL"}
BY DEF Tasks, Before

-----------------------------------------------------------------------------
(* The parts of the state that actions leave alone                         *)

\* The goals are counted by their kind alone.
LEMMA GoalsKept ==
  ASSUME GoalsInv, UNCHANGED <<sent, asked, exec, requests>>,
         activation' = activation
  PROVE  GoalsInv'
BY DEF GoalsInv, GoalsOf, Raised, Taken

LEMMA GoalsOfKept ==
  ASSUME UNCHANGED sent, NEW k
  PROVE  GoalsOf(k)' = GoalsOf(k)
BY DEF GoalsOf

LEMMA GoalsOfGrow ==
  ASSUME TypeOK, NEW kind \in Kinds, NEW n,
         sent' = Append(sent, [kind |-> kind, activation |-> n]),
         NEW k \in Kinds
  PROVE  GoalsOf(k)' = IF k = kind THEN GoalsOf(k) \cup {Len(sent) + 1}
                       ELSE GoalsOf(k)
<1>1. Len(sent') = Len(sent) + 1 /\ Len(sent) \in Nat
  BY DEF TypeOK
<1>2. \A g \in 1 .. Len(sent) : sent'[g] = sent[g]
  BY DEF TypeOK
<1>3. sent'[Len(sent) + 1].kind = kind
  BY DEF TypeOK
<1>4. 1 .. Len(sent') = 1 .. Len(sent) \cup {Len(sent) + 1}
  BY <1>1
<1> QED BY <1>1, <1>2, <1>3, <1>4 DEF GoalsOf

LEMMA GoalsOfSmall ==
  ASSUME TypeOK, NEW k
  PROVE  Len(sent) + 1 \notin GoalsOf(k)
BY DEF TypeOK, GoalsOf

\* The gripper's steps keep the types of its variables.
LEMMA HandType ==
  ASSUME TypeOK, NEW g \in Ids, HandStep(g)
  PROVE  Hand!TypeOK'
BY DEF TypeOK, HandStep, Hand!Begin, Hand!Reach, Hand!Stop, Hand!Report

-----------------------------------------------------------------------------
LEMMA InitInv == Init => IInv
<1> SUFFICES ASSUME Init PROVE IInv
  OBVIOUS
<1>1. TypeOK
  <2>1. /\ sent \in Seq([kind : Kinds, activation : 1 .. MaxActivations])
        /\ Len(sent) <= MaxGoals /\ awaited \subseteq 1 .. Len(sent)
    BY GoalsAssumption DEF Init
  <2>2. Hand!TypeOK
    BY DEF Init, Hand!Init
  <2>3. LoopTypes
    <3>1. activation \in 0 .. MaxActivations
      BY ActivationsAssumption DEF Init
    <3>2. timers \in BOOLEAN /\ overdue \in BOOLEAN
      BY DEF Init
    <3>3. finished \subseteq Tasks /\ ended \subseteq Tasks /\ cmd \in Commands
      BY DEF Init, Commands
    <3> QED BY <3>1, <3>2, <3>3 DEF Init, LoopTypes
  <2>4. ExecutorTypes
    BY DEF Init, ExecutorTypes
  <2> QED BY <2>1, <2>2, <2>3, <2>4, TypeParts DEF GoalTypes
<1>2. LoopInv
  BY DEF Init, LoopInv
<1>3. GoalsInv
  <2>1. \A k : GoalsOf(k) = {}
    BY DEF Init, GoalsOf
  <2>2. \A k \in Kinds : Raised(k) = 0 /\ Taken(k) = 0 /\ asked[k] = 0
    BY DEF Init, Raised, Taken
  <2>3. \A k \in Kinds : IsFiniteSet(GoalsOf(k)) /\ Cardinality(GoalsOf(k)) = 0
    BY <2>1, FS_EmptySet
  <2> QED BY <2>2, <2>3 DEF GoalsInv
<1> QED BY <1>1, <1>2, <1>3 DEF IInv

\* The lifecycle.
LEMMA LifecycleInv ==
  ASSUME IInv, on_configure \/ on_cleanup \/ on_activate \/ on_deactivate
  PROVE  IInv'
<1>1. CASE on_configure
  <2>1. TypeOK' /\ LoopInv'
    BY <1>1 DEF on_configure, IInv, TypeOK, LoopInv, handshake, goals
  <2> QED BY <1>1, <2>1, GoalsKept DEF on_configure, IInv, goals
<1>2. CASE on_cleanup
  <2>1. TypeOK' /\ LoopInv'
    BY <1>2 DEF on_cleanup, IInv, TypeOK, LoopInv, handshake, goals
  <2> QED BY <1>2, <2>1, GoalsKept DEF on_cleanup, IInv, goals
<1>3. CASE on_activate
  <2>1. TypeOK'
    BY <1>3, ActivationsAssumption DEF on_activate, IInv, TypeOK, handshake, goals, Commands
  <2>2. LoopInv'
    BY <1>3 DEF on_activate, IInv, LoopInv, TypeOK
  <2>3. GoalsInv'
    <3>1. \A k \in Kinds : Raised(k)' <= Raised(k) /\ Raised(k)' \in {0, 1} /\ Raised(k) \in {0, 1}
      BY <1>3 DEF on_activate, Raised
    <3>2. \A k \in Kinds : Taken(k)' = Taken(k) /\ Taken(k) \in {0, 1}
      BY <1>3 DEF on_activate, Taken
    <3>3. \A k \in Kinds : GoalsOf(k)' = GoalsOf(k)
      BY <1>3, GoalsOfKept DEF on_activate, goals
    <3>4. \A k \in Kinds : Cardinality(GoalsOf(k)) \in Nat /\ asked[k] \in Nat
      BY FS_CardinalityType DEF IInv, GoalsInv, TypeOK
    <3>5. activation' > 0
      BY <1>3 DEF on_activate, IInv, TypeOK
    <3> QED BY <1>3, <3>1, <3>2, <3>3, <3>4, <3>5 DEF on_activate, IInv, GoalsInv
  <2> QED BY <2>1, <2>2, <2>3 DEF IInv
<1>4. CASE on_deactivate
  <2>1. TypeOK' /\ LoopInv'
    BY <1>4 DEF on_deactivate, IInv, TypeOK, LoopInv, handshake, goals
  <2> QED BY <1>4, <2>1, GoalsKept DEF on_deactivate, IInv, goals
<1> QED BY <1>1, <1>2, <1>3, <1>4

\* The warm-up, motions and waiting of the control loop raise no request but
\* the one to open.
LEMMA CycleInv ==
  ASSUME IInv,
         \/ ResetHandshake
         \/ \E ends \in BOOLEAN : MoveArm(ends)
         \/ \E late \in BOOLEAN : AwaitGrasp(late)
         \/ JudgeGrasp
         \/ SkipCycle
  PROVE  IInv'
<1> USE TasksAre DEF End, handshake, goals
<1>1. TypeOK' /\ LoopInv'
  <2>1. CASE ResetHandshake
    BY <2>1 DEF ResetHandshake, IInv, TypeOK, LoopInv
  <2>2. ASSUME NEW ends \in BOOLEAN, MoveArm(ends)
        PROVE  TypeOK' /\ LoopInv'
    <3>1. LoopTypes'
      BY <2>2, TypeParts DEF MoveArm, IInv, LoopTypes
    <3>2. ExecutorTypes' /\ GoalTypes'
      BY <2>2, TypeParts DEF MoveArm, IInv, ExecutorTypes, GoalTypes
    <3>3. LoopInv'
      BY <2>2 DEF MoveArm, IInv, LoopInv
    <3> QED BY <3>1, <3>2, <3>3, TypePartsNext
  <2>3. ASSUME NEW late \in BOOLEAN, AwaitGrasp(late)
        PROVE  TypeOK' /\ LoopInv'
    <3>1. LoopTypes'
      BY <2>3, TypeParts DEF AwaitGrasp, IInv, LoopTypes
    <3>2. ExecutorTypes' /\ GoalTypes'
      BY <2>3, TypeParts DEF AwaitGrasp, IInv, ExecutorTypes, GoalTypes
    <3>3. LoopInv'
      BY <2>3 DEF AwaitGrasp, IInv, LoopInv
    <3> QED BY <3>1, <3>2, <3>3, TypePartsNext
  <2>4. CASE JudgeGrasp
    BY <2>4 DEF JudgeGrasp, IInv, TypeOK, LoopInv
  <2>5. CASE SkipCycle
    BY <2>5 DEF SkipCycle, IInv, TypeOK, LoopInv
  <2> QED BY <2>1, <2>2, <2>3, <2>4, <2>5
<1>2. GoalsInv'
  BY GoalsKept DEF IInv, ResetHandshake, MoveArm, AwaitGrasp, JudgeGrasp, SkipCycle
<1> QED BY <1>1, <1>2 DEF IInv

\* A request that is raised is counted when it is.
LEMMA RaiseInv ==
  ASSUME IInv, NEW k \in Kinds, activation > 0,
         requests' = requests \cup {k},
         asked' = [asked EXCEPT ![k] = @ + 1],
         UNCHANGED <<sent, exec, activation>>
  PROVE  GoalsInv'
<1>1. \A h \in Kinds : GoalsOf(h)' = GoalsOf(h)
  BY GoalsOfKept
<1>2. \A h \in Kinds : Cardinality(GoalsOf(h)) \in Nat /\ asked[h] \in Nat
  BY FS_CardinalityType DEF IInv, GoalsInv, TypeOK
<1>3. \A h \in Kinds : /\ Taken(h)' = Taken(h) /\ Taken(h) \in {0, 1}
                       /\ Raised(h) \in {0, 1} /\ Raised(h)' \in {0, 1}
                       /\ h # k => Raised(h)' = Raised(h)
  BY DEF Taken, Raised
<1>4. \A h \in Kinds : asked'[h] = IF h = k THEN asked[h] + 1 ELSE asked[h]
  BY DEF IInv, TypeOK
<1> QED BY <1>1, <1>2, <1>3, <1>4 DEF IInv, GoalsInv

LEMMA SelectTaskInv == IInv /\ SelectTask => IInv'
<1> SUFFICES ASSUME IInv, SelectTask PROVE IInv'
  OBVIOUS
<1>1. CASE Effective = last
  <2>1. TypeOK' /\ LoopInv'
    BY <1>1 DEF SelectTask, IInv, TypeOK, LoopInv, handshake, goals
  <2>2. GoalsInv'
    BY <1>1, GoalsKept DEF SelectTask, IInv, goals
  <2> QED BY <2>1, <2>2 DEF IInv
<1>2. CASE Effective # last
  <2>1. last' \in Tasks
    BY <1>2 DEF SelectTask, Effective
  <2>2. TypeOK' /\ LoopInv'
    <3>1. LoopTypes'
      BY <1>2, <2>1, TypeParts, TasksAre DEF SelectTask, IInv, LoopTypes
    <3>2. asked' \in [Kinds -> Nat]
      BY <1>2, TypeParts DEF SelectTask, IInv, ExecutorTypes
    <3>3. requests' \subseteq Kinds
      BY <1>2, TypeParts DEF SelectTask, IInv, ExecutorTypes
    <3>4. ExecutorTypes'
      BY <3>2, <3>3, TypeParts DEF SelectTask, IInv, ExecutorTypes, handshake
    <3>5. GoalTypes'
      BY TypeParts DEF SelectTask, IInv, GoalTypes, goals
    <3>6. LoopInv'
      BY <1>2, <2>1, TasksAre DEF SelectTask, IInv, LoopInv
    <3> QED BY <3>1, <3>4, <3>5, <3>6, TypePartsNext
  <2>3. CASE last' = "GRASP"
    <3>1. activation > 0
      BY DEF SelectTask, IInv, LoopInv
    <3> QED BY <1>2, <2>2, <2>3, <3>1, RaiseInv DEF SelectTask, IInv, goals
  <2>4. CASE last' # "GRASP"
    BY <1>2, <2>2, <2>4, GoalsKept DEF SelectTask, IInv, goals
  <2> QED BY <2>3, <2>4
<1> QED BY <1>1, <1>2

LEMMA WarmUpInv ==
  ASSUME IInv, NEW next, WarmUpCycle(next)
  PROVE  IInv'
<1>1. TypeOK' /\ LoopInv'
  <2>1. LoopTypes'
    BY TypeParts DEF WarmUpCycle, IInv, LoopTypes
  <2>2. asked' \in [Kinds -> Nat]
    BY TypeParts DEF WarmUpCycle, IInv, ExecutorTypes
  <2>3. requests' \subseteq Kinds
    BY TypeParts DEF WarmUpCycle, IInv, ExecutorTypes
  <2>4. ExecutorTypes'
    BY <2>2, <2>3, TypeParts DEF WarmUpCycle, IInv, ExecutorTypes, handshake
  <2>5. GoalTypes'
    BY TypeParts DEF WarmUpCycle, IInv, GoalTypes, goals
  <2>6. LoopInv'
    BY DEF WarmUpCycle, IInv, LoopInv
  <2> QED BY <2>1, <2>4, <2>5, <2>6, TypePartsNext
<1>2. CASE warmup = "holding" /\ next = "asked"
  <2>1. activation > 0
    BY DEF WarmUpCycle, IInv, LoopInv
  <2> QED BY <1>1, <1>2, <2>1, RaiseInv DEF WarmUpCycle, IInv, goals
<1>3. CASE ~(warmup = "holding" /\ next = "asked")
  BY <1>1, <1>3, GoalsKept DEF WarmUpCycle, IInv, goals
<1> QED BY <1>2, <1>3

-----------------------------------------------------------------------------
(* The executor and the gripper                                            *)

\* Taking a request, and raising it again, moves it between the two places
\* where it is counted.
LEMMA TimerInv ==
  ASSUME IInv, GripperTimer \/ ServerUnavailable
  PROVE  IInv'
<1> USE DEF loop, handshake, goals
<1>1. TypeOK' /\ LoopInv'
  <2>1. LoopTypes' /\ LoopInv'
    BY TypeParts DEF GripperTimer, ServerUnavailable, IInv, LoopTypes, LoopInv
  <2>2. exec' \in {"idle", "send_move", "send_grasp"} /\ requests' \subseteq Kinds
    BY TypeParts DEF GripperTimer, ServerUnavailable, Sending, IInv, ExecutorTypes
  <2>3. ExecutorTypes'
    BY <2>2, TypeParts DEF GripperTimer, ServerUnavailable, IInv, ExecutorTypes
  <2>4. GoalTypes'
    BY TypeParts DEF GripperTimer, ServerUnavailable, IInv, GoalTypes
  <2> QED BY <2>1, <2>3, <2>4, TypePartsNext
<1>2. \A k \in Kinds : GoalsOf(k)' = GoalsOf(k)
  BY GoalsOfKept DEF GripperTimer, ServerUnavailable
<1>3. \A k \in Kinds : Cardinality(GoalsOf(k)) \in Nat /\ asked[k] \in Nat
  BY FS_CardinalityType DEF IInv, GoalsInv, TypeOK
<1>4. \A k \in Kinds : /\ Raised(k) \in {0, 1} /\ Taken(k) \in {0, 1}
                       /\ Raised(k)' \in {0, 1} /\ Taken(k)' \in {0, 1}
                       /\ Raised(k)' + Taken(k)' <= Raised(k) + Taken(k)
  <2>1. CASE GripperTimer
    BY <2>1 DEF GripperTimer, Raised, Taken
  <2>2. CASE ServerUnavailable
    BY <2>2 DEF ServerUnavailable, Sending, Raised, Taken
  <2> QED BY <2>1, <2>2
<1>5. asked' = asked /\ activation' = activation
  BY DEF GripperTimer, ServerUnavailable
<1>6. GoalsInv'
  BY <1>2, <1>3, <1>4, <1>5 DEF IInv, GoalsInv
<1> QED BY <1>1, <1>6 DEF IInv

LEMMA SendGoalInv == IInv /\ SendGoal => IInv'
<1> SUFFICES ASSUME IInv, SendGoal PROVE IInv'
  OBVIOUS
<1> USE DEF loop
<1>1. Sending \in Kinds /\ Taken(Sending) = 1
  BY DEF SendGoal, Sending, Taken
<1>2. activation \in 1 .. MaxActivations
  BY <1>1, ActivationsAssumption DEF IInv, GoalsInv, TypeOK
<1>3. /\ Len(sent) \in Nat /\ Len(sent') = Len(sent) + 1
      /\ sent' \in Seq([kind : Kinds, activation : 1 .. MaxActivations])
  BY <1>1, <1>2 DEF SendGoal, IInv, TypeOK
<1>4. Hand!TypeOK'
  BY DEF SendGoal, IInv, TypeOK, Hand!Accept
<1>5. Len(sent') <= MaxGoals
  BY <1>3, GoalsAssumption DEF SendGoal
<1>6. awaited' \subseteq 1 .. Len(sent')
  <2>1. awaited' \subseteq awaited \cup {Len(sent')}
    BY DEF SendGoal
  <2>2. awaited \subseteq 1 .. Len(sent)
    BY DEF IInv, TypeOK
  <2> QED BY <1>3, <2>1, <2>2
<1>7. TypeOK'
  <2>1. LoopTypes'
    BY TypeParts DEF SendGoal, IInv, LoopTypes
  <2>2. done' \in BOOLEAN /\ success' \in BOOLEAN /\ reported' \in BOOLEAN
    BY TypeParts DEF SendGoal, IInv, ExecutorTypes, handshake
  <2>3. ExecutorTypes'
    BY <2>2, TypeParts DEF SendGoal, IInv, ExecutorTypes
  <2>4. GoalTypes'
    BY <1>3, <1>4, <1>5, <1>6 DEF GoalTypes
  <2> QED BY <2>1, <2>3, <2>4, TypePartsNext
<1>8. LoopInv'
  BY DEF SendGoal, IInv, LoopInv
<1>9. GoalsInv'
  <2>1. \A k \in Kinds : /\ IsFiniteSet(GoalsOf(k))
                         /\ Cardinality(GoalsOf(k)) \in Nat /\ asked[k] \in Nat
    BY FS_CardinalityType DEF IInv, GoalsInv, TypeOK
  <2>2. ASSUME NEW k \in Kinds, k # Sending
        PROVE  GoalsOf(k)' = GoalsOf(k)
    BY <1>1, <2>2, GoalsOfGrow DEF SendGoal, IInv
  <2>3. /\ IsFiniteSet(GoalsOf(Sending) \cup {Len(sent) + 1})
        /\ Cardinality(GoalsOf(Sending) \cup {Len(sent) + 1})
             = Cardinality(GoalsOf(Sending)) + 1
    BY <1>1, <2>1, GoalsOfSmall, FS_AddElement DEF IInv
  <2>4. ASSUME NEW k \in Kinds, k = Sending
        PROVE  GoalsOf(k)' = GoalsOf(k) \cup {Len(sent) + 1}
    BY <1>1, <2>4, GoalsOfGrow DEF SendGoal, IInv
  <2>5. \A k \in Kinds : /\ Raised(k)' = Raised(k) /\ Raised(k) \in {0, 1}
                         /\ Taken(k)' = 0
    BY DEF SendGoal, Raised, Taken
  <2>6. \A k \in Kinds : k # Sending => Taken(k) = 0
    BY DEF SendGoal, Sending, Taken
  <2>7. asked' = asked /\ activation' = activation
    BY DEF SendGoal
  <2>8. ASSUME NEW k \in Kinds
        PROVE  /\ IsFiniteSet(GoalsOf(k)')
               /\ Cardinality(GoalsOf(k)') + Raised(k)' + Taken(k)' <= asked'[k]
    <3>1. CASE k = Sending
      <4>1. Cardinality(GoalsOf(k)) + Raised(k) + 1 <= asked[k]
        BY <1>1, <3>1 DEF IInv, GoalsInv
      <4>2. IsFiniteSet(GoalsOf(k)') /\ Cardinality(GoalsOf(k)') = Cardinality(GoalsOf(k)) + 1
        BY <2>3, <2>4, <3>1
      <4> QED BY <2>1, <2>5, <2>7, <4>1, <4>2
    <3>2. CASE k # Sending
      <4>1. Cardinality(GoalsOf(k)) + Raised(k) + 0 <= asked[k]
        BY <2>6, <3>2 DEF IInv, GoalsInv
      <4>2. GoalsOf(k)' = GoalsOf(k) /\ IsFiniteSet(GoalsOf(k))
        BY <2>1, <2>2, <3>2
      <4> QED BY <2>1, <2>5, <2>7, <4>1, <4>2
    <3> QED BY <3>1, <3>2
  <2>9. \A k \in Kinds : Raised(k)' = 1 \/ Taken(k)' = 1 => activation' > 0
    BY <2>5, <2>7 DEF IInv, GoalsInv
  <2> QED BY <2>8, <2>9 DEF GoalsInv
<1> QED BY <1>7, <1>8, <1>9 DEF IInv

LEMMA ExecutorInv ==
  ASSUME IInv,
         \/ \E c \in Commands : TaskCommand(c)
         \/ StoreSuccess
         \/ \E g \in Ids : ResultArrives(g) \/ HandStep(g)
  PROVE  IInv'
<1> USE DEF loop, handshake, goals, hand
<1>1. CASE \E c \in Commands : TaskCommand(c)
  <2>1. TypeOK' /\ LoopInv'
    BY <1>1 DEF TaskCommand, IInv, TypeOK, LoopInv
  <2> QED BY <1>1, <2>1, GoalsKept DEF TaskCommand, IInv
<1>2. CASE StoreSuccess
  <2>1. TypeOK' /\ LoopInv'
    BY <1>2 DEF StoreSuccess, IInv, TypeOK, LoopInv
  <2>2. \A k \in Kinds : /\ Raised(k)' = Raised(k) /\ Taken(k)' = Taken(k)
                         /\ GoalsOf(k)' = GoalsOf(k)
    BY <1>2, GoalsOfKept DEF StoreSuccess, Raised, Taken
  <2> QED BY <1>2, <2>1, <2>2 DEF StoreSuccess, IInv, GoalsInv
<1>3. ASSUME NEW g \in Ids, ResultArrives(g) PROVE IInv'
  <2>1. TypeOK' /\ LoopInv'
    BY <1>3 DEF ResultArrives, IInv, TypeOK, LoopInv
  <2>2. \A k \in Kinds : /\ Raised(k)' = Raised(k) /\ Taken(k)' = Taken(k)
                         /\ GoalsOf(k)' = GoalsOf(k)
    BY <1>3, GoalsOfKept DEF ResultArrives, Raised, Taken
  <2> QED BY <1>3, <2>1, <2>2 DEF ResultArrives, IInv, GoalsInv
<1>4. ASSUME NEW g \in Ids, HandStep(g) PROVE IInv'
  <2>1. TypeOK' /\ LoopInv'
    BY <1>4, HandType DEF HandStep, IInv, TypeOK, LoopInv
  <2> QED BY <1>4, <2>1, GoalsKept DEF HandStep, IInv
<1> QED BY <1>1, <1>2, <1>3, <1>4

LEMMA NextInv == IInv /\ [Next]_vars => IInv'
<1> SUFFICES ASSUME IInv, [Next]_vars PROVE IInv'
  OBVIOUS
<1>1. CASE UNCHANGED vars
  <2>1. TypeOK' /\ LoopInv'
    BY <1>1 DEF vars, loop, handshake, goals, IInv, TypeOK, LoopInv
  <2> QED BY <1>1, <2>1, GoalsKept DEF vars, loop, goals, IInv
<1>2. CASE Next
  BY <1>2, LifecycleInv, CycleInv, SelectTaskInv, WarmUpInv, TimerInv, SendGoalInv,
     ExecutorInv DEF Next
<1> QED BY <1>1, <1>2

LEMMA Invariance == Spec => []IInv
BY InitInv, NextInv, PTL DEF Spec

-----------------------------------------------------------------------------
(* One grasp per activation: what ties a request, its goal and its result  *)
(* to the GRASP they are for, when the timer is in time and the controller *)
(* is deactivated with nothing open.                                       *)

InTime == {"timer_in_time", "settles_first"} \subseteq Discipline

Own(g)       == sent[g] = [kind |-> "grasp", activation |-> activation]
OwnGoals     == {g \in 1 .. Len(sent) : Own(g)}
OwnSucceeded == \E g \in OwnGoals : status[g] = "succeeded"
Pending      == "grasp" \in requests \/ exec = "send_grasp"
Storing      == exec \in {"store_success", "store_failure"}
NoGraspYet   == awaited = {} /\ ~Storing /\ OwnGoals = {}
InGrasp      == last = "GRASP" /\ last \notin finished

\* Nothing is open outside an activation, and no grasp before GRASP.
AtRest == life # "active" => Settled
Fresh  == last \in {"NONE", "MOVE_POSE_1"} => NoGraspYet

\* A request to grasp is that of the GRASP under way, the first of its
\* activation, and it is taken last.
PendingInGrasp ==
  /\ Pending => InGrasp /\ NoGraspYet
  /\ exec = "send_grasp" => requests = {}

\* The flag done is not an old one once the handshake was reset.
FlagsInGrasp ==
  /\ Pending /\ rt # "entering" => ~done
  /\ rt = "judging" => done
  /\ rt \in {"entering", "judging"} => InGrasp

\* A success that is seen or stored is that of the goal of this activation.
SuccessIsOwn ==
  /\ last = "GRASP" /\ rt # "entering" /\ success => OwnSucceeded
  /\ exec = "store_success" => OwnSucceeded

AwaitedIsOwn == awaited \subseteq OwnGoals

WarmUpFirst ==
  last \notin {"NONE", "MOVE_POSE_1"} \/ "MOVE_POSE_1" \in ended => warmup = "over"

\* The grasp is the last goal of its activation, and of all goals so far.
OwnIsLast ==
  /\ \A g \in OwnGoals :
        g = Len(sent) /\ "move" \notin requests /\ exec # "send_move"
  /\ \A g \in 1 .. Len(sent) : sent[g].activation <= activation

GraspInv ==
  /\ AtRest /\ Fresh /\ PendingInGrasp /\ FlagsInGrasp
  /\ SuccessIsOwn /\ AwaitedIsOwn /\ WarmUpFirst /\ OwnIsLast

\* What the parts say is about these variables and the goals of the
\* activation.
LEMMA OwnKept ==
  ASSUME UNCHANGED <<sent, activation>>
  PROVE  /\ OwnGoals' = OwnGoals
         /\ status' = status => OwnSucceeded' = OwnSucceeded
         /\ (\A g \in 1 .. Len(sent) : sent[g].activation <= activation)'
              = (\A g \in 1 .. Len(sent) : sent[g].activation <= activation)
<1>1. OwnGoals' = OwnGoals
  BY DEF OwnGoals, Own
<1>2. status' = status => OwnSucceeded' = OwnSucceeded
  BY <1>1 DEF OwnSucceeded
<1> QED BY <1>1, <1>2

LEMMA ElementOf ==
  ASSUME NEW S, NEW q \in Seq(S), NEW i \in 1 .. Len(q)
  PROVE  q[i] \in S
OBVIOUS

\* A goal records the activation it was sent in.
LEMMA SentActivation ==
  ASSUME TypeOK, NEW g \in 1 .. Len(sent)
  PROVE  sent[g].activation \in Nat
<1>1. sent \in Seq([kind : Kinds, activation : 1 .. MaxActivations])
  BY DEF TypeOK
<1>2. sent[g] \in [kind : Kinds, activation : 1 .. MaxActivations]
  BY <1>1, ElementOf
<1>3. sent[g].activation \in 1 .. MaxActivations
  BY <1>2
<1> QED BY <1>3, ActivationsAssumption

LEMMA GraspInit == Init => GraspInv
<1> SUFFICES ASSUME Init PROVE GraspInv
  OBVIOUS
<1>1. OwnGoals = {} /\ 1 .. Len(sent) = {}
  BY DEF Init, OwnGoals
<1> QED BY <1>1
  DEF Init, Hand!Init, GraspInv, AtRest, Settled, Fresh, NoGraspYet, PendingInGrasp, Pending,
      Storing, FlagsInGrasp, SuccessIsOwn, AwaitedIsOwn, WarmUpFirst, OwnIsLast

\* The lifecycle: a controller is activated, and deactivated, with nothing
\* open.
LEMMA GraspLifecycle ==
  ASSUME InTime, IInv, GraspInv,
         on_configure \/ on_cleanup \/ on_activate \/ on_deactivate
  PROVE  GraspInv'
<1> USE DEF handshake, goals
<1>1. CASE on_configure \/ on_cleanup \/ on_deactivate
  <2>1. /\ OwnGoals' = OwnGoals /\ OwnSucceeded' = OwnSucceeded
        /\ (\A g \in 1 .. Len(sent) : sent[g].activation <= activation)'
             = (\A g \in 1 .. Len(sent) : sent[g].activation <= activation)
    BY <1>1, OwnKept DEF on_configure, on_cleanup, on_deactivate
  <2>2. /\ UNCHANGED <<last, finished, ended, warmup, rt, exec, requests, done, success,
                       sent, awaited, status>>
        /\ life # "active" \/ Settled
    BY <1>1 DEF on_configure, on_cleanup, on_deactivate, InTime
  <2>3. AtRest'
    BY <2>2 DEF GraspInv, AtRest, Settled
  <2>4. Fresh' /\ PendingInGrasp' /\ FlagsInGrasp'
    BY <2>1, <2>2
    DEF GraspInv, Fresh, NoGraspYet, PendingInGrasp, Pending, Storing, InGrasp, FlagsInGrasp
  <2>5. SuccessIsOwn' /\ AwaitedIsOwn' /\ WarmUpFirst' /\ OwnIsLast'
    BY <2>1, <2>2 DEF GraspInv, SuccessIsOwn, AwaitedIsOwn, WarmUpFirst, OwnIsLast
  <2> QED BY <2>3, <2>4, <2>5 DEF GraspInv
<1>2. CASE on_activate
  <2>1. /\ requests = {} /\ exec = "idle" /\ awaited = {}
        /\ requests' = {} /\ exec' = exec /\ awaited' = awaited /\ last' = "NONE"
        /\ rt = "idle" /\ rt' = "idle" /\ life' = "active" /\ ended' = {} /\ sent' = sent
    BY <1>2 DEF on_activate, GraspInv, AtRest, Settled, IInv, LoopInv, TypeOK
  <2>2. \A g \in 1 .. Len(sent) :
          sent[g].activation <= activation /\ activation' > sent[g].activation
    <3>1. activation \in Nat /\ activation' = activation + 1
      BY <1>2 DEF on_activate, IInv, TypeOK
    <3>2. \A g \in 1 .. Len(sent) : sent[g].activation \in Nat
      BY SentActivation DEF IInv
    <3> QED BY <3>1, <3>2 DEF GraspInv, OwnIsLast
  <2>3. OwnGoals' = {}
    <3>1. ASSUME NEW g \in 1 .. Len(sent) PROVE ~ Own(g)'
      <4>1. sent[g].activation \in Nat /\ activation' > sent[g].activation
        BY <2>2, SentActivation DEF IInv
      <4>2. sent[g].activation # activation'
        BY <4>1
      <4> QED BY <2>1, <4>2 DEF Own
    <3> QED BY <2>1, <3>1 DEF OwnGoals
  <2>4. (\A g \in 1 .. Len(sent) : sent[g].activation <= activation)'
    <3>1. activation \in Nat /\ activation' = activation + 1
      BY <1>2 DEF on_activate, IInv, TypeOK
    <3>2. \A g \in 1 .. Len(sent) : sent[g].activation \in Nat
      BY SentActivation DEF IInv
    <3> QED BY <2>1, <2>2, <3>1, <3>2
  <2>5. AtRest' /\ Fresh' /\ PendingInGrasp' /\ FlagsInGrasp'
    BY <2>1, <2>3
    DEF AtRest, Fresh, NoGraspYet, PendingInGrasp, Pending, Storing, FlagsInGrasp
  <2>6. SuccessIsOwn' /\ AwaitedIsOwn' /\ WarmUpFirst' /\ OwnIsLast'
    BY <2>1, <2>3, <2>4 DEF SuccessIsOwn, AwaitedIsOwn, WarmUpFirst, OwnIsLast
  <2> QED BY <2>5, <2>6 DEF GraspInv
<1> QED BY <1>1, <1>2

\* Entering a task: only GRASP raises a request, and only after a motion of
\* this activation has ended, with nothing of an earlier grasp left.
LEMMA GraspSelect ==
  ASSUME InTime, IInv, GraspInv, SelectTask
  PROVE  GraspInv'
<1> USE DEF handshake, goals
<1>1. /\ OwnGoals' = OwnGoals /\ OwnSucceeded' = OwnSucceeded
      /\ (\A g \in 1 .. Len(sent) : sent[g].activation <= activation)'
           = (\A g \in 1 .. Len(sent) : sent[g].activation <= activation)
  BY OwnKept DEF SelectTask
<1>2. /\ life = "active" /\ rt = "idle" /\ last' = Effective
      /\ UNCHANGED <<life, ended, warmup, exec, done, success, sent, awaited, status>>
  BY DEF SelectTask
<1>3. AtRest'
  BY <1>2 DEF AtRest
<1>4. CASE Effective = last
  <2>1. UNCHANGED <<last, finished, requests>> /\ rt' = "working"
    BY <1>4 DEF SelectTask
  <2>2. Fresh' /\ PendingInGrasp' /\ FlagsInGrasp'
    BY <1>1, <1>2, <2>1
    DEF GraspInv, Fresh, NoGraspYet, PendingInGrasp, Pending, Storing, InGrasp, FlagsInGrasp
  <2>3. SuccessIsOwn' /\ AwaitedIsOwn' /\ WarmUpFirst' /\ OwnIsLast'
    BY <1>1, <1>2, <2>1 DEF GraspInv, SuccessIsOwn, AwaitedIsOwn, WarmUpFirst, OwnIsLast
  <2> QED BY <1>3, <2>2, <2>3 DEF GraspInv
<1>5. CASE Effective # last
  <2>1. /\ last' # last /\ last' \in Tasks /\ last = Before[last']
        /\ last = "NONE" \/ last \in finished
        /\ finished' = finished \ {last'}
    BY <1>2, <1>5 DEF SelectTask, Effective, Locked
  <2>2. ~Pending
    BY <2>1 DEF GraspInv, PendingInGrasp, InGrasp
  <2>3. last' \notin {"NONE", "MOVE_POSE_1"} => warmup = "over"
    <3>1. last' \notin {"NONE", "MOVE_POSE_1"} => last # "NONE"
      BY <2>1, TasksAre DEF Before
    <3> QED BY <2>1, <3>1 DEF GraspInv, WarmUpFirst, IInv, LoopInv
  <2>4. last' = "MOVE_POSE_1" => last = "NONE"
    BY <2>1 DEF Before
  <2>5. WarmUpFirst' /\ AwaitedIsOwn'
    BY <1>1, <1>2, <2>3 DEF GraspInv, AwaitedIsOwn, WarmUpFirst
  <2>6. CASE last' = "GRASP"
    <3>1. requests' = requests \cup {"grasp"} /\ rt' = "entering"
      BY <1>5, <2>6 DEF SelectTask
    <3>2. NoGraspYet /\ exec # "send_grasp"
      BY <2>1, <2>2, <2>6 DEF Before, GraspInv, Fresh, Pending
    <3>3. NoGraspYet' /\ InGrasp'
      BY <1>1, <1>2, <2>1, <2>6, <3>2 DEF NoGraspYet, Storing, InGrasp
    <3>4. Fresh' /\ PendingInGrasp' /\ FlagsInGrasp'
      BY <1>2, <2>6, <3>1, <3>2, <3>3 DEF Fresh, PendingInGrasp, FlagsInGrasp
    <3>5. SuccessIsOwn' /\ OwnIsLast'
      BY <1>1, <1>2, <3>1, <3>2 DEF GraspInv, SuccessIsOwn, OwnIsLast, NoGraspYet, Storing
    <3> QED BY <1>3, <2>5, <3>4, <3>5 DEF GraspInv
  <2>7. CASE last' # "GRASP"
    <3>1. requests' = requests /\ rt' = "working"
      BY <1>5, <2>7 DEF SelectTask
    <3>2. ~Pending'
      BY <1>2, <2>2, <3>1 DEF Pending
    <3>3. Fresh'
      BY <1>1, <1>2, <2>1, <2>4, TasksAre DEF GraspInv, Fresh, NoGraspYet, Storing
    <3>4. PendingInGrasp' /\ FlagsInGrasp'
      BY <3>1, <3>2 DEF PendingInGrasp, FlagsInGrasp, Pending
    <3>5. SuccessIsOwn' /\ OwnIsLast'
      BY <1>1, <1>2, <2>7, <3>1 DEF GraspInv, SuccessIsOwn, OwnIsLast
    <3> QED BY <1>3, <2>5, <3>3, <3>4, <3>5 DEF GraspInv
  <2> QED BY <2>6, <2>7
<1> QED BY <1>4, <1>5

\* The rest of a cycle raises no request to grasp and takes none; the flags are
\* reset before they are read, and GRASP ends early only when its request has
\* become a goal.
LEMMA GraspCycle ==
  ASSUME InTime, IInv, GraspInv,
         \/ ResetHandshake
         \/ \E next \in {"holding", "asked", "over"} : WarmUpCycle(next)
         \/ \E ends \in BOOLEAN : MoveArm(ends)
         \/ \E late \in BOOLEAN : AwaitGrasp(late)
         \/ JudgeGrasp
         \/ SkipCycle
  PROVE  GraspInv'
<1> USE DEF handshake, goals, End
<1>1. /\ OwnGoals' = OwnGoals /\ OwnSucceeded' = OwnSucceeded
      /\ (\A g \in 1 .. Len(sent) : sent[g].activation <= activation)'
           = (\A g \in 1 .. Len(sent) : sent[g].activation <= activation)
  BY OwnKept
  DEF ResetHandshake, WarmUpCycle, MoveArm, AwaitGrasp, JudgeGrasp, SkipCycle
<1>2. /\ life = "active" /\ rt # "idle"
      /\ UNCHANGED <<life, last, exec, sent, awaited, status>>
  BY DEF ResetHandshake, WarmUpCycle, MoveArm, AwaitGrasp, JudgeGrasp, SkipCycle, IInv,
         LoopInv
<1>3. AtRest' /\ Fresh' /\ AwaitedIsOwn'
  BY <1>1, <1>2 DEF AtRest, GraspInv, Fresh, NoGraspYet, Storing, AwaitedIsOwn
<1>4. CASE ResetHandshake
  <2>1. /\ UNCHANGED <<requests, finished, ended, warmup>>
        /\ rt' = "working" /\ done' = FALSE /\ success' = FALSE
    BY <1>4 DEF ResetHandshake
  <2>2. PendingInGrasp' /\ FlagsInGrasp'
    BY <1>1, <1>2, <2>1
    DEF GraspInv, NoGraspYet, PendingInGrasp, Pending, Storing, InGrasp, FlagsInGrasp
  <2>3. SuccessIsOwn' /\ WarmUpFirst' /\ OwnIsLast'
    BY <1>1, <1>2, <2>1 DEF GraspInv, SuccessIsOwn, WarmUpFirst, OwnIsLast
  <2> QED BY <1>3, <2>2, <2>3 DEF GraspInv
<1>5. ASSUME NEW next \in {"holding", "asked", "over"}, WarmUpCycle(next)
      PROVE  GraspInv'
  <2>1. /\ warmup # "over" /\ rt = "working" /\ rt' = "idle"
        /\ requests' \in {requests, requests \cup {"move"}}
        /\ UNCHANGED <<finished, ended, done, success>>
    BY <1>5 DEF WarmUpCycle
  <2>2. last \in {"NONE", "MOVE_POSE_1"} /\ "MOVE_POSE_1" \notin ended
    BY <2>1 DEF GraspInv, WarmUpFirst
  <2>3. NoGraspYet /\ ~Pending
    BY <2>2 DEF GraspInv, Fresh, PendingInGrasp, InGrasp
  <2>4. ~Pending'
    BY <1>2, <2>1, <2>3 DEF Pending
  <2>5. PendingInGrasp' /\ FlagsInGrasp'
    BY <2>1, <2>4 DEF PendingInGrasp, Pending, FlagsInGrasp
  <2>6. SuccessIsOwn' /\ WarmUpFirst' /\ OwnIsLast'
    BY <1>1, <1>2, <2>1, <2>2, <2>3
    DEF GraspInv, SuccessIsOwn, WarmUpFirst, OwnIsLast, NoGraspYet
  <2> QED BY <1>3, <2>5, <2>6 DEF GraspInv
<1>6. CASE \/ \E ends \in BOOLEAN : MoveArm(ends)
           \/ SkipCycle
  <2>1. /\ rt' = "idle" /\ UNCHANGED <<requests, warmup, done, success>>
        /\ last # "GRASP" \/ finished' = finished
        /\ ended' = ended \/ warmup = "over"
        /\ rt = "working"
    BY <1>6 DEF MoveArm, SkipCycle, Moves
  <2>2. last = "GRASP" => InGrasp' = InGrasp
    BY <1>2, <2>1 DEF InGrasp
  <2>3. PendingInGrasp' /\ FlagsInGrasp'
    BY <1>1, <1>2, <2>1, <2>2
    DEF GraspInv, NoGraspYet, PendingInGrasp, Pending, Storing, InGrasp, FlagsInGrasp
  <2>4. SuccessIsOwn' /\ WarmUpFirst' /\ OwnIsLast'
    BY <1>1, <1>2, <2>1 DEF GraspInv, SuccessIsOwn, WarmUpFirst, OwnIsLast
  <2> QED BY <1>3, <2>3, <2>4 DEF GraspInv
<1>7. ASSUME NEW late \in BOOLEAN, AwaitGrasp(late)
      PROVE  GraspInv'
  <2>1. /\ rt = "working" /\ warmup = "over" /\ InGrasp
        /\ UNCHANGED <<requests, warmup, done, success>>
        /\ rt' = IF done THEN "judging" ELSE "idle"
        /\ finished' = finished \/ (~done /\ late)
    BY <1>7 DEF AwaitGrasp, InGrasp
  <2>2. late => ~Pending
    BY <1>7 DEF AwaitGrasp, InTime, Pending
  <2>3. Pending' = Pending /\ NoGraspYet' = NoGraspYet
    BY <1>1, <1>2, <2>1 DEF Pending, NoGraspYet, Storing
  <2>4. finished' = finished => InGrasp'
    BY <1>2, <2>1 DEF InGrasp
  <2>5. PendingInGrasp'
    BY <1>2, <2>1, <2>2, <2>3, <2>4 DEF GraspInv, PendingInGrasp
  <2>6. FlagsInGrasp'
    BY <2>1, <2>2, <2>3, <2>4 DEF GraspInv, FlagsInGrasp
  <2>7. SuccessIsOwn' /\ WarmUpFirst' /\ OwnIsLast'
    BY <1>1, <1>2, <2>1 DEF GraspInv, SuccessIsOwn, WarmUpFirst, OwnIsLast
  <2> QED BY <1>3, <2>5, <2>6, <2>7 DEF GraspInv
<1>8. CASE JudgeGrasp
  <2>1. /\ rt = "judging" /\ rt' = "idle"
        /\ UNCHANGED <<requests, warmup, done, success>>
        /\ ended' \in {ended, ended \cup {last}} /\ last = "GRASP"
    BY <1>8 DEF JudgeGrasp, GraspInv, FlagsInGrasp, InGrasp
  <2>2. ~Pending /\ ~Pending'
    BY <1>2, <2>1 DEF GraspInv, FlagsInGrasp, Pending
  <2>3. PendingInGrasp' /\ FlagsInGrasp'
    BY <2>1, <2>2 DEF PendingInGrasp, Pending, FlagsInGrasp
  <2>4. SuccessIsOwn' /\ WarmUpFirst' /\ OwnIsLast'
    BY <1>1, <1>2, <2>1 DEF GraspInv, SuccessIsOwn, WarmUpFirst, OwnIsLast
  <2> QED BY <1>3, <2>3, <2>4 DEF GraspInv
<1> QED BY <1>4, <1>5, <1>6, <1>7, <1>8

\* Taking a request keeps it pending, and the one to grasp is taken last.
LEMMA GraspTimer ==
  ASSUME InTime, IInv, GraspInv, GripperTimer \/ ServerUnavailable
  PROVE  GraspInv'
<1> USE DEF loop, handshake, goals
<1>1. /\ OwnGoals' = OwnGoals /\ OwnSucceeded' = OwnSucceeded
      /\ (\A g \in 1 .. Len(sent) : sent[g].activation <= activation)'
           = (\A g \in 1 .. Len(sent) : sent[g].activation <= activation)
  BY OwnKept DEF GripperTimer, ServerUnavailable
<1>2. /\ UNCHANGED <<life, last, finished, ended, warmup, rt, done, success, awaited>>
      /\ requests \subseteq Kinds
  BY DEF GripperTimer, ServerUnavailable, IInv, TypeOK
<1>3. life = "active"
  BY DEF GripperTimer, ServerUnavailable, GraspInv, AtRest, Settled
<1>4. /\ ~Storing' /\ exec' \in {"idle", "send_move", "send_grasp"}
      /\ Pending' => Pending
      /\ exec' = "send_grasp" => requests' = {} /\ exec # "send_move"
      /\ exec' = "send_move" \/ "move" \in requests'
           => exec = "send_move" \/ "move" \in requests
  <2>1. CASE GripperTimer
    BY <2>1 DEF GripperTimer, Storing, Pending
  <2>2. CASE ServerUnavailable
    BY <2>2 DEF ServerUnavailable, Sending, Storing, Pending
  <2> QED BY <2>1, <2>2
<1>5. AtRest' /\ Fresh'
  BY <1>1, <1>2, <1>3, <1>4 DEF GraspInv, AtRest, Fresh, NoGraspYet
<1>6. PendingInGrasp' /\ FlagsInGrasp'
  BY <1>1, <1>2, <1>4 DEF GraspInv, PendingInGrasp, FlagsInGrasp, InGrasp, NoGraspYet
<1>7. SuccessIsOwn' /\ AwaitedIsOwn' /\ WarmUpFirst'
  BY <1>1, <1>2, <1>4 DEF GraspInv, SuccessIsOwn, AwaitedIsOwn, WarmUpFirst
<1>8. OwnIsLast'
  <2>1. sent' = sent
    BY DEF GripperTimer, ServerUnavailable
  <2> QED BY <1>1, <1>4, <2>1 DEF GraspInv, OwnIsLast
<1> QED BY <1>5, <1>6, <1>7, <1>8 DEF GraspInv

\* The goal that is sent for a grasp is the first and only one of its
\* activation; one for a motion comes before it.
LEMMA GraspSend ==
  ASSUME InTime, IInv, GraspInv, SendGoal
  PROVE  GraspInv'
<1> USE DEF loop
<1>0. PICK n : n = Len(sent) + 1
  OBVIOUS
<1>1. /\ UNCHANGED <<life, activation, last, finished, ended, warmup, rt, requests>>
      /\ exec' = "idle" /\ exec \in {"send_move", "send_grasp"}
  BY DEF SendGoal
<1>2. life = "active"
  BY <1>1 DEF GraspInv, AtRest, Settled
<1>3. /\ Len(sent) \in Nat /\ Len(sent') = n
      /\ \A g \in 1 .. Len(sent) : sent'[g] = sent[g]
      /\ sent'[n] = [kind |-> Sending, activation |-> activation]
      /\ 1 .. Len(sent') = 1 .. Len(sent) \cup {n}
  BY <1>0 DEF SendGoal, IInv, TypeOK
<1>4. \A g \in 1 .. Len(sent) : status'[g] = status[g]
  <2>1. Len(sent') = n /\ \A g \in 1 .. Len(sent) : g # n
    BY <1>0, <1>3
  <2>2. status' = [status EXCEPT ![n] = "executing"]
    BY <2>1 DEF SendGoal, Hand!Accept
  <2>3. status \in [Ids -> {"unknown"} \cup Hand!Open \cup Hand!Terminal]
    BY DEF IInv, TypeOK
  <2>4. \A g \in 1 .. Len(sent) : g \in Ids
    BY <1>3, GoalsAssumption DEF Ids, IInv, TypeOK
  <2>5. ASSUME NEW g \in 1 .. Len(sent) PROVE status'[g] = status[g]
    <3>1. g \in Ids /\ g # n
      BY <2>1, <2>4
    <3> QED BY <2>2, <2>3, <3>1
  <2> QED BY <2>5
<1>5. \A g \in 1 .. Len(sent') : sent'[g].activation <= activation'
  <2>1. activation \in Nat
    BY ActivationsAssumption DEF IInv, TypeOK
  <2>2. \A g \in 1 .. Len(sent) : sent'[g].activation <= activation'
    BY <1>1, <1>3 DEF GraspInv, OwnIsLast
  <2>3. sent'[n].activation <= activation'
    BY <1>1, <1>3, <2>1
  <2> QED BY <1>3, <2>2, <2>3
<1>6. CASE exec = "send_move"
  <2>1. UNCHANGED <<done, success, awaited>> /\ Sending = "move"
    BY <1>6 DEF SendGoal, handshake, Sending
  <2>2. OwnGoals = {}
    BY <1>6 DEF GraspInv, OwnIsLast
  <2>3. OwnGoals' = {}
    <3>1. ASSUME NEW g \in 1 .. Len(sent) PROVE ~ Own(g)'
      <4>1. ~ Own(g)
        BY <2>2 DEF OwnGoals
      <4> QED BY <1>1, <1>3, <4>1 DEF Own
    <3>2. ~ Own(n)'
      BY <1>3, <2>1 DEF Own
    <3>3. ASSUME NEW g \in 1 .. Len(sent') PROVE ~ Own(g)'
      BY <1>3, <3>1, <3>2
    <3> QED BY <3>3 DEF OwnGoals
  <2>4. ~OwnSucceeded
    BY <2>2 DEF OwnSucceeded
  <2>5. AtRest' /\ Fresh'
    BY <1>1, <1>2, <2>1, <2>3 DEF AtRest, Fresh, NoGraspYet, Storing, GraspInv
  <2>6. Pending' => Pending
    BY <1>1 DEF Pending
  <2>7. PendingInGrasp' /\ FlagsInGrasp'
    BY <1>1, <2>1, <2>3, <2>6
    DEF PendingInGrasp, FlagsInGrasp, InGrasp, NoGraspYet, Storing, GraspInv
  <2>8. SuccessIsOwn' /\ AwaitedIsOwn' /\ WarmUpFirst' /\ OwnIsLast'
    BY <1>1, <1>5, <2>1, <2>2, <2>3, <2>4
    DEF SuccessIsOwn, AwaitedIsOwn, WarmUpFirst, OwnIsLast, GraspInv
  <2> QED BY <2>5, <2>7, <2>8 DEF GraspInv
<1>7. CASE exec = "send_grasp"
  <2>1. /\ done' = FALSE /\ success' = FALSE /\ awaited' = awaited \cup {n}
        /\ Sending = "grasp"
    BY <1>3, <1>7 DEF SendGoal, Sending
  <2>2. InGrasp /\ NoGraspYet /\ requests = {} /\ Pending
    BY <1>7 DEF GraspInv, PendingInGrasp, Pending
  <2>3. OwnGoals' = {n}
    <3>1. ASSUME NEW g \in 1 .. Len(sent) PROVE ~ Own(g)'
      <4>1. ~ Own(g)
        BY <2>2 DEF OwnGoals, NoGraspYet
      <4> QED BY <1>1, <1>3, <4>1 DEF Own
    <3>2. Own(n)' /\ n \in 1 .. Len(sent')
      BY <1>1, <1>3, <2>1 DEF Own
    <3>3. ASSUME NEW g \in 1 .. Len(sent') PROVE Own(g)' <=> g = n
      BY <1>3, <3>1, <3>2
    <3> QED BY <3>2, <3>3 DEF OwnGoals
  <2>4. ~Pending'
    BY <1>1, <2>2 DEF Pending
  <2>5. AtRest' /\ Fresh'
    BY <1>1, <1>2, <2>2 DEF AtRest, Fresh, InGrasp
  <2>6. PendingInGrasp'
    BY <1>1, <2>4 DEF PendingInGrasp
  <2>7. FlagsInGrasp'
    BY <1>1, <2>1, <2>2, <2>4 DEF FlagsInGrasp, InGrasp, GraspInv
  <2>8. SuccessIsOwn' /\ AwaitedIsOwn'
    BY <1>1, <2>1, <2>2, <2>3 DEF SuccessIsOwn, AwaitedIsOwn, NoGraspYet
  <2>9. WarmUpFirst' /\ OwnIsLast'
    BY <1>1, <1>3, <1>5, <2>2, <2>3 DEF WarmUpFirst, OwnIsLast, GraspInv
  <2> QED BY <2>5, <2>6, <2>7, <2>8, <2>9 DEF GraspInv
<1> QED BY <1>1, <1>6, <1>7

\* A result is that of the one goal that is awaited.
LEMMA GraspResult ==
  ASSUME InTime, IInv, GraspInv,
         StoreSuccess \/ \E g \in Ids : ResultArrives(g)
  PROVE  GraspInv'
<1> USE DEF loop, handshake, goals, hand
<1>1. /\ OwnGoals' = OwnGoals /\ OwnSucceeded' = OwnSucceeded
      /\ (\A g \in 1 .. Len(sent) : sent[g].activation <= activation)'
           = (\A g \in 1 .. Len(sent) : sent[g].activation <= activation)
  BY OwnKept DEF StoreSuccess, ResultArrives
<1>2. UNCHANGED <<life, last, finished, ended, warmup, rt, requests, status>>
  BY DEF StoreSuccess, ResultArrives
<1>3. ASSUME NEW g \in Ids, ResultArrives(g)
      PROVE  GraspInv'
  <2>1. /\ exec = "idle" /\ g \in awaited /\ done' = TRUE /\ success' = success
        /\ exec' = IF status[g] = "succeeded" THEN "store_success" ELSE "store_failure"
        /\ awaited' = awaited \ {g}
    BY <1>3 DEF ResultArrives
  <2>2. life = "active" /\ ~Pending /\ last \notin {"NONE", "MOVE_POSE_1"}
    BY <2>1 DEF GraspInv, AtRest, Settled, PendingInGrasp, NoGraspYet, Fresh
  <2>3. ~Pending'
    BY <1>2, <2>1, <2>2 DEF Pending
  <2>4. exec' = "store_success" => OwnSucceeded
    BY <2>1 DEF GraspInv, AwaitedIsOwn, OwnSucceeded
  <2>5. AtRest' /\ Fresh' /\ PendingInGrasp' /\ FlagsInGrasp'
    BY <1>2, <2>1, <2>2, <2>3
    DEF AtRest, Fresh, PendingInGrasp, FlagsInGrasp, Pending, InGrasp, GraspInv
  <2>6. SuccessIsOwn' /\ AwaitedIsOwn' /\ WarmUpFirst'
    BY <1>1, <1>2, <2>1, <2>4 DEF SuccessIsOwn, AwaitedIsOwn, WarmUpFirst, GraspInv
  <2>7. OwnIsLast'
    <3>1. sent' = sent /\ exec' # "send_move"
      BY <1>3, <2>1 DEF ResultArrives
    <3> QED BY <1>1, <1>2, <3>1 DEF OwnIsLast, GraspInv
  <2> QED BY <2>5, <2>6, <2>7 DEF GraspInv
<1>4. CASE StoreSuccess
  <2>1. /\ Storing /\ exec' = "idle" /\ success' = (exec = "store_success")
        /\ UNCHANGED <<done, awaited>>
    BY <1>4 DEF StoreSuccess, Storing
  <2>2. life = "active" /\ ~Pending /\ last \notin {"NONE", "MOVE_POSE_1"}
    BY <2>1 DEF GraspInv, AtRest, Settled, PendingInGrasp, NoGraspYet, Fresh, Storing
  <2>3. ~Pending'
    BY <1>2, <2>1, <2>2 DEF Pending
  <2>4. AtRest' /\ Fresh' /\ PendingInGrasp' /\ FlagsInGrasp'
    BY <1>2, <2>1, <2>2, <2>3
    DEF AtRest, Fresh, PendingInGrasp, FlagsInGrasp, Pending, InGrasp, GraspInv
  <2>5. SuccessIsOwn' /\ AwaitedIsOwn' /\ WarmUpFirst'
    BY <1>1, <1>2, <2>1 DEF SuccessIsOwn, AwaitedIsOwn, WarmUpFirst, GraspInv
  <2>6. OwnIsLast'
    <3>1. sent' = sent /\ exec' # "send_move"
      BY <1>4, <2>1 DEF StoreSuccess
    <3> QED BY <1>1, <1>2, <3>1 DEF OwnIsLast, GraspInv
  <2> QED BY <2>4, <2>5, <2>6 DEF GraspInv
<1> QED BY <1>3, <1>4

\* Neither a command nor the gripper touches the handshake, and a goal that
\* succeeded stays one.
LEMMA GraspOutside ==
  ASSUME InTime, IInv, GraspInv,
         \/ \E c \in Commands : TaskCommand(c)
         \/ \E g \in Ids : HandStep(g)
  PROVE  GraspInv'
<1> USE DEF loop, handshake, goals, hand
<1>1. OwnGoals' = OwnGoals
  BY OwnKept DEF TaskCommand, HandStep
<1>2. (\A g \in 1 .. Len(sent) : sent[g].activation <= activation)'
           = (\A g \in 1 .. Len(sent) : sent[g].activation <= activation)
  BY OwnKept DEF TaskCommand, HandStep
<1>3. UNCHANGED <<life, last, finished, ended, warmup, rt, exec, requests, done, success,
                  sent, awaited>>
  BY DEF TaskCommand, HandStep
<1>4. \A h \in Ids : status[h] = "succeeded" => status'[h] = "succeeded"
  BY DEF TaskCommand, HandStep, Hand!Begin, Hand!Reach, Hand!Stop, Hand!Report, IInv, TypeOK
<1>5. OwnSucceeded => OwnSucceeded'
  <2>1. OwnGoals \subseteq Ids
    BY GoalsAssumption DEF OwnGoals, Ids, IInv, TypeOK
  <2> QED BY <1>1, <1>4, <2>1 DEF OwnSucceeded
<1>6. AtRest'
  <2>1. CASE \E c \in Commands : TaskCommand(c)
    BY <2>1 DEF TaskCommand, GraspInv, AtRest, Settled
  <2>2. CASE \E g \in Ids : HandStep(g)
    BY <1>3, <2>2
    DEF HandStep, Hand!Begin, Hand!Reach, Hand!Stop, Hand!Report, GraspInv, AtRest, Settled
  <2> QED BY <2>1, <2>2
<1>7. Fresh' /\ PendingInGrasp' /\ FlagsInGrasp'
  BY <1>1, <1>3
  DEF GraspInv, Fresh, NoGraspYet, PendingInGrasp, Pending, Storing, InGrasp, FlagsInGrasp
<1>8. SuccessIsOwn' /\ AwaitedIsOwn' /\ WarmUpFirst' /\ OwnIsLast'
  BY <1>1, <1>2, <1>3, <1>5
  DEF GraspInv, SuccessIsOwn, AwaitedIsOwn, WarmUpFirst, OwnIsLast
<1> QED BY <1>6, <1>7, <1>8 DEF GraspInv

LEMMA GraspNext == ASSUME InTime, IInv, GraspInv, [Next]_vars PROVE GraspInv'
<1>1. CASE UNCHANGED vars
  <2>1. UNCHANGED <<life, activation, last, finished, ended, warmup, rt, exec, requests,
                    done, success, sent, awaited, status>>
    BY <1>1 DEF vars, loop, handshake, goals
  <2>2. /\ OwnGoals' = OwnGoals /\ OwnSucceeded' = OwnSucceeded
        /\ (\A g \in 1 .. Len(sent) : sent[g].activation <= activation)'
             = (\A g \in 1 .. Len(sent) : sent[g].activation <= activation)
    BY <2>1, OwnKept
  <2>3. AtRest' /\ Fresh' /\ PendingInGrasp' /\ FlagsInGrasp'
    BY <2>1, <2>2
    DEF GraspInv, AtRest, Settled, Fresh, NoGraspYet, PendingInGrasp, Pending, Storing,
        InGrasp, FlagsInGrasp
  <2>4. SuccessIsOwn' /\ AwaitedIsOwn' /\ WarmUpFirst' /\ OwnIsLast'
    BY <2>1, <2>2 DEF GraspInv, SuccessIsOwn, AwaitedIsOwn, WarmUpFirst, OwnIsLast
  <2> QED BY <2>3, <2>4 DEF GraspInv
<1>2. CASE Next
  BY <1>2, GraspLifecycle, GraspSelect, GraspCycle, GraspTimer, GraspSend, GraspResult,
     GraspOutside DEF Next
<1> QED BY <1>1, <1>2

LEMMA GraspInvariance == ASSUME InTime PROVE Spec => []GraspInv
<1>1. IInv /\ GraspInv /\ [Next]_vars => GraspInv'
  BY GraspNext
<1> QED BY <1>1, GraspInit, Invariance, PTL DEF Spec

-----------------------------------------------------------------------------
(* The gripper, which begins the goals in the order they were sent         *)

InOrder == "hand_in_order" \in Discipline

\* A goal that began has every earlier one behind it.
HandInv ==
  /\ \A g \in Ids : g > Len(sent) => status[g] = "unknown" /\ motion[g] = "none"
  /\ \A g \in Ids : status[g] = "succeeded" => motion[g] = "reached"
  /\ \A g \in Ids : motion[g] \in {"moving", "reached"} =>
        \A h \in 1 .. g - 1 : motion[h] \notin {"none", "moving"}

LEMMA HandInit == Init => HandInv
BY DEF Init, Hand!Init, HandInv

LEMMA HandNext == ASSUME InOrder, IInv, HandInv, [Next]_vars PROVE HandInv'
<1>1. CASE UNCHANGED <<sent, status, motion>>
  BY <1>1 DEF HandInv
<1>2. CASE SendGoal
  <2>1. Len(sent) \in Nat /\ Len(sent') = Len(sent) + 1 /\ motion' = motion
    BY <1>2 DEF SendGoal, Hand!Accept, IInv, TypeOK
  <2>2. status' = [status EXCEPT ![Len(sent) + 1] = "executing"]
    BY <1>2, <2>1 DEF SendGoal, Hand!Accept
  <2> QED BY <2>1, <2>2 DEF HandInv, Ids, IInv, TypeOK
<1>3. ASSUME NEW g \in Ids, HandStep(g)
      PROVE  HandInv'
  <2>1. sent' = sent /\ g \in 1 .. Len(sent) /\ Len(sent) \in Nat
    BY <1>3 DEF HandStep, IInv, TypeOK
  <2>2. /\ status \in [Ids -> {"unknown"} \cup Hand!Open \cup Hand!Terminal]
        /\ motion \in [Ids -> {"none", "moving", "reached", "stopped"}]
    BY DEF IInv, TypeOK
  <2>3. Ids \subseteq Nat /\ \A k \in Ids : \A h \in 1 .. k - 1 : h \in Ids
    BY GoalsAssumption DEF Ids
  <2>4. CASE Hand!Begin(g)
    <3>1. /\ motion[g] = "none" /\ status' = status /\ status[g] \in Hand!Open
          /\ \A h \in 1 .. g - 1 : motion[h] # "none"
          /\ \A h \in Ids : motion'[h] = IF h = g THEN "moving"
                                         ELSE IF motion[h] = "moving" THEN "stopped"
                                         ELSE motion[h]
      BY <1>3, <2>4 DEF HandStep, InOrder, Hand!Begin, Hand!Reach, Hand!Stop, Hand!Report
    <3>2. \A k \in Ids : k > Len(sent) => status'[k] = "unknown" /\ motion'[k] = "none"
      BY <2>1, <3>1 DEF HandInv
    <3>3. \A k \in Ids : status'[k] = "succeeded" => motion'[k] = "reached"
      BY <3>1 DEF HandInv
    <3>4. ASSUME NEW k \in Ids, motion'[k] \in {"moving", "reached"}, NEW h \in 1 .. k - 1
          PROVE  motion'[h] \notin {"none", "moving"}
      <4>1. CASE k = g
        BY <2>3, <3>1, <3>4, <4>1
      <4>2. CASE k # g
        <5>1. motion[k] = "reached"
          BY <3>1, <3>4, <4>2
        <5>2. motion[h] \notin {"none", "moving"}
          BY <3>4, <5>1 DEF HandInv
        <5>3. h # g
          BY <3>1, <5>2
        <5> QED BY <2>3, <3>1, <3>4, <5>2, <5>3
      <4> QED BY <4>1, <4>2
    <3> QED BY <2>1, <3>2, <3>3, <3>4 DEF HandInv
  <2>5. CASE Hand!Reach(g)
    <3>1. /\ motion[g] = "moving" /\ status' = status /\ status[g] \in Hand!Open
          /\ motion' = [motion EXCEPT ![g] = "reached"]
      BY <2>5 DEF Hand!Reach
    <3> QED BY <2>1, <2>2, <2>3, <3>1 DEF HandInv
  <2>6. CASE Hand!Stop(g)
    <3>1. /\ motion[g] \in {"none", "moving"} /\ status' = status /\ status[g] \in Hand!Open
          /\ motion' = [motion EXCEPT ![g] = "stopped"]
      BY <2>6 DEF Hand!Stop
    <3> QED BY <2>1, <2>2, <2>3, <3>1 DEF HandInv
  <2>7. CASE Hand!Report(g, "aborted") \/ (motion[g] = "reached" /\ Hand!Report(g, "succeeded"))
    <3>1. /\ motion' = motion
          /\ \/ status' = [status EXCEPT ![g] = "aborted"]
             \/ motion[g] = "reached" /\ status' = [status EXCEPT ![g] = "succeeded"]
      BY <2>7 DEF Hand!Report
    <3> QED BY <2>1, <2>2, <2>3, <3>1 DEF HandInv
  <2> QED BY <1>3, <2>4, <2>5, <2>6, <2>7 DEF HandStep
<1> QED BY <1>1, <1>2, <1>3
  DEF Next, vars, goals, hand, on_configure, on_cleanup, on_activate, on_deactivate,
      SelectTask, ResetHandshake, WarmUpCycle, MoveArm, AwaitGrasp, JudgeGrasp, SkipCycle,
      TaskCommand, GripperTimer, ServerUnavailable, StoreSuccess, ResultArrives

LEMMA HandInvariance == ASSUME InOrder PROVE Spec => []HandInv
<1>1. IInv /\ HandInv /\ [Next]_vars => HandInv'
  BY HandNext
<1> QED BY <1>1, HandInit, Invariance, PTL DEF Spec

-----------------------------------------------------------------------------
(* The theorems                                                             *)

\* Every variable of the task controller keeps its type.
THEOREM TypeCorrect == Spec => []TypeOK
<1>1. IInv => TypeOK
  BY DEF IInv
<1> QED BY <1>1, Invariance, PTL

\* The timer and the control loop never turn one request into two goals, in
\* whatever order they run and however often the server is not there.
THEOREM OneGoalPerRequestAlways == Spec => []OneGoalPerRequest
<1>1. IInv => OneGoalPerRequest
  <2>1. ASSUME IInv
        PROVE  \A k \in Kinds : Cardinality(GoalsOf(k)) \in Nat /\ asked[k] \in Nat
    BY <2>1, FS_CardinalityType DEF IInv, GoalsInv, TypeOK
  <2> QED BY <2>1 DEF IInv, GoalsInv, Raised, Taken, OneGoalPerRequest
<1> QED BY <1>1, Invariance, PTL

\* Tasks are entered in their order, each after the one before it ended in the
\* same activation.
THEOREM EntersAfterEndAlways == Spec => EntersAfterEnd
<1>1. ASSUME IInv, Next, last' # last, last' # "NONE"
      PROVE  Before[last'] \in ended \cup {"NONE"}
  <2>1. SelectTask
    BY <1>1 DEF Next, on_configure, on_cleanup, on_activate, on_deactivate,
       ResetHandshake, WarmUpCycle, MoveArm, AwaitGrasp, JudgeGrasp, SkipCycle,
       TaskCommand, GripperTimer, ServerUnavailable, SendGoal, StoreSuccess,
       ResultArrives, HandStep, loop
  <2>2. ~Locked /\ last = Before[last']
    BY <1>1, <2>1 DEF SelectTask, Effective
  <2> QED BY <1>1, <2>2 DEF Locked, IInv, LoopInv
<1>2. IInv /\ [Next]_vars =>
        [last' # last /\ last' # "NONE" => Before[last'] \in ended \cup {"NONE"}]_vars
  BY <1>1
<1> QED BY <1>2, Invariance, PTL DEF Spec, EntersAfterEnd

\* A grasp is sent only while GRASP is under way: with a timer that is in time
\* and a settled deactivation, no request outlives the task it was raised for.
THEOREM GraspIsSentInGraspInTime == ASSUME InTime PROVE Spec => GraspIsSentInGrasp
<1>1. ASSUME IInv, GraspInv, Next, Len(sent') > Len(sent),
             sent'[Len(sent')].kind = "grasp"
      PROVE  last = "GRASP" /\ last \notin finished
  <2>1. SendGoal
    BY <1>1 DEF Next, on_configure, on_cleanup, on_activate, on_deactivate, SelectTask,
       ResetHandshake, WarmUpCycle, MoveArm, AwaitGrasp, JudgeGrasp, SkipCycle,
       TaskCommand, GripperTimer, ServerUnavailable, StoreSuccess,
       ResultArrives, HandStep, loop, goals, hand, IInv, TypeOK
  <2>2. sent'[Len(sent')].kind = Sending
    BY <2>1 DEF SendGoal, IInv, TypeOK
  <2>3. exec = "send_grasp"
    BY <1>1, <2>1, <2>2 DEF SendGoal, Sending
  <2> QED BY <1>1, <2>3 DEF GraspInv, PendingInGrasp, Pending, InGrasp
<1>2. IInv /\ GraspInv /\ [Next]_vars =>
        [Len(sent') > Len(sent) /\ sent'[Len(sent')].kind = "grasp" =>
           last = "GRASP" /\ last \notin finished]_vars
  BY <1>1
<1> QED BY <1>2, Invariance, GraspInvariance, PTL DEF Spec, GraspIsSentInGrasp

\* The step that ends GRASP with success is the one that judges a result.
LEMMA GraspedIsJudged ==
  ASSUME IInv, GraspInv, Next, Grasped
  PROVE  rt = "judging" /\ InGrasp /\ OwnSucceeded
<1>1. ASSUME NEW ends \in BOOLEAN, MoveArm(ends)
      PROVE  FALSE
  BY <1>1 DEF MoveArm, End, Grasped
<1>2. ASSUME NEW late \in BOOLEAN, AwaitGrasp(late)
      PROVE  FALSE
  BY <1>2 DEF AwaitGrasp, Grasped
<1>3. ASSUME SelectTask PROVE FALSE
  BY <1>3 DEF SelectTask, Grasped
<1>4. ASSUME UNCHANGED finished PROVE FALSE
  BY <1>4 DEF Grasped
<1>5. JudgeGrasp
  BY <1>1, <1>2, <1>3, <1>4
  DEF Next, on_configure, on_cleanup, on_activate, on_deactivate,
     ResetHandshake, WarmUpCycle, SkipCycle,
     TaskCommand, GripperTimer, ServerUnavailable, SendGoal, StoreSuccess,
     ResultArrives, HandStep, loop
<1>6. rt = "judging" /\ InGrasp
  BY <1>5 DEF JudgeGrasp, GraspInv, FlagsInGrasp
<1> QED BY <1>6 DEF Grasped, GraspInv, SuccessIsOwn, InGrasp

\* The success with which GRASP ends is that of the goal it sent in this
\* activation, never one left by an earlier goal.
THEOREM GraspEndsOnOwnResultInTime == ASSUME InTime PROVE Spec => GraspEndsOnOwnResult
<1>1. ASSUME IInv, GraspInv, Next, Grasped
      PROVE  \E g \in 1 .. Len(sent) :
               /\ sent[g] = [kind |-> "grasp", activation |-> activation]
               /\ status[g] = "succeeded"
  BY <1>1, GraspedIsJudged DEF OwnSucceeded, OwnGoals, Own
<1>2. IInv /\ GraspInv /\ [Next]_vars =>
        [Grasped => \E g \in 1 .. Len(sent) :
                      /\ sent[g] = [kind |-> "grasp", activation |-> activation]
                      /\ status[g] = "succeeded"]_vars
  BY <1>1
<1> QED BY <1>2, Invariance, GraspInvariance, PTL DEF Spec, GraspEndsOnOwnResult

\* When GRASP ends with success no goal moves the fingers, provided that the
\* gripper begins the goals in their order: the grasp is the last goal, and
\* what was sent before it is over.
THEOREM HandRestsWhenGraspedInOrder ==
  ASSUME InTime, InOrder PROVE Spec => HandRestsWhenGrasped
<1>1. ASSUME IInv, GraspInv, HandInv, Next, Grasped
      PROVE  \A g \in Ids : motion[g] # "moving"
  <2>1. PICK g \in OwnGoals : status[g] = "succeeded"
    BY <1>1, GraspedIsJudged DEF OwnSucceeded
  <2>2. g = Len(sent) /\ g \in Ids /\ Len(sent) \in Nat
    BY <1>1, <2>1, GoalsAssumption DEF GraspInv, OwnIsLast, OwnGoals, IInv, TypeOK, Ids
  <2>3. motion[g] = "reached"
    BY <1>1, <2>1, <2>2 DEF HandInv
  <2>4. ASSUME NEW h \in Ids PROVE motion[h] # "moving"
    <3>1. CASE h > Len(sent)
      BY <1>1, <3>1 DEF HandInv
    <3>2. CASE h = Len(sent)
      BY <2>2, <2>3, <3>2
    <3>3. CASE h < Len(sent)
      <4>1. h \in 1 .. g - 1
        BY <2>2, <2>4, <3>3 DEF Ids
      <4> QED BY <1>1, <2>2, <2>3, <4>1 DEF HandInv
    <3> QED BY <2>2, <2>4, <3>1, <3>2, <3>3 DEF Ids
  <2> QED BY <2>4
<1>2. IInv /\ GraspInv /\ HandInv /\ [Next]_vars =>
        [Grasped => \A g \in Ids : motion[g] # "moving"]_vars
  BY <1>1
<1> QED BY <1>2, Invariance, GraspInvariance, HandInvariance, PTL
  DEF Spec, HandRestsWhenGrasped
=============================================================================
