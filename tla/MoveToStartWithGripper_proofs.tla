-------------------- MODULE MoveToStartWithGripper_proofs --------------------
(***************************************************************************)
(* Proofs about MoveToStartWithGripper, for every arm, every limit of the  *)
(* inverse kinematics and any number of activations and pushes.            *)
(*                                                                         *)
(* ik() iterates: what it returns is a configuration again by induction on *)
(* the number of iterations.  Induction is on sets of numbers here, from   *)
(* the fact that the intervals 0..n are well-founded under inclusion.      *)
(***************************************************************************)
EXTENDS MoveToStartWithGripper, FiniteSetTheorems, TLAPS

-----------------------------------------------------------------------------
(***************************************************************************)
(* Numbers                                                                 *)
(***************************************************************************)
LEMMA SmallestExists ==
  ASSUME NEW S \in SUBSET Nat, S # {}
  PROVE  \E i \in S : \A j \in S : i <= j
<1> DEFINE T == {0..i : i \in S}
<1>1. IsWellFoundedOn(StrictSubsetOrdering(Nat), FiniteSubsetsOf(Nat))
  BY FS_StrictSubsetOrderingWellFounded
<1>2. T \subseteq FiniteSubsetsOf(Nat) /\ T # {}
  <2>1. ASSUME NEW i \in S PROVE 0..i \in FiniteSubsetsOf(Nat)
    BY FS_Interval DEF FiniteSubsetsOf
  <2> QED BY <2>1
<1>3. PICK x \in T : \A y \in T : <<y, x>> \notin StrictSubsetOrdering(Nat)
  <2> HIDE DEF T
  <2> QED BY <1>1, <1>2, WFMin
<1>4. PICK i \in S : x = 0..i
  BY <1>3
<1>5. ASSUME NEW j \in S, j < i PROVE FALSE
  <2>1. 0..j \subseteq 0..i /\ i \in 0..i /\ i \notin 0..j
    BY <1>5
  <2>2. 0..j \in SUBSET Nat /\ 0..i \in SUBSET Nat /\ 0..j # 0..i
    BY <2>1
  <2>3. <<0..j, 0..i>> \in StrictSubsetOrdering(Nat)
    BY <2>1, <2>2 DEF StrictSubsetOrdering
  <2> QED BY <1>3, <1>4, <2>3
<1> QED BY <1>5

LEMMA SmallestChosen ==
  ASSUME NEW S \in SUBSET Nat, S # {}
  PROVE  (CHOOSE i \in S : \A j \in S : i <= j) \in S
BY SmallestExists

LEMMA Induction ==
  ASSUME NEW S \in SUBSET Nat, 0 \in S, \A n \in S : n + 1 \in S
  PROVE  S = Nat
<1> SUFFICES ASSUME Nat \ S # {} PROVE FALSE
  OBVIOUS
<1>1. PICK n \in Nat \ S : \A m \in Nat \ S : n <= m
  BY SmallestExists
<1>2. n - 1 \in Nat
  BY <1>1
<1>3. n - 1 \in S
  BY <1>1, <1>2
<1> QED BY <1>1, <1>3

LEMMA PowersOfTwo == ASSUME NEW k \in 0..9 PROVE 2^k \in Nat \ {0}
<1>1. /\ 2^0 = 1 /\ 2^1 = 2 /\ 2^2 = 4 /\ 2^3 = 8 /\ 2^4 = 16
      /\ 2^5 = 32 /\ 2^6 = 64 /\ 2^7 = 128 /\ 2^8 = 256 /\ 2^9 = 512
  BY SMT
<1>2. CASE k \in 0..4
  <2>1. k = 0 \/ k = 1 \/ k = 2 \/ k = 3 \/ k = 4
    BY <1>2
  <2>2. 2^k = 2^0 \/ 2^k = 2^1 \/ 2^k = 2^2 \/ 2^k = 2^3 \/ 2^k = 2^4
    BY <2>1, Zenon
  <2> QED BY <1>1, <2>2
<1>3. CASE k \in 5..9
  <2>1. k = 5 \/ k = 6 \/ k = 7 \/ k = 8 \/ k = 9
    BY <1>3
  <2>2. 2^k = 2^5 \/ 2^k = 2^6 \/ 2^k = 2^7 \/ 2^k = 2^8 \/ 2^k = 2^9
    BY <2>1, Zenon
  <2> QED BY <1>1, <2>2
<1> QED BY <1>2, <1>3

\* The part e of d of the way from s to g, and how far that is.
LEMMA PartOfWay ==
  ASSUME NEW d \in Int, NEW e \in Int, NEW s \in Int, NEW g \in Int
  PROVE  ((d - e) * s + e * g) - d * s = e * (g - s)
<1>1. (d - e) * s = d * s - e * s
  BY SMT
<1>2. e * (g - s) = e * g - e * s
  BY SMT
<1>3. d * s \in Int /\ e * s \in Int /\ e * g \in Int
  BY SMT
<1> QED BY <1>1, <1>2, <1>3

LEMMA LongerPart ==
  ASSUME NEW e \in Nat, NEW m \in Nat, e <= m, NEW w \in Int
  PROVE  Magnitude(e * w) <= m * Magnitude(w)
<1>1. CASE w >= 0
  <2>1. e * w <= m * w /\ e * w >= 0
    BY <1>1, SMT
  <2>2. e * w \in Int
    OBVIOUS
  <2>3. Magnitude(w) = w
    BY <1>1 DEF Magnitude
  <2> QED BY <2>1, <2>2, <2>3 DEF Magnitude
<1>2. CASE w < 0
  <2> DEFINE v == -w
  <2>0. v \in Int /\ v >= 0 /\ w = -v
    BY <1>2
  <2>1. e * v <= m * v /\ e * v >= 0
    <3> HIDE DEF v
    <3> QED BY <2>0, SMT
  <2>2. e * v \in Int /\ e * w = -(e * v)
    <3> HIDE DEF v
    <3> QED BY <2>0, SMT
  <2>3. Magnitude(w) = v
    BY <1>2 DEF Magnitude
  <2>4. Magnitude(e * w) = e * v
    <3> HIDE DEF v
    <3> QED BY <2>1, <2>2 DEF Magnitude
  <2> QED BY <2>1, <2>3, <2>4
<1> QED BY <1>1, <1>2

\* Time is kept within the motion's, in its order.
LEMMA AfterTyped ==
  ASSUME NEW time \in 0..move_duration, NEW period \in Periods
  PROVE  After(time, period) \in 0..move_duration
BY MoveAssumption DEF MoveAssumption, After

LEMMA AfterOrdered ==
  ASSUME NEW time \in 0..move_duration, NEW later \in 0..move_duration, time <= later,
         NEW period \in Periods
  PROVE  After(time, period) <= After(later, period)
BY MoveAssumption DEF MoveAssumption, After

-----------------------------------------------------------------------------
(***************************************************************************)
(* Inverse kinematics                                                      *)
(***************************************************************************)
LEMMA ClampTyped ==
  ASSUME NEW p \in Int, NEW clamp \in BOOLEAN
  PROVE  clampArmToLimitsInPlace(p, clamp) \in Int
BY KinematicsAssumption DEF clampArmToLimitsInPlace, KinematicsAssumption

LEMMA HalvedTyped ==
  ASSUME NEW dq \in Int, NEW k \in 0..9
  PROVE  Halved(dq, k) \in Int
<1> DEFINE w == 2^k
<1>1. w \in Nat \ {0}
  BY PowersOfTwo
<1>2. \A a \in Int : a \div w \in Int
  <2> HIDE DEF w
  <2> QED BY <1>1, SMT
<1> QED BY <1>2 DEF Halved

LEMMA SteppedTyped ==
  ASSUME NEW p \in Int, NEW target \in Int, NEW residue \in Nat, NEW clamp \in BOOLEAN
  PROVE  Stepped(p, target, residue, clamp) \subseteq Int
<1> SUFFICES ASSUME NEW dq \in Steps, Improving(p, dq, target, residue, clamp) # {}
             PROVE  integrateArmInPlace(p, dq, Improving(p, dq, target, residue, clamp), clamp)
                    \in Int
  BY DEF Stepped
<1> DEFINE improving == Improving(p, dq, target, residue, clamp)
<1>1. improving \in SUBSET (0..9) /\ dq \in Int
  BY KinematicsAssumption DEF Improving, KinematicsAssumption
<1> DEFINE k == CHOOSE i \in improving : \A j \in improving : i <= j
<1>3. k \in 0..9
  <2>1. improving \in SUBSET Nat /\ improving # {}
    BY <1>1
  <2>2. k \in improving
    BY <2>1, SmallestChosen
  <2> QED BY <1>1, <2>2
<1>4. Halved(dq, k) \in Int
  <2> HIDE DEF k, improving
  <2> QED BY <1>1, <1>3, HalvedTyped
<1>5. p + Halved(dq, k) \in Int
  <2> HIDE DEF k
  <2> QED BY <1>4
<1> QED BY <1>5, ClampTyped DEF integrateArmInPlace

\* Where an iteration may lead from one of the configurations qs.
SteppedFrom(qs, target, residue, clamp) == UNION {Stepped(p, target, residue, clamp) : p \in qs}

\* f has what may be reached in up to last iterations.
AreIterates(f, last, target, residue, clamp, q_init) ==
  f = [n \in 0..last |-> IF n = 0 THEN {q_init}
                         ELSE SteppedFrom(f[n - 1], target, residue, clamp)]

LEMMA IteratesExist ==
  ASSUME NEW target, NEW residue, NEW clamp, NEW q_init, NEW last \in Nat
  PROVE  \E f : AreIterates(f, last, target, residue, clamp, q_init)
<1> DEFINE From(qs) == SteppedFrom(qs, target, residue, clamp)
           Are(f, n) == AreIterates(f, n, target, residue, clamp, q_init)
           S == {n \in Nat : \E f : Are(f, n)}
<1>1. 0 \in S
  <2>1. Are([n \in 0..0 |-> {q_init}], 0)
    BY DEF AreIterates
  <2> QED BY <2>1
<1>2. ASSUME NEW n \in S PROVE n + 1 \in S
  <2>1. PICK f : Are(f, n)
    BY <1>2
  <2> DEFINE g == [m \in 0..(n + 1) |-> IF m = n + 1 THEN From(f[n]) ELSE f[m]]
             h == [m \in 0..(n + 1) |-> IF m = 0 THEN {q_init} ELSE From(g[m - 1])]
  <2>2. \A m \in 0..n : f[m] = IF m = 0 THEN {q_init} ELSE From(f[m - 1])
    <3> HIDE DEF From
    <3>1. f = [m \in 0..n |-> IF m = 0 THEN {q_init} ELSE From(f[m - 1])]
      BY <2>1 DEF AreIterates, From
    <3> QED BY <3>1
  <2>3. ASSUME NEW m \in 0..(n + 1) PROVE g[m] = h[m]
    <3> HIDE DEF From
    <3>1. n \in Nat
      BY <1>2
    <3>2. CASE m = n + 1
      BY <3>1, <3>2
    <3>3. CASE m = 0
      BY <2>2, <3>1, <3>3
    <3>4. CASE m \in 1..n
      <4>1. g[m] = From(f[m - 1])
        BY <2>2, <3>1, <3>4
      <4>2. g[m - 1] = f[m - 1]
        BY <3>1, <3>4
      <4>3. h[m] = From(g[m - 1])
        BY <3>1, <3>4
      <4> QED BY <4>1, <4>2, <4>3
    <3> QED BY <3>1, <3>2, <3>3, <3>4
  <2>4. g = h
    BY <2>3
  <2>5. Are(g, n + 1)
    BY <2>4 DEF AreIterates
  <2> HIDE DEF g, Are
  <2> QED BY <1>2, <2>5
<1>3. S = Nat
  <2> HIDE DEF S
  <2>1. S \in SUBSET Nat
    BY DEF S
  <2> QED BY <1>1, <1>2, <2>1, Induction
<1> QED BY <1>3

LEMMA IteratesAre ==
  ASSUME NEW target, NEW residue, NEW clamp, NEW q_init
  PROVE  AreIterates(Iterates(target, residue, clamp, q_init), max_iters,
                     target, residue, clamp, q_init)
<1>1. \E f : AreIterates(f, max_iters, target, residue, clamp, q_init)
  BY IteratesExist, KinematicsAssumption DEF KinematicsAssumption
<1>2. Iterates(target, residue, clamp, q_init)
        = CHOOSE f : AreIterates(f, max_iters, target, residue, clamp, q_init)
  BY DEF Iterates, AreIterates, SteppedFrom
<1> QED BY <1>1, <1>2

\* The iterates never leave a set that no step leaves.
LEMMA IteratesStay ==
  ASSUME NEW target, NEW residue, NEW clamp, NEW good, NEW q_init \in good,
         \A p \in good : Stepped(p, target, residue, clamp) \subseteq good,
         NEW n \in 0..max_iters
  PROVE  Iterates(target, residue, clamp, q_init)[n] \subseteq good
<1> DEFINE f == Iterates(target, residue, clamp, q_init)
           S == {m \in Nat : m \in 0..max_iters => f[m] \subseteq good}
<1>1. f = [m \in 0..max_iters |-> IF m = 0 THEN {q_init}
                                  ELSE SteppedFrom(f[m - 1], target, residue, clamp)]
  BY IteratesAre DEF AreIterates
<1> HIDE DEF f
<1>2. max_iters \in Nat
  BY KinematicsAssumption DEF KinematicsAssumption
<1>3. 0 \in S
  BY <1>1, <1>2
<1>4. ASSUME NEW m \in S PROVE m + 1 \in S
  <2> SUFFICES ASSUME m + 1 \in 0..max_iters PROVE f[m + 1] \subseteq good
    BY <1>4
  <2>1. m \in Nat /\ f[m] \subseteq good
    BY <1>2, <1>4
  <2>2. f[m + 1] = SteppedFrom(f[m], target, residue, clamp)
    <3>1. m + 1 # 0 /\ (m + 1) - 1 = m
      BY <2>1
    <3> QED BY <1>1, <3>1
  <2> QED BY <2>1, <2>2 DEF SteppedFrom
<1>5. S = Nat
  <2> HIDE DEF S
  <2>1. S \in SUBSET Nat
    BY DEF S
  <2> QED BY <1>3, <1>4, <2>1, Induction
<1>6. n \in S
  BY <1>2, <1>5
<1> QED BY <1>6 DEF f

\* Every iterate is a configuration.
LEMMA IteratesTyped ==
  ASSUME NEW target \in Int, NEW residue \in Nat, NEW clamp \in BOOLEAN, NEW q_init \in Int,
         NEW n \in 0..max_iters
  PROVE  Iterates(target, residue, clamp, q_init)[n] \subseteq Int
BY IteratesStay, SteppedTyped

\* ik() answers with a configuration, and calls it a solution only if it is one.
LEMMA AnswersFit ==
  ASSUME NEW target \in Int, NEW residue \in Nat, NEW clamp \in BOOLEAN, NEW q_init \in Int,
         NEW answer \in ik(target, residue, clamp, q_init)
  PROVE  answer.q \in Int /\ (answer.ok => Solved(answer.q, target, residue))
<1> DEFINE after == Iterates(target, residue, clamp, q_init)
<1>1. \A n \in 0..max_iters : after[n] \subseteq Int
  BY IteratesTyped
<1>2. max_iters \in Nat
  BY KinematicsAssumption DEF KinematicsAssumption
<1>3. ASSUME NEW p \in after[max_iters],
             answer = Answer(FALSE, clampArmToLimitsInPlace(p, clamp))
      PROVE  answer.q \in Int /\ ~answer.ok
  BY <1>1, <1>2, <1>3, ClampTyped DEF Answer
<1>4. ASSUME NEW n \in 0..(max_iters - 1), NEW p \in after[n],
             answer \in Answers(p, target, residue, clamp)
      PROVE  answer.q \in Int /\ (answer.ok => Solved(answer.q, target, residue))
  <2>1. p \in Int
    BY <1>1, <1>2
  <2>2. CASE Solved(p, target, residue)
    BY <1>4, <2>1, <2>2 DEF Answers, Answer
  <2>3. CASE ~Solved(p, target, residue)
    <3>1. answer = Answer(FALSE, p) \/ answer = Answer(FALSE, clampArmToLimitsInPlace(p, clamp))
      BY <1>4, <2>3 DEF Answers
    <3> QED BY <2>1, <3>1, ClampTyped DEF Answer
  <2> QED BY <2>2, <2>3
<1> QED BY <1>3, <1>4 DEF ik

LEMMA ClampStays ==
  ASSUME NEW p \in Int, NEW clamp \in BOOLEAN
  PROVE  /\ clamp => clampArmToLimitsInPlace(p, clamp) \in Lower..Upper
         /\ (clamp => p \in Lower..Upper) => clampArmToLimitsInPlace(p, clamp) = p
BY KinematicsAssumption DEF clampArmToLimitsInPlace, KinematicsAssumption

\* Whatever the target, the steps and their number: from a configuration within the
\* limits ik() answers with one within the limits, and a failed search too leaves the
\* arm no farther from the target than it was.
THEOREM IkNeverWorsens ==
  ASSUME NEW target \in Int, NEW residue \in Nat, NEW clamp \in BOOLEAN, NEW q_init \in Int,
         clamp => q_init \in Lower..Upper,
         NEW answer \in ik(target, residue, clamp, q_init)
  PROVE  /\ computeError6DWorld(answer.q, target, residue)
              <= computeError6DWorld(q_init, target, residue)
         /\ clamp => answer.q \in Lower..Upper
<1> DEFINE Error(p) == computeError6DWorld(p, target, residue)
           after    == Iterates(target, residue, clamp, q_init)
           good     == {p \in Int : Error(p) <= Error(q_init) /\ (clamp => p \in Lower..Upper)}
<1>1. ASSUME NEW p \in Int PROVE Error(p) \in Int
  BY DEF computeError6DWorld, Magnitude
<1> HIDE DEF Error
<1>2. q_init \in good
  BY <1>1
<1>3. ASSUME NEW p \in good PROVE Stepped(p, target, residue, clamp) \subseteq good
  <2> SUFFICES ASSUME NEW dq \in Steps, Improving(p, dq, target, residue, clamp) # {}
               PROVE  integrateArmInPlace(p, dq, Improving(p, dq, target, residue, clamp),
                                          clamp) \in good
    BY DEF Stepped
  <2> DEFINE improving == Improving(p, dq, target, residue, clamp)
             k == CHOOSE i \in improving : \A j \in improving : i <= j
             next == clampArmToLimitsInPlace(p + Halved(dq, k), clamp)
  <2>1. p \in Int /\ dq \in Int /\ improving \in SUBSET Nat /\ improving # {}
    BY KinematicsAssumption DEF Improving, KinematicsAssumption
  <2>2. k \in improving
    <3> HIDE DEF improving
    <3> QED BY <2>1, SmallestChosen
  <2> HIDE DEF k
  <2>3. k \in 0..9 /\ Error(next) < Error(p)
    BY <2>2 DEF Improving, Error
  <2>4. p + Halved(dq, k) \in Int
    <3>1. Halved(dq, k) \in Int
      BY <2>1, <2>3, HalvedTyped
    <3> QED BY <2>1, <3>1
  <2>5. next \in Int /\ (clamp => next \in Lower..Upper)
    BY <2>4, ClampTyped, ClampStays
  <2>6. Error(next) <= Error(q_init)
    <3> HIDE DEF next
    <3> QED BY <1>1, <2>1, <2>3, <2>5
  <2> HIDE DEF improving
  <2>7. integrateArmInPlace(p, dq, improving, clamp) = next
    BY DEF integrateArmInPlace, k
  <2> QED BY <2>5, <2>6, <2>7 DEF improving
<1>4. max_iters \in Nat
  BY KinematicsAssumption DEF KinematicsAssumption
<1> HIDE DEF good
<1>5. \A n \in 0..max_iters : after[n] \subseteq good
  BY <1>2, <1>3, IteratesStay
<1>6. ASSUME NEW p \in good PROVE clampArmToLimitsInPlace(p, clamp) = p
  BY <1>6, ClampStays DEF good
<1>7. answer.q \in good
  <2>1. ASSUME NEW p \in after[max_iters],
               answer = Answer(FALSE, clampArmToLimitsInPlace(p, clamp))
        PROVE  answer.q \in good
    <3>1. p \in good
      BY <1>4, <1>5
    <3> QED BY <1>6, <2>1, <3>1 DEF Answer
  <2>2. ASSUME NEW n \in 0..(max_iters - 1), NEW p \in after[n],
               answer \in Answers(p, target, residue, clamp)
        PROVE  answer.q \in good
    <3>1. p \in good
      BY <1>4, <1>5
    <3>2. answer.q = p \/ answer.q = clampArmToLimitsInPlace(p, clamp)
      BY <2>2 DEF Answers, Answer
    <3> QED BY <1>6, <3>1, <3>2
  <2> QED BY <2>1, <2>2 DEF ik
<1> QED BY <1>7 DEF good, Error

-----------------------------------------------------------------------------
(***************************************************************************)
(* The invariant                                                           *)
(***************************************************************************)
\* The bounds of the histories.
HistoryInv == motions <= activations

\* The time of the first motion after a configuration is counted from its activation.
PaceInv ==
  /\ motions = 0 => elapsed_time_ = 0
  /\ motions = 1 => elapsed_time_ <= sinceStart
  /\ life \in {"waiting", "active"} => motions > 0

\* The goal is the configured one or a solution, from the configuration on.
GoalInv ==
  life \in {"inactive", "waiting", "active"}
    => q_goal_ = parameters.q_goal
       \/ \E residue \in Residues : Solved(q_goal_, parameters.target, residue)

IInv == TypeOK /\ HistoryInv /\ PaceInv /\ GoalInv

\* The types of what an activation changes, of what the loop changes and of the rest.
GoalTypes ==
  /\ life \in {"unconfigured", "inactive", "waiting", "active", "finalized", "undefined"}
  /\ q_goal_ \in Int /\ q_start_ \in Configurations
  /\ kin_initialized_ \in BOOLEAN
  /\ kinematics \in {"uninitialized", "undefined", "out_of_range", "initialized"}

LoopTypes ==
  /\ q_des_ \in Int /\ elapsed_time_ \in 0..move_duration /\ finished_ \in BOOLEAN
  /\ fresh \in BOOLEAN /\ sinceStart \in 0..move_duration
  /\ motions \in 0..MaxActivations /\ activations \in 0..MaxActivations

ArmTypes ==
  /\ parameters \in Parameters
  /\ subscribed \in BOOLEAN /\ urdf_xml_ \in Descriptions \cup {"none"}
  /\ q \in Configurations /\ pushes \in 0..MaxPushes

LEMMA TypeParts == TypeOK <=> GoalTypes /\ LoopTypes /\ ArmTypes
BY DEF TypeOK, GoalTypes, LoopTypes, ArmTypes

LEMMA TypePartsNext == GoalTypes' /\ LoopTypes' /\ ArmTypes' => TypeOK'
BY DEF TypeOK, GoalTypes, LoopTypes, ArmTypes

LEMMA ArmUnchanged ==
  ASSUME ArmTypes, UNCHANGED <<parameters, description, arm>>
  PROVE  ArmTypes'
BY DEF ArmTypes, description, arm

LEMMA InitInv == Init => IInv
<1> SUFFICES ASSUME Init PROVE IInv
  OBVIOUS
<1>0. /\ life = "unconfigured" /\ parameters \in Parameters
      /\ q_goal_ = 0 /\ q_des_ = 0 /\ elapsed_time_ = 0
      /\ kinematics = "uninitialized" /\ urdf_xml_ = "none"
      /\ q \in Configurations /\ q_start_ = q
      /\ pushes = 0 /\ sinceStart = 0 /\ motions = 0 /\ activations = 0
  BY DEF Init
<1>1. /\ finished_ \in BOOLEAN /\ kin_initialized_ \in BOOLEAN
      /\ subscribed \in BOOLEAN /\ fresh \in BOOLEAN
  BY DEF Init
<1>2. GoalTypes
  BY <1>0, <1>1 DEF GoalTypes
<1>3. LoopTypes
  BY <1>0, <1>1, MoveAssumption DEF LoopTypes, MoveAssumption
<1>4. ArmTypes
  BY <1>0, <1>1, MoveAssumption DEF ArmTypes, MoveAssumption
<1>5. HistoryInv /\ GoalInv
  BY <1>0 DEF HistoryInv, GoalInv
<1>6. PaceInv
  BY <1>0 DEF PaceInv
<1> QED BY <1>2, <1>3, <1>4, <1>5, <1>6, TypeParts DEF IInv

-----------------------------------------------------------------------------
(***************************************************************************)
(* The steps                                                               *)
(***************************************************************************)
LEMMA StutterInv == ASSUME IInv, UNCHANGED vars PROVE IInv'
<1> USE DEF vars, motion, model, description, arm, history
<1>1. TypeOK'
  BY DEF IInv, TypeOK
<1>2. HistoryInv' /\ PaceInv' /\ GoalInv'
  BY DEF IInv, HistoryInv, PaceInv, GoalInv
<1> QED BY <1>1, <1>2 DEF IInv

\* Those that change life alone, towards a state without a motion.
LEMMA LifeInv ==
  ASSUME IInv, RejectSizes \/ Cleanup \/ on_deactivate
  PROVE  IInv'
<1> USE DEF motion, model, description, arm, history
<1>1. /\ UNCHANGED <<parameters, motion, model, description, arm, history>>
      /\ life' \in {"finalized", "unconfigured"} \/ (life = "active" /\ life' = "inactive")
  BY DEF RejectSizes, Cleanup, on_deactivate
<1>2. TypeOK'
  BY <1>1 DEF IInv, TypeOK
<1>3. HistoryInv' /\ PaceInv'
  BY <1>1 DEF IInv, HistoryInv, PaceInv
<1>4. GoalInv'
  BY <1>1 DEF IInv, GoalInv
<1> QED BY <1>2, <1>3, <1>4 DEF IInv

LEMMA ConfigureInv == ASSUME IInv, on_configure PROVE IInv'
<1> USE DEF on_configure, reset
<1>0. GoalTypes /\ LoopTypes /\ ArmTypes /\ HistoryInv
  BY TypeParts DEF IInv
<1>1. GoalTypes'
  <2>1. parameters.q_goal \in Int
    BY <1>0, MoveAssumption DEF ArmTypes, Parameters, MoveAssumption
  <2> QED BY <1>0, <2>1 DEF GoalTypes
<1>2. LoopTypes'
  <2>1. finished_' \in BOOLEAN
    OBVIOUS
  <2>2. elapsed_time_' \in 0..move_duration /\ motions' \in 0..MaxActivations
    BY MoveAssumption DEF MoveAssumption
  <2>3. UNCHANGED <<q_des_, fresh, sinceStart, activations>>
    OBVIOUS
  <2> HIDE DEF on_configure, reset
  <2> QED BY <1>0, <2>1, <2>2, <2>3 DEF LoopTypes
<1>3. ArmTypes'
  BY <1>0 DEF ArmTypes, arm
<1>4. HistoryInv'
  BY <1>0 DEF LoopTypes, HistoryInv
<1>5. PaceInv' /\ GoalInv'
  BY DEF PaceInv, GoalInv
<1> QED BY <1>1, <1>2, <1>3, <1>4, <1>5, TypePartsNext DEF IInv

LEMMA DescriptionInv ==
  ASSUME IInv, NEW urdf \in Descriptions, ReceiveDescription(urdf)
  PROVE  IInv'
<1> USE DEF ReceiveDescription, motion, model, arm, history
<1>1. TypeOK'
  BY DEF IInv, TypeOK
<1>2. HistoryInv' /\ PaceInv' /\ GoalInv'
  BY DEF IInv, HistoryInv, PaceInv, GoalInv
<1> QED BY <1>1, <1>2 DEF IInv

\* What an activation, or the end of its wait, does to the goal: it stays, or is
\* replaced by a solution.
GoalKept ==
  q_goal_' = q_goal_
  \/ (q_goal_' \in Int /\ \E residue \in Residues : Solved(q_goal_', parameters.target, residue))

LEMMA SolveKeeps ==
  ASSUME TypeOK, NEW assigned, NEW q_init \in Configurations, SolveGoal(assigned, q_init)
  PROVE  GoalKept /\ life' \in {"active", "finalized"}
<1>1. PICK residue \in Residues :
        \E answer \in ik(parameters.target, residue, parameters.clamp_to_limits, q_init) :
          /\ q_goal_' = IF answer.ok THEN answer.q ELSE q_goal_
          /\ Assign(assigned)
  BY DEF SolveGoal
<1>2. PICK answer \in ik(parameters.target, residue, parameters.clamp_to_limits, q_init) :
        /\ q_goal_' = IF answer.ok THEN answer.q ELSE q_goal_
        /\ Assign(assigned)
  BY <1>1
<1>3. /\ parameters.target \in Int /\ residue \in Nat
      /\ parameters.clamp_to_limits \in BOOLEAN /\ q_init \in Int
  BY MoveAssumption DEF TypeOK, Parameters, MoveAssumption
<1>4. answer.q \in Int /\ (answer.ok => Solved(answer.q, parameters.target, residue))
  BY <1>2, <1>3, AnswersFit
<1>5. GoalKept
  BY <1>2, <1>4 DEF GoalKept
<1> QED BY <1>2, <1>5 DEF Assign

LEMMA UseKeeps ==
  ASSUME TypeOK, NEW assigned, NEW q_init \in Configurations, UseKinematics(assigned, q_init)
  PROVE  GoalKept /\ life' \in {"active", "finalized", "undefined"}
<1>1. CASE kinematics' \in {"undefined", "out_of_range"}
  BY <1>1 DEF UseKinematics, GoalKept
<1>2. CASE kinematics' \notin {"undefined", "out_of_range"}
  BY <1>2, SolveKeeps DEF UseKinematics
<1> QED BY <1>1, <1>2

LEMMA InitPinocchioKeeps ==
  ASSUME TypeOK, NEW assigned, NEW q_init \in Configurations, init_pinocchio(assigned, q_init)
  PROVE  /\ GoalKept /\ life' \in {"active", "finalized", "undefined"}
         /\ kin_initialized_' \in BOOLEAN
         /\ kinematics' \in {"uninitialized", "undefined", "out_of_range", "initialized"}
<1>1. kinematics' \in {"uninitialized", "undefined", "out_of_range", "initialized"}
  BY DEF init_pinocchio, initFromUrdfXml
<1>2. kin_initialized_' \in BOOLEAN
  BY DEF init_pinocchio
<1>3. GoalKept /\ life' \in {"active", "finalized", "undefined"}
  <2>1. CASE UseKinematics(assigned, q_init)
    BY <2>1, UseKeeps
  <2>2. CASE Assign(assigned) /\ UNCHANGED q_goal_
    BY <2>2 DEF Assign, GoalKept
  <2> QED BY <2>1, <2>2 DEF init_pinocchio
<1> QED BY <1>1, <1>2, <1>3

LEMMA GoalKeptInv ==
  ASSUME GoalInv, GoalKept, life \in {"inactive", "waiting"}, parameters' = parameters
  PROVE  GoalInv'
BY DEF GoalInv, GoalKept

LEMMA ActivateInv == ASSUME IInv, NEW assigned, on_activate(assigned) PROVE IInv'
<1>0. TypeOK /\ GoalTypes /\ LoopTypes /\ ArmTypes /\ HistoryInv /\ PaceInv /\ GoalInv
  BY TypeParts DEF IInv
<1>1. /\ life = "inactive" /\ activations < MaxActivations
      /\ q_start_' = q /\ fresh' = TRUE /\ sinceStart' = 0
      /\ motions' = motions + 1 /\ activations' = activations + 1
      /\ UNCHANGED <<parameters, q_des_, elapsed_time_, finished_, description, arm>>
  BY DEF on_activate
<1>2. /\ GoalKept /\ life' \in {"waiting", "active", "finalized", "undefined"}
      /\ kin_initialized_' \in BOOLEAN
      /\ kinematics' \in {"uninitialized", "undefined", "out_of_range", "initialized"}
  <2>0. /\ q \in Configurations /\ kin_initialized_ \in BOOLEAN
        /\ kinematics \in {"uninitialized", "undefined", "out_of_range", "initialized"}
    BY <1>0 DEF ArmTypes, GoalTypes
  <2>1. CASE Assign(assigned) /\ UNCHANGED <<q_goal_, model>>
    BY <2>0, <2>1 DEF Assign, GoalKept, model
  <2>2. CASE UNCHANGED model /\ UseKinematics(assigned, q)
    BY <1>0, <2>0, <2>2, UseKeeps DEF model
  <2>3. CASE init_pinocchio(assigned, q)
    BY <1>0, <2>0, <2>3, InitPinocchioKeeps
  <2>4. CASE life' = "waiting" /\ UNCHANGED <<q_goal_, model>>
    BY <2>0, <2>4 DEF GoalKept, model
  <2> QED BY <2>1, <2>2, <2>3, <2>4 DEF on_activate
<1>3. GoalTypes'
  <2>1. q_goal_' \in Int
    BY <1>0, <1>2 DEF GoalTypes, GoalKept
  <2> QED BY <1>0, <1>1, <1>2, <2>1 DEF GoalTypes, ArmTypes
<1>4. LoopTypes' /\ HistoryInv'
  BY <1>0, <1>1, MoveAssumption DEF LoopTypes, HistoryInv, MoveAssumption
<1>5. ArmTypes'
  BY <1>0, <1>1, ArmUnchanged
<1>6. PaceInv'
  BY <1>0, <1>1 DEF LoopTypes, PaceInv
<1>7. GoalInv'
  BY <1>0, <1>1, <1>2, GoalKeptInv
<1> QED BY <1>3, <1>4, <1>5, <1>6, <1>7, TypePartsNext DEF IInv

LEMMA WaitInv == ASSUME IInv, NEW assigned, WaitEnds(assigned) PROVE IInv'
<1>0. TypeOK /\ GoalTypes /\ LoopTypes /\ ArmTypes /\ HistoryInv /\ PaceInv /\ GoalInv
  BY TypeParts DEF IInv
<1>1. /\ life = "waiting"
      /\ UNCHANGED <<parameters, q_start_, q_des_, elapsed_time_, finished_, description, arm,
                     history>>
  BY DEF WaitEnds
<1>2. /\ GoalKept /\ life' \in {"active", "finalized", "undefined"}
      /\ kin_initialized_' \in BOOLEAN
      /\ kinematics' \in {"uninitialized", "undefined", "out_of_range", "initialized"}
  <2>1. CASE Assign(assigned) /\ UNCHANGED <<q_goal_, model>>
    BY <1>0, <2>1 DEF Assign, GoalKept, model, GoalTypes
  <2>2. CASE init_pinocchio(assigned, q_start_)
    BY <1>0, <2>2, InitPinocchioKeeps DEF GoalTypes
  <2> QED BY <2>1, <2>2 DEF WaitEnds
<1>3. GoalTypes'
  <2>1. q_goal_' \in Int
    BY <1>0, <1>2 DEF GoalTypes, GoalKept
  <2> QED BY <1>0, <1>1, <1>2, <2>1 DEF GoalTypes
<1>4. LoopTypes' /\ HistoryInv' /\ PaceInv'
  BY <1>0, <1>1 DEF LoopTypes, HistoryInv, PaceInv, history
<1>5. ArmTypes'
  BY <1>0, <1>1, ArmUnchanged
<1>6. GoalInv'
  BY <1>0, <1>1, <1>2, GoalKeptInv
<1> QED BY <1>3, <1>4, <1>5, <1>6, TypePartsNext DEF IInv

LEMMA UpdateInv == ASSUME IInv, NEW period \in Periods, update(period) PROVE IInv'
<1>0. GoalTypes /\ LoopTypes /\ ArmTypes /\ HistoryInv /\ PaceInv /\ GoalInv
  BY TypeParts DEF IInv
<1>1. /\ life = "active" /\ fresh' = FALSE /\ sinceStart' = After(sinceStart, period)
      /\ UNCHANGED <<life, parameters, q_goal_, q_start_, model, description, arm, motions,
                     activations>>
  BY DEF update
<1>2. /\ q_goal_ \in Int /\ q_start_ \in Int /\ q \in Int /\ move_duration \in Nat \ {0}
      /\ elapsed_time_ \in 0..move_duration /\ sinceStart \in 0..move_duration
  BY <1>0, MoveAssumption DEF GoalTypes, ArmTypes, LoopTypes, MoveAssumption
<1>3. q_des_' \in Int /\ elapsed_time_' \in 0..move_duration /\ finished_' \in BOOLEAN
  <2>1. CASE MoveOn(period)
    <3>1. elapsed_time_' \in 0..move_duration /\ elapsed_time_' \in Int
      BY <1>2, <2>1, AfterTyped DEF MoveOn
    <3>2. /\ (move_duration - elapsed_time_') * q_start_ \in Int
          /\ elapsed_time_' * q_goal_ \in Int
      BY <1>2, <3>1
    <3>3. q_des_' \in Int
      BY <2>1, <3>2 DEF MoveOn, Interpolated
    <3> QED BY <2>1, <3>1, <3>3 DEF MoveOn, AtGoal
  <2>2. CASE Hold
    <3>1. move_duration * q_goal_ \in Int /\ move_duration * q \in Int
      BY <1>2
    <3> QED BY <1>0, <1>2, <2>2, <3>1 DEF Hold, LoopTypes
  <2> QED BY <2>1, <2>2 DEF update
<1>4. GoalTypes'
  BY <1>0, <1>1 DEF GoalTypes, model
<1>5. LoopTypes' /\ HistoryInv'
  <2>1. sinceStart' \in 0..move_duration
    BY <1>1, <1>2, AfterTyped
  <2> QED BY <1>0, <1>1, <1>3, <2>1 DEF LoopTypes, HistoryInv
<1>6. ArmTypes'
  BY <1>0, <1>1, ArmUnchanged
<1>7. PaceInv'
  <2>1. elapsed_time_' = After(elapsed_time_, period) \/ elapsed_time_' = elapsed_time_
    BY DEF update, MoveOn, Hold
  <2>2. elapsed_time_ <= After(elapsed_time_, period)
    BY <1>2, MoveAssumption DEF After, MoveAssumption
  <2>3. motions = 1 => elapsed_time_' <= sinceStart'
    <3> SUFFICES ASSUME motions = 1 PROVE elapsed_time_' <= sinceStart'
      OBVIOUS
    <3>1. elapsed_time_ <= sinceStart
      BY <1>0 DEF PaceInv
    <3>2. After(elapsed_time_, period) <= After(sinceStart, period)
      BY <1>2, <3>1, AfterOrdered
    <3>3. After(elapsed_time_, period) \in Int /\ After(sinceStart, period) \in Int
      BY <1>2, AfterTyped
    <3> QED BY <1>1, <1>2, <2>1, <2>2, <3>2, <3>3
  <2> QED BY <1>0, <1>1, <2>3 DEF LoopTypes, PaceInv
<1>8. GoalInv'
  BY <1>0, <1>1 DEF GoalInv
<1> QED BY <1>4, <1>5, <1>6, <1>7, <1>8, TypePartsNext DEF IInv

LEMMA ArmInv == ASSUME IInv, ArmFollows \/ ArmIsPushed PROVE IInv'
<1>0. GoalTypes /\ LoopTypes /\ ArmTypes /\ HistoryInv /\ PaceInv /\ GoalInv
  BY TypeParts DEF IInv
<1>1. /\ UNCHANGED <<life, parameters, motion, model, description, history>>
      /\ q' \in Configurations
      /\ pushes' = pushes \/ (pushes < MaxPushes /\ pushes' = pushes + 1)
  BY DEF ArmFollows, ArmIsPushed
<1>2. GoalTypes' /\ LoopTypes'
  BY <1>0, <1>1 DEF GoalTypes, LoopTypes, motion, model, history
<1>3. ArmTypes'
  BY <1>0, <1>1, MoveAssumption DEF ArmTypes, description, MoveAssumption
<1>4. HistoryInv' /\ PaceInv' /\ GoalInv'
  BY <1>0, <1>1 DEF HistoryInv, PaceInv, GoalInv, motion, history
<1> QED BY <1>2, <1>3, <1>4, TypePartsNext DEF IInv

LEMMA StepInv == ASSUME IInv, [Next]_vars PROVE IInv'
BY LifeInv, ConfigureInv, DescriptionInv, ActivateInv, WaitInv, UpdateInv, ArmInv, StutterInv
   DEF Next

-----------------------------------------------------------------------------
(***************************************************************************)
(* The theorems                                                            *)
(***************************************************************************)
\* Every variable keeps its type: the inverse kinematics gives back configurations
\* and the time of the motion is never beyond its duration.
THEOREM TypeCorrect == Spec => []TypeOK
<1>1. IInv => TypeOK
  BY DEF IInv
<1> QED BY InitInv, StepInv, <1>1, PTL DEF Spec

\* Whatever description comes, and when: update() moves to the configured goal or
\* to a solution, never to an iterate that ik() gave up at.
THEOREM GoalIsConfiguredOrSolvedAlways == Spec => []GoalIsConfiguredOrSolved
<1>1. IInv => GoalIsConfiguredOrSolved
  BY DEF IInv, GoalInv, GoalIsConfiguredOrSolved, Solved
<1> QED BY InitInv, StepInv, <1>1, PTL DEF Spec

\* As often as the controller was configured, activated and stopped before, the
\* reference of the first motion after a configuration has gone no larger part of
\* the way than the time measured since the activation has of move_duration.
THEOREM ReferenceKeepsPaceAlways == Spec => ReferenceKeepsPace
<1>1. IInv /\ [Next]_vars
        => [life = "active" /\ ~finished_ /\ motions = 1 /\ q_des_' # q_des_
              => Magnitude(q_des_' - move_duration * q_start_)
                   <= sinceStart' * Magnitude(q_goal_ - q_start_)]_vars
  <2> SUFFICES ASSUME IInv, Next, life = "active", ~finished_, motions = 1, q_des_' # q_des_
               PROVE  Magnitude(q_des_' - move_duration * q_start_)
                        <= sinceStart' * Magnitude(q_goal_ - q_start_)
    OBVIOUS
  <2>1. PICK period \in Periods : update(period)
    BY DEF Next, RejectSizes, on_configure, Cleanup, ReceiveDescription, on_activate, WaitEnds,
           on_deactivate, ArmFollows, ArmIsPushed, motion, reset
  <2>2. IInv'
    BY StepInv
  <2>3. /\ elapsed_time_' \in Nat /\ sinceStart' \in Nat /\ elapsed_time_' <= sinceStart'
        /\ q_goal_ \in Int /\ q_start_ \in Int /\ move_duration \in Int
    <3>1. motions' = 1 /\ PaceInv' /\ TypeOK' /\ TypeOK
      BY <2>1, <2>2 DEF update, IInv
    <3>2. elapsed_time_' \in 0..move_duration /\ sinceStart' \in 0..move_duration
      BY <3>1 DEF TypeOK
    <3> QED BY <3>1, <3>2, MoveAssumption DEF PaceInv, TypeOK, MoveAssumption
  <2> DEFINE e == elapsed_time_'
             w == q_goal_ - q_start_
  <2>4. q_des_' = (move_duration - e) * q_start_ + e * q_goal_
    BY <2>1 DEF update, MoveOn, Hold, Interpolated
  <2> HIDE DEF e
  <2>5. e \in Nat /\ e <= sinceStart' /\ w \in Int
    BY <2>3 DEF e
  <2>6. q_des_' - move_duration * q_start_ = e * w
    BY <2>3, <2>4, <2>5, PartOfWay
  <2> HIDE DEF w
  <2>7. Magnitude(e * w) <= sinceStart' * Magnitude(w)
    BY <2>3, <2>5, LongerPart
  <2> QED BY <2>6, <2>7 DEF w
<1> QED BY InitInv, StepInv, <1>1, PTL DEF Spec, ReferenceKeepsPace
=============================================================================
