----------------------- MODULE EffortController_proofs -----------------------
(***************************************************************************)
(* Proofs about EffortController, for every arm, every limit, any torque   *)
(* that may be computed, NaN included, and any number of activations.      *)
(*                                                                         *)
(* EffortInv is what makes the two saturations one: the effort that is     *)
(* limited is the one the next cycle starts from.  It also says for which  *)
(* joints that effort may be NaN.  TargetInv adds the target and the       *)
(* message in flight to the frame that is followed, which for the joint    *)
(* impedance controller is a cycle behind.  HandleInv says that a          *)
(* controller that is not active has no handles.                           *)
(***************************************************************************)
EXTENDS EffortController, TLAPS

Within(effort) ==
  \A j \in Joints : effort[j] # NaN /\ EffortLimits[j] # Unlimited =>
    -EffortLimits[j] <= effort[j] /\ effort[j] <= EffortLimits[j]

\* A joint whose effort may be NaN.
NaNIsPossible(j) == NaN \in Rest \/ kind = "gravity compensation" \/ j >= 6

\* What may be asked of a joint, and be written to it.
Possible(effort) ==
  \A j \in Joints : effort[j] \in Efforts /\ (effort[j] = NaN => NaNIsPossible(j))

EffortInv ==
  /\ command = m_efforts /\ Within(m_efforts) /\ Possible(m_efforts)
  /\ ~m_configured => m_efforts = Nothing

FrameSent(frame) ==
  frame.rotation \in sent \cup overtaken /\ frame.position \in sent \cup overtaken

\* Without an overtaken target, what is stored is the target sent last.
LatestStored ==
  /\ incoming.left # {} => incoming.pose = latest
  /\ "rotation" \notin incoming.left => m_target_frame.rotation = latest
  /\ "position" \notin incoming.left => m_target_frame.position = latest

TargetInv ==
  life = "active" /\ kind # "gravity compensation" =>
    /\ incoming.left # {} => incoming.pose \in sent \cup overtaken
    /\ FrameSent(m_target_frame)
    /\ kind = "joint impedance" => FrameSent(m_q_desired)
    /\ overtaken = {} => LatestStored

HandleInv ==
  /\ life \in {"inactive", "active"} => m_configured
  /\ life \in {"unconfigured", "inactive"} => handles = 0 /\ ~m_active
  /\ ActiveHoldsItsHandles

\* The types by the part of the state.
LifeTypes ==
  /\ kind \in Kinds
  /\ life \in {"unconfigured", "inactive", "active", "finalized", "undefined"}
  /\ m_configured \in BOOLEAN /\ m_active \in BOOLEAN
  /\ m_command_current_configuration_ \in BOOLEAN
  /\ fresh \in BOOLEAN

HandleTypes ==
  /\ positionHandles \in Nat /\ handles \in Nat
  /\ activations \in 0..MaxActivations

EffortTypes == m_efforts \in [Joints -> Efforts] /\ command \in [Joints -> Efforts]

TargetTypes ==
  /\ m_target_frame \in Frames /\ m_q_desired \in Frames
  /\ m_target_wrench \in Rest
  /\ incoming \in [pose : Poses, left : SUBSET {"rotation", "position"}]
  /\ transforming \in BOOLEAN
  /\ pose \in Poses
  /\ sent \subseteq Poses /\ latest \in Poses /\ overtaken \subseteq Poses

LEMMA TypeParts == TypeOK <=> LifeTypes /\ HandleTypes /\ EffortTypes /\ TargetTypes
BY Zenon DEF TypeOK, LifeTypes, HandleTypes, EffortTypes, TargetTypes

LEMMA TypePartsNext ==
  TypeOK' <=> LifeTypes' /\ HandleTypes' /\ EffortTypes' /\ TargetTypes'
BY TypeParts, PTL

-----------------------------------------------------------------------------
(* The torque                                                              *)

\* A clamped number is within the bound, and is the number if that is.
LEMMA ClampBounds ==
  ASSUME NEW x \in Int, NEW bound \in Nat
  PROVE  /\ Clamp(x, bound) \in Int
         /\ -bound <= Clamp(x, bound) /\ Clamp(x, bound) <= bound
         /\ x <= bound => Clamp(x, bound) >= x
         /\ -bound <= x => Clamp(x, bound) <= x
BY DEF Clamp

\* What a cycle makes of the effort of a joint, when it and the torque are
\* numbers, is within the limit and, when the last effort was, no further from
\* it than the change allowed.
LEMMA LimitedStep ==
  ASSUME NEW j \in Joints, NEW tau, tau[j] \in Int, m_efforts[j] \in Int
  PROVE  LET next == Limited(j, computeJointEffortCmds(j, tau))
         IN  /\ next \in Int
             /\ EffortLimits[j] # Unlimited =>
                  -EffortLimits[j] <= next /\ next <= EffortLimits[j]
             /\ (EffortLimits[j] # Unlimited =>
                   -EffortLimits[j] <= m_efforts[j] /\ m_efforts[j] <= EffortLimits[j])
                => /\ next - m_efforts[j] <= m_delta_tau_max
                   /\ -m_delta_tau_max <= next - m_efforts[j]
<1> DEFINE change == Clamp(tau[j] - m_efforts[j], m_delta_tau_max)
           effort == m_efforts[j] + change
<1> HIDE DEF change, effort
<1>1. m_delta_tau_max \in Nat /\ NaN \notin Int
  BY EffortAssumption DEF EffortAssumption
<1>2. change \in Int /\ -m_delta_tau_max <= change /\ change <= m_delta_tau_max
  <2>1. tau[j] - m_efforts[j] \in Int
    OBVIOUS
  <2> QED BY <1>1, <2>1, ClampBounds DEF change
<1>3. effort \in Int /\ effort # NaN
  BY <1>1, <1>2 DEF effort
<1>4. computeJointEffortCmds(j, tau) = effort
  BY <1>1 DEF computeJointEffortCmds, effort, change
<1>5. CASE EffortLimits[j] = Unlimited
  <2>1. Limited(j, effort) = effort
    BY <1>5 DEF Limited
  <2>2. effort - m_efforts[j] = change
    BY <1>2 DEF effort
  <2> QED BY <1>2, <1>3, <1>4, <1>5, <2>1, <2>2
<1>6. CASE EffortLimits[j] # Unlimited
  <2>1. EffortLimits[j] \in Nat
    BY <1>6, EffortAssumption DEF EffortAssumption
  <2>2. Limited(j, effort) = Clamp(effort, EffortLimits[j])
    BY <1>3, <1>6 DEF Limited
  <2>3. /\ Clamp(effort, EffortLimits[j]) \in Int
        /\ -EffortLimits[j] <= Clamp(effort, EffortLimits[j])
        /\ Clamp(effort, EffortLimits[j]) <= EffortLimits[j]
    BY <1>3, <2>1, ClampBounds
  <2>4. ASSUME -EffortLimits[j] <= m_efforts[j], m_efforts[j] <= EffortLimits[j]
        PROVE  /\ Clamp(effort, EffortLimits[j]) - m_efforts[j] <= m_delta_tau_max
               /\ -m_delta_tau_max <= Clamp(effort, EffortLimits[j]) - m_efforts[j]
    BY <1>1, <1>2, <1>3, <2>1, <2>4 DEF effort, Clamp
  <2> QED BY <1>4, <1>6, <2>2, <2>3, <2>4
<1> QED BY <1>5, <1>6

\* A torque or an effort that is NaN makes the next effort NaN.
LEMMA NaNStays ==
  ASSUME NEW j, NEW tau, tau[j] = NaN \/ m_efforts[j] = NaN
  PROVE  Limited(j, computeJointEffortCmds(j, tau)) = NaN
<1>1. computeJointEffortCmds(j, tau) = NaN
  BY DEF computeJointEffortCmds
<1> QED BY <1>1 DEF Limited

\* A step between two efforts of a joint: numbers are close, and NaN stays NaN.
SmallStep(before, after) ==
  \A j \in Joints :
    /\ before[j] = NaN => after[j] = NaN
    /\ before[j] # NaN /\ after[j] # NaN =>
         after[j] - before[j] <= m_delta_tau_max /\ -m_delta_tau_max <= after[j] - before[j]

\* A cycle keeps EffortInv and changes no effort by more than allowed.
LEMMA WriteStep ==
  ASSUME TypeOK, EffortInv, NEW tau, Possible(tau), writeJointEffortCmds(tau),
         m_configured', kind' = kind
  PROVE  EffortTypes' /\ EffortInv' /\ fresh' = FALSE /\ SmallStep(command, command')
<1> DEFINE next(j) == Limited(j, computeJointEffortCmds(j, tau))
<1>1. m_efforts' = [j \in Joints |-> next(j)] /\ command' = m_efforts' /\ fresh' = FALSE
  BY Zenon DEF writeJointEffortCmds
<1>2. ASSUME NEW j \in Joints
      PROVE  /\ next(j) \in Efforts
             /\ next(j) = NaN => NaNIsPossible(j)
             /\ next(j) # NaN /\ EffortLimits[j] # Unlimited =>
                  -EffortLimits[j] <= next(j) /\ next(j) <= EffortLimits[j]
             /\ m_efforts[j] = NaN => next(j) = NaN
             /\ m_efforts[j] # NaN /\ next(j) # NaN =>
                  next(j) - m_efforts[j] <= m_delta_tau_max
                  /\ -m_delta_tau_max <= next(j) - m_efforts[j]
  <2>1. NaN \notin Int
    BY EffortAssumption DEF EffortAssumption
  <2>2. /\ m_efforts[j] \in Efforts /\ tau[j] \in Efforts
        /\ m_efforts[j] = NaN \/ tau[j] = NaN => NaNIsPossible(j)
    BY DEF EffortInv, Possible
  <2>3. CASE m_efforts[j] = NaN \/ tau[j] = NaN
    <3>1. next(j) = NaN
      BY <2>3, NaNStays
    <3> HIDE DEF next
    <3>2. next(j) \in Efforts /\ (next(j) = NaN => NaNIsPossible(j))
      BY <2>2, <2>3, <3>1 DEF Efforts
    <3> QED BY <3>1, <3>2
  <2>4. CASE m_efforts[j] # NaN /\ tau[j] # NaN
    <3>1. m_efforts[j] \in Int /\ tau[j] \in Int
      BY <2>2, <2>4 DEF Efforts
    <3>2. EffortLimits[j] # Unlimited =>
            -EffortLimits[j] <= m_efforts[j] /\ m_efforts[j] <= EffortLimits[j]
      BY <2>4 DEF EffortInv, Within
    <3>3. /\ next(j) \in Int
          /\ EffortLimits[j] # Unlimited =>
               -EffortLimits[j] <= next(j) /\ next(j) <= EffortLimits[j]
          /\ next(j) - m_efforts[j] <= m_delta_tau_max
          /\ -m_delta_tau_max <= next(j) - m_efforts[j]
      BY <3>1, <3>2, LimitedStep
    <3> HIDE DEF next
    <3> QED BY <2>1, <2>4, <3>3 DEF Efforts
  <2> QED BY <2>3, <2>4
<1> HIDE DEF next
<1>3. EffortTypes'
  BY <1>1, <1>2 DEF EffortTypes
<1>4. Within(m_efforts)'
  BY <1>1, <1>2 DEF Within
<1>5. Possible(m_efforts)'
  BY <1>1, <1>2 DEF Possible, NaNIsPossible
<1>6. SmallStep(m_efforts, m_efforts')
  BY <1>1, <1>2 DEF SmallStep
<1> QED BY <1>1, <1>3, <1>4, <1>5, <1>6 DEF EffortInv

\* A sum is NaN only if one of its terms is.
LEMMA PlusIsEffort ==
  ASSUME NEW x \in Efforts, NEW y \in Efforts
  PROVE  Plus(x, y) \in Efforts /\ (x # NaN /\ y # NaN => Plus(x, y) # NaN)
<1>1. NaN \notin Int
  BY EffortAssumption DEF EffortAssumption
<1>2. CASE NaN \in {x, y}
  BY <1>2 DEF Plus, Efforts
<1>3. CASE NaN \notin {x, y}
  <2>1. x \in Int /\ y \in Int /\ Plus(x, y) = x + y
    BY <1>3 DEF Plus, Efforts
  <2>2. x + y \in Int
    BY <2>1
  <2> QED BY <1>1, <2>1, <2>2 DEF Efforts
<1> QED BY <1>2, <1>3

\* Every torque that is computed is one of numbers or NaN, and NaN only where a
\* term of the law is, or the vector is unset or too short.
LEMMA TorquesArePossible ==
  ASSUME TypeOK
  PROVE  /\ \A tau \in CartesianTorques : Possible(tau)
         /\ \A q \in Frames : \A tau \in JointTorques(q) : Possible(tau)
         /\ kind = "gravity compensation" => \A tau \in GravityTorques : Possible(tau)
         /\ \A tau \in ZeroTorques : Possible(tau)
<1> TargetTypes
  BY TypeParts
<1>1. /\ Poses \subseteq Int /\ Rest \subseteq Efforts /\ AnyEffort \subseteq Efforts
      /\ Stiffness \in Nat /\ MaxError \in Nat /\ NaN \notin Int /\ Joints \subseteq Nat
  BY EffortAssumption DEF EffortAssumption, Efforts
<1>2. pose \in Int /\ m_target_wrench \in Rest
  BY <1>1 DEF TargetTypes
<1>3. \A q \in Frames : q.rotation \in Int /\ q.position \in Int
  BY <1>1 DEF Frames
<1>4. computeMotionError \in Int
  <2>1. m_target_frame.rotation \in Int /\ m_target_frame.position \in Int
    BY <1>3 DEF TargetTypes
  <2>2. /\ m_target_frame.rotation - pose \in Int
        /\ m_target_frame.position - pose \in Int
    BY <1>2, <2>1
  <2>3. /\ Clamp(m_target_frame.rotation - pose, MaxError) \in Int
        /\ Clamp(m_target_frame.position - pose, MaxError) \in Int
    BY <1>1, <2>2, ClampBounds
  <2> QED BY <2>3 DEF computeMotionError
<1>5. ASSUME NEW x \in Int, NEW y \in Rest
      PROVE  Plus(x, y) \in Efforts /\ (Plus(x, y) = NaN => NaN \in Rest)
  <2>1. x \in Efforts /\ y \in Efforts /\ x # NaN
    BY <1>1 DEF Efforts
  <2> QED BY <2>1, PlusIsEffort
<1>6. ASSUME NEW tau \in CartesianTorques
      PROVE  Possible(tau)
  <2> DEFINE error == Stiffness * computeMotionError
  <2>1. error \in Int
    BY <1>1, <1>4
  <2> HIDE DEF error
  <2>2. PICK rest \in [Joints -> Rest] :
          tau = [j \in Joints |-> Plus(Plus(error, m_target_wrench), rest[j])]
    BY Zenon DEF CartesianTorques, error
  <2>3. /\ Plus(error, m_target_wrench) \in Efforts
        /\ Plus(error, m_target_wrench) = NaN => NaN \in Rest
    BY <1>2, <1>5, <2>1
  <2>4. ASSUME NEW j \in Joints
        PROVE  tau[j] \in Efforts /\ (tau[j] = NaN => NaN \in Rest)
    <3>1. tau[j] = Plus(Plus(error, m_target_wrench), rest[j])
      BY <2>2
    <3>2. rest[j] \in Rest /\ rest[j] \in Efforts
      BY <1>1
    <3> QED BY <2>3, <3>1, <3>2, PlusIsEffort
  <2> QED BY <2>4 DEF Possible, NaNIsPossible
<1>7. ASSUME NEW q \in Frames, NEW tau \in JointTorques(q)
      PROVE  Possible(tau)
  <2> DEFINE spring == Stiffness * (q.rotation - pose) + Stiffness * (q.position - pose)
  <2>1. spring \in Int
    <3>1. q.rotation - pose \in Int /\ q.position - pose \in Int
      BY <1>2, <1>3
    <3> QED BY <1>1, <3>1
  <2> HIDE DEF spring
  <2>2. PICK rest \in [Joints -> Rest] : tau = [j \in Joints |-> Plus(spring, rest[j])]
    BY Zenon DEF JointTorques, spring
  <2>3. ASSUME NEW j \in Joints
        PROVE  tau[j] \in Efforts /\ (tau[j] = NaN => NaN \in Rest)
    <3>1. tau[j] = Plus(spring, rest[j]) /\ rest[j] \in Rest
      BY <2>2
    <3> QED BY <1>5, <2>1, <3>1
  <2> QED BY <2>3 DEF Possible, NaNIsPossible
<1>8. ASSUME kind = "gravity compensation", NEW tau \in GravityTorques
      PROVE  Possible(tau)
  <2>1. \A j \in Joints : tau[j] \in Efforts
    BY <1>1, <1>8 DEF GravityTorques
  <2> QED BY <1>8, <2>1 DEF Possible, NaNIsPossible
<1>9. ASSUME NEW tau \in ZeroTorques
      PROVE  Possible(tau)
  <2>1. ASSUME NEW j \in Joints
        PROVE  tau[j] \in Efforts /\ (tau[j] = NaN => j >= 6)
    <3>1. tau[j] \in AnyEffort \cup {0} /\ (j < 6 => tau[j] = 0)
      BY <1>9 DEF ZeroTorques
    <3>2. j \in Nat /\ NaN # 0
      BY <1>1
    <3>3. tau[j] \in Efforts
      <4>1. CASE tau[j] = 0
        BY <4>1 DEF Efforts
      <4>2. CASE tau[j] \in AnyEffort
        BY <1>1, <4>2
      <4> QED BY <3>1, <4>1, <4>2
    <3>4. j < 6 \/ j >= 6
      BY <3>2
    <3> QED BY <3>1, <3>2, <3>3, <3>4
  <2> QED BY <2>1 DEF Possible, NaNIsPossible
<1> QED BY <1>6, <1>7, <1>8, <1>9

-----------------------------------------------------------------------------
(* The invariant                                                           *)

IInv == TypeOK /\ EffortInv /\ TargetInv /\ HandleInv

LEMMA InitInv == Init => IInv
<1> SUFFICES ASSUME Init PROVE IInv
  OBVIOUS
<1>1. LifeTypes
  BY DEF Init, LifeTypes
<1>2. HandleTypes
  <2>1. MaxActivations \in Nat
    BY EffortAssumption DEF EffortAssumption
  <2> QED BY <2>1 DEF Init, HandleTypes
<1>3. EffortTypes /\ EffortInv
  <2>1. m_efforts = [j \in Joints |-> 0] /\ command = m_efforts
    BY DEF Init, Nothing
  <2>2. ASSUME NEW j \in Joints, EffortLimits[j] # Unlimited
        PROVE  EffortLimits[j] \in Nat
    BY <2>2, EffortAssumption DEF EffortAssumption
  <2>3. Within(m_efforts)
    BY <2>1, <2>2 DEF Within
  <2>4. EffortTypes
    BY <2>1 DEF EffortTypes, Efforts
  <2>5. Possible(m_efforts)
    <3>1. NaN \notin Int
      BY EffortAssumption DEF EffortAssumption
    <3> QED BY <2>1, <3>1 DEF Possible, Efforts
  <2> QED BY <2>1, <2>3, <2>4, <2>5 DEF EffortInv, Nothing
<1>4. TargetTypes
  BY EffortAssumption DEF Init, TargetTypes, Frames, At, EffortAssumption
<1>5. TargetInv
  BY DEF Init, TargetInv
<1>6. HandleInv
  BY DEF Init, HandleInv, ActiveHoldsItsHandles
<1> QED BY <1>1, <1>2, <1>3, <1>4, <1>5, <1>6, TypeParts DEF IInv

\* The parts of the invariant that a step leaves alone.
LEMMA EffortsKept ==
  ASSUME EffortTypes, EffortInv, UNCHANGED <<kind, m_efforts, command>>,
         m_configured => m_configured'
  PROVE  EffortTypes' /\ EffortInv'
BY DEF EffortTypes, EffortInv, Within, Possible, NaNIsPossible

LEMMA TargetsKept ==
  ASSUME TargetTypes, TargetInv,
         UNCHANGED <<kind, targets, subscriptions, pose, history>>,
         life' = "active" => life = "active"
  PROVE  TargetTypes' /\ TargetInv'
BY DEF TargetTypes, TargetInv, FrameSent, LatestStored, targets, subscriptions, history

LEMMA HandlesKept ==
  ASSUME LifeTypes, HandleTypes, HandleInv,
         UNCHANGED <<kind, life, base, activations>>, fresh' \in BOOLEAN
  PROVE  LifeTypes' /\ HandleTypes' /\ HandleInv'
BY DEF LifeTypes, HandleTypes, HandleInv, ActiveHoldsItsHandles, base

-----------------------------------------------------------------------------
(* The steps                                                               *)

LEMMA ConfigureBaseInv ==
  ASSUME IInv, life = "unconfigured", NEW overwrite \in BOOLEAN, ConfigureBase(overwrite),
         life' \in {"inactive", "finalized", "undefined"},
         life' = "undefined" => kind = "cartesian impedance",
         UNCHANGED <<kind, targets, subscriptions, pose, history, activations>>
  PROVE  IInv'
<1> LifeTypes /\ HandleTypes /\ EffortTypes /\ TargetTypes /\ EffortInv /\ TargetInv /\ HandleInv
  BY TypeParts DEF IInv
<1>1. EffortTypes' /\ EffortInv'
  <2>1. CASE m_configured
    BY <2>1, EffortsKept DEF ConfigureBase
  <2>2. CASE ~m_configured
    <3>1. UNCHANGED <<m_efforts, command>>
      BY <2>2 DEF ConfigureBase, EffortInv
    <3> QED BY <2>2, <3>1, EffortsKept
  <2> QED BY <2>1, <2>2
<1>2. TargetTypes' /\ TargetInv'
  BY TargetsKept
<1>3. LifeTypes' /\ HandleTypes'
  BY DEF ConfigureBase, LifeTypes, HandleTypes
<1>4. HandleInv'
  BY DEF ConfigureBase, HandleInv, ActiveHoldsItsHandles
<1> QED BY <1>1, <1>2, <1>3, <1>4, TypePartsNext DEF IInv

LEMMA ConfigureInv == ASSUME IInv, Configure PROVE IInv'
<1> LifeTypes /\ HandleTypes /\ EffortTypes /\ TargetTypes /\ EffortInv /\ TargetInv /\ HandleInv
  BY TypeParts DEF IInv
<1>1. /\ life = "unconfigured"
      /\ UNCHANGED <<kind, targets, subscriptions, pose, history, activations>>
  BY DEF Configure
<1>2. CASE RejectBase
  <2>1. EffortTypes' /\ EffortInv'
    BY <1>1, <1>2, EffortsKept DEF RejectBase, base, control
  <2>2. TargetTypes' /\ TargetInv'
    BY <1>1, <1>2, TargetsKept DEF RejectBase
  <2>3. LifeTypes' /\ HandleTypes' /\ HandleInv'
    BY <1>1, <1>2 DEF RejectBase, base, control, LifeTypes, HandleTypes, HandleInv,
                      ActiveHoldsItsHandles
  <2> QED BY <2>1, <2>2, <2>3, TypePartsNext DEF IInv
<1>3. ASSUME NEW overwrite \in BOOLEAN,
             \/ RejectCartesian(overwrite) \/ RejectJoint(overwrite)
             \/ AcceptJoint(overwrite) \/ AcceptGravity(overwrite)
             \/ \E posture \in {"none", "given", "empty"} : AcceptCartesian(overwrite, posture)
      PROVE  IInv'
  <2>1. /\ ConfigureBase(overwrite) /\ life' \in {"inactive", "finalized", "undefined"}
        /\ life' = "undefined" => kind = "cartesian impedance"
    BY <1>3 DEF RejectCartesian, RejectJoint, AcceptJoint, AcceptGravity, AcceptCartesian
  <2> QED BY <1>1, <2>1, ConfigureBaseInv
<1> QED BY <1>2, <1>3 DEF Configure

LEMMA CleanupInv == ASSUME IInv, Cleanup PROVE IInv'
<1> LifeTypes /\ HandleTypes /\ EffortTypes /\ TargetTypes /\ EffortInv /\ TargetInv /\ HandleInv
  BY TypeParts DEF IInv
<1>1. EffortTypes' /\ EffortInv'
  BY EffortsKept DEF Cleanup, base, control
<1>2. TargetTypes' /\ TargetInv'
  BY TargetsKept DEF Cleanup
<1>3. LifeTypes' /\ HandleTypes' /\ HandleInv'
  BY DEF Cleanup, base, control, LifeTypes, HandleTypes, HandleInv, ActiveHoldsItsHandles
<1> QED BY <1>1, <1>2, <1>3, TypePartsNext DEF IInv

LEMMA ActivateInv == ASSUME IInv, Activate PROVE IInv'
<1> LifeTypes /\ HandleTypes /\ EffortTypes /\ TargetTypes /\ EffortInv /\ TargetInv /\ HandleInv
  BY TypeParts DEF IInv
<1>1. EffortTypes' /\ EffortInv'
  BY EffortsKept DEF Activate
<1> /\ pose' = pose /\ kind' = kind /\ UNCHANGED <<incoming, transforming>>
    /\ sent' = {pose} /\ latest' = pose
    /\ overtaken' = IF incoming.left = {} THEN {} ELSE {incoming.pose}
  BY DEF Activate, subscriptions
<1> SetTargets
  BY DEF Activate
<1>2. TargetTypes'
  <2>1. At(pose) \in Frames
    BY DEF At, Frames, TargetTypes
  <2>2. m_target_frame' \in Frames /\ m_q_desired' \in Frames
    BY <2>1 DEF SetTargets, TargetTypes
  <2>3. m_target_wrench' \in Rest
    BY EffortAssumption DEF SetTargets, TargetTypes, EffortAssumption
  <2>4. sent' \subseteq Poses /\ latest' \in Poses /\ overtaken' \subseteq Poses
    BY DEF TargetTypes
  <2> QED BY <2>2, <2>3, <2>4 DEF TargetTypes
<1>3. TargetInv'
  <2>1. At(pose).rotation = pose /\ At(pose).position = pose
    BY DEF At
  <2>2. kind # "gravity compensation" => m_target_frame' = At(pose)
    BY DEF SetTargets
  <2>3. kind = "joint impedance" => m_q_desired' = At(pose)
    BY DEF SetTargets
  <2>4. /\ incoming.left # {} => incoming.pose \in overtaken'
        /\ overtaken' = {} => incoming.left = {}
    OBVIOUS
  <2> QED BY <2>1, <2>2, <2>3, <2>4 DEF TargetInv, FrameSent, LatestStored
<1>4. ~m_active /\ handles = 0 /\ m_configured /\ life = "inactive"
  BY DEF Activate, HandleInv
<1>5. /\ positionHandles' = positionHandles + (IF m_command_current_configuration_ THEN 1 ELSE 0)
      /\ handles' = IF m_command_current_configuration_ => positionHandles' = 1 THEN 1 ELSE 0
      /\ m_active' = ((m_command_current_configuration_ => positionHandles' = 1) /\ handles' = 1)
  BY <1>4 DEF Activate, ActivateBase
<1>6. HandleTypes'
  <2>1. activations' \in 0..MaxActivations
    <3>1. MaxActivations \in Nat
      BY EffortAssumption DEF EffortAssumption
    <3>2. activations < MaxActivations /\ activations' = activations + 1
      BY DEF Activate
    <3> QED BY <3>1, <3>2 DEF HandleTypes
  <2>2. positionHandles' \in Nat /\ handles' \in Nat
    BY <1>5 DEF HandleTypes
  <2> QED BY <2>1, <2>2 DEF HandleTypes
<1>7. LifeTypes'
  <2>1. m_active' \in BOOLEAN
    BY <1>5
  <2> QED BY <2>1 DEF Activate, updateJointStates, LifeTypes
<1>8. HandleInv'
  <2>1. m_configured' /\ life' \in {"active", "undefined"}
        /\ m_command_current_configuration_' = m_command_current_configuration_
    BY <1>4 DEF Activate, updateJointStates
  <2>2. life' = "active" <=> handles' # 0
    BY <2>1 DEF Activate, updateJointStates
  <2>3. life' = "undefined" => m_command_current_configuration_ /\ positionHandles' > 1
    BY <1>5, <2>1, <2>2 DEF HandleTypes
  <2> QED BY <1>5, <2>1, <2>2, <2>3 DEF HandleInv, ActiveHoldsItsHandles
<1> QED BY <1>1, <1>2, <1>3, <1>6, <1>7, <1>8, TypePartsNext DEF IInv

LEMMA DeactivateInv ==
  ASSUME IInv, Deactivate
  PROVE  /\ IInv'
         /\ SmallStep(command, command')
<1> /\ TypeOK /\ LifeTypes /\ HandleTypes /\ EffortTypes /\ TargetTypes
    /\ EffortInv /\ TargetInv /\ HandleInv
  BY TypeParts DEF IInv
<1>1. PICK tau \in ZeroTorques : writeJointEffortCmds(tau)
  BY Zenon DEF Deactivate
<1>2. m_configured' /\ life = "active" /\ m_active
  BY DEF Deactivate, HandleInv, ActiveHoldsItsHandles
<1>3. Possible(tau) /\ kind' = kind
  BY <1>1, TorquesArePossible DEF Deactivate
<1>4. EffortTypes' /\ EffortInv' /\ fresh' = FALSE
  BY <1>1, <1>2, <1>3, WriteStep
<1>5. SmallStep(command, command')
  BY <1>1, <1>2, <1>3, WriteStep
<1>6. TargetTypes' /\ TargetInv'
  BY TargetsKept DEF Deactivate
<1>7. LifeTypes' /\ HandleTypes'
  BY <1>4 DEF Deactivate, ReleaseHandles, LifeTypes, HandleTypes
<1>8. HandleInv'
  BY <1>2 DEF Deactivate, ReleaseHandles, HandleInv, ActiveHoldsItsHandles
<1> QED BY <1>4, <1>5, <1>6, <1>7, <1>8, TypePartsNext DEF IInv

LEMMA UpdateInv ==
  ASSUME IInv, update
  PROVE  /\ IInv'
         /\ SmallStep(command, command')
<1> /\ TypeOK /\ LifeTypes /\ HandleTypes /\ EffortTypes /\ TargetTypes
    /\ EffortInv /\ TargetInv /\ HandleInv
  BY TypeParts DEF IInv
<1>1. m_q_desired' \in {m_target_frame, m_q_desired}
  BY DEF update, UpdateCartesian, UpdateJoint, UpdateGravity, computeIKSolution
<1>2. m_q_desired' \in Frames
  BY <1>1 DEF TargetTypes
<1>3. PICK tau : writeJointEffortCmds(tau) /\ Possible(tau)
  <2>1. CASE UpdateCartesian
    BY <2>1, TorquesArePossible, Zenon DEF UpdateCartesian
  <2>2. CASE UpdateJoint
    BY <1>2, <2>2, TorquesArePossible, Zenon DEF UpdateJoint
  <2>3. CASE UpdateGravity
    BY <2>3, TorquesArePossible, Zenon DEF UpdateGravity
  <2> QED BY <2>1, <2>2, <2>3 DEF update
<1>4. m_configured' /\ kind' = kind
  BY DEF update, base, HandleInv
<1>5. EffortTypes' /\ EffortInv' /\ fresh' = FALSE
  BY <1>3, <1>4, WriteStep
<1>6. SmallStep(command, command')
  BY <1>3, <1>4, WriteStep
<1>7. TargetTypes'
  BY <1>2 DEF update, TargetTypes, subscriptions, history
<1>8. TargetInv'
  BY <1>1 DEF update, UpdateCartesian, UpdateJoint, UpdateGravity, TargetInv, FrameSent,
             LatestStored, subscriptions, history
<1>9. LifeTypes' /\ HandleTypes' /\ HandleInv'
  BY <1>5, HandlesKept DEF update
<1> QED BY <1>5, <1>6, <1>7, <1>8, <1>9, TypePartsNext DEF IInv

LEMMA EnvironmentInv == ASSUME IInv, ArmMoves \/ Receive PROVE IInv'
<1> LifeTypes /\ HandleTypes /\ EffortTypes /\ TargetTypes /\ EffortInv /\ TargetInv /\ HandleInv
  BY TypeParts DEF IInv
<1>1. UNCHANGED <<kind, life, base, control, activations>>
  BY DEF ArmMoves, Receive, ReceiveFrame, targetFrameCallback, targetWrenchCallback,
         displayInBaseLink
<1>2. EffortTypes' /\ EffortInv'
  BY <1>1, EffortsKept DEF base, control
<1>3. LifeTypes' /\ HandleTypes' /\ HandleInv'
  BY <1>1, HandlesKept DEF control, LifeTypes
<1>4. TargetTypes' /\ TargetInv'
  <2>1. CASE ArmMoves
    BY <2>1 DEF ArmMoves, TargetTypes, TargetInv, FrameSent, LatestStored, targets,
                subscriptions, history
  <2>2. ASSUME NEW p \in Poses, ReceiveFrame(p)
        PROVE  TargetTypes' /\ TargetInv'
    BY <2>2 DEF ReceiveFrame, TargetTypes, TargetInv, FrameSent, LatestStored, targets
  <2>3. ASSUME NEW part \in {"rotation", "position"}, targetFrameCallback(part)
        PROVE  TargetTypes' /\ TargetInv'
    <3>1. incoming.left # {} /\ incoming.pose \in Poses
      BY <2>3 DEF targetFrameCallback, TargetTypes
    <3>2. TargetTypes'
      BY <2>3, <3>1 DEF targetFrameCallback, TargetTypes, Frames, history
    <3>3. /\ m_target_frame'.rotation \in {m_target_frame.rotation, incoming.pose}
          /\ m_target_frame'.position \in {m_target_frame.position, incoming.pose}
      BY <2>3 DEF targetFrameCallback, TargetTypes, Frames
    <3>4. incoming'.pose = incoming.pose /\ incoming'.left = incoming.left \ {part}
      BY <2>3 DEF targetFrameCallback, TargetTypes
    <3>5. /\ UNCHANGED history /\ life' = life /\ kind' = kind
          /\ m_q_desired' = m_q_desired
      BY <2>3 DEF targetFrameCallback
    <3>6. incoming.pose \in sent \cup overtaken
            => (FrameSent(m_target_frame) => FrameSent(m_target_frame)')
      BY <3>3, <3>5 DEF FrameSent, history
    <3>7. FrameSent(m_q_desired) => FrameSent(m_q_desired)'
      BY <3>5 DEF FrameSent, history
    <3>8. LatestStored => LatestStored'
      <4>1. CASE part = "rotation"
        BY <2>3, <3>1, <3>4, <3>5, <4>1
           DEF targetFrameCallback, LatestStored, TargetTypes, Frames, history
      <4>2. CASE part = "position"
        BY <2>3, <3>1, <3>4, <3>5, <4>2
           DEF targetFrameCallback, LatestStored, TargetTypes, Frames, history
      <4> QED BY <4>1, <4>2
    <3> QED BY <3>1, <3>2, <3>4, <3>5, <3>6, <3>7, <3>8 DEF TargetInv, history
  <2>4. ASSUME NEW w \in Rest, NEW inBase \in BOOLEAN, targetWrenchCallback(w, inBase)
        PROVE  TargetTypes' /\ TargetInv'
    BY <2>4 DEF targetWrenchCallback, TargetTypes, TargetInv, FrameSent, LatestStored, history
  <2>5. CASE displayInBaseLink
    BY <2>5 DEF displayInBaseLink, TargetTypes, TargetInv, FrameSent, LatestStored, history
  <2> QED BY <2>1, <2>2, <2>3, <2>4, <2>5 DEF Receive
<1> QED BY <1>2, <1>3, <1>4, TypePartsNext DEF IInv

LEMMA StutterInv == ASSUME IInv, UNCHANGED vars PROVE IInv'
<1> LifeTypes /\ HandleTypes /\ EffortTypes /\ TargetTypes /\ EffortInv /\ TargetInv /\ HandleInv
  BY TypeParts DEF IInv
<1>1. EffortTypes' /\ EffortInv'
  BY EffortsKept DEF vars, base, control
<1>2. TargetTypes' /\ TargetInv'
  BY TargetsKept DEF vars
<1>3. LifeTypes' /\ HandleTypes' /\ HandleInv'
  BY HandlesKept DEF vars, control, LifeTypes
<1> QED BY <1>1, <1>2, <1>3, TypePartsNext DEF IInv

LEMMA StepInv == ASSUME IInv, [Next]_vars PROVE IInv'
BY ConfigureInv, CleanupInv, ActivateInv, DeactivateInv, UpdateInv, EnvironmentInv,
   StutterInv DEF Next

-----------------------------------------------------------------------------
(* The theorems                                                            *)

\* The variables keep their types.
THEOREM TypeCorrect == Spec => []TypeOK
<1>1. IInv => TypeOK
  BY DEF IInv
<1> QED BY <1>1, InitInv, StepInv, PTL DEF Spec

\* Every number that is written is within the limit of its joint, whatever torque
\* is computed, read out of bounds or kept from an earlier activation; what is no
\* number comes from a vector that is unset or too short, or from a term of a law.
THEOREM EffortSafe == Spec => []EffortWithinLimits
<1>1. IInv => EffortWithinLimits
  <2> SUFFICES ASSUME IInv, NEW j \in Joints
               PROVE  IF command[j] = NaN THEN NaNIsPossible(j)
                      ELSE EffortLimits[j] # Unlimited => Abs(command[j]) <= EffortLimits[j]
    BY DEF EffortWithinLimits, NaNIsPossible
  <2>1. command[j] \in Efforts /\ (command[j] = NaN => NaNIsPossible(j))
    BY DEF IInv, EffortInv, Possible
  <2>2. ASSUME command[j] # NaN, EffortLimits[j] # Unlimited
        PROVE  Abs(command[j]) <= EffortLimits[j]
    <3>1. command[j] \in Int
      BY <2>1, <2>2 DEF Efforts
    <3>2. EffortLimits[j] \in Nat
      BY <2>2, EffortAssumption DEF EffortAssumption
    <3>3. -EffortLimits[j] <= command[j] /\ command[j] <= EffortLimits[j]
      BY <2>2 DEF IInv, EffortInv, Within
    <3> QED BY <3>1, <3>2, <3>3 DEF Abs
  <2> QED BY <2>1, <2>2
<1> QED BY <1>1, InitInv, StepInv, PTL DEF Spec

\* A cycle of an activation changes no effort that is and stays a number by more
\* than delta_tau_max, and none that is NaN ever becomes a number again.
THEOREM RateSafe == Spec => TorqueRateBounded
<1>1. ASSUME IInv, [Next]_vars, NEW j \in Joints
      PROVE  IF command[j] = NaN THEN command'[j] = NaN
             ELSE life = "active" /\ ~fresh /\ command'[j] # NaN
                    => Abs(command'[j] - command[j]) <= m_delta_tau_max
  <2>1. IInv'
    BY <1>1, StepInv
  <2>2. command[j] \in Efforts /\ command'[j] \in Efforts /\ m_delta_tau_max \in Nat
    <3>1. command[j] \in Efforts /\ command'[j] \in Efforts
      BY <1>1, <2>1 DEF IInv, TypeOK
    <3>2. m_delta_tau_max \in Nat
      BY EffortAssumption DEF EffortAssumption
    <3> QED BY <3>1, <3>2
  <2>3. CASE Deactivate \/ update
    <3>1. SmallStep(command, command')
      BY <1>1, <2>3, DeactivateInv, UpdateInv
    <3>2. command[j] = NaN => command'[j] = NaN
      BY <3>1 DEF SmallStep
    <3>3. ASSUME command[j] # NaN, command'[j] # NaN
          PROVE  Abs(command'[j] - command[j]) <= m_delta_tau_max
      <4>1. command[j] \in Int /\ command'[j] \in Int
        BY <2>2, <3>3 DEF Efforts
      <4>2. /\ command'[j] - command[j] <= m_delta_tau_max
            /\ -m_delta_tau_max <= command'[j] - command[j]
        BY <3>1, <3>3 DEF SmallStep
      <4> QED BY <2>2, <4>1, <4>2 DEF Abs
    <3> QED BY <3>2, <3>3
  <2>4. CASE ~(Deactivate \/ update)
    <3>1. command' = command
      <4>1. CASE Configure
        BY <4>1 DEF Configure, RejectBase, RejectCartesian, RejectJoint, AcceptCartesian,
                    AcceptJoint, AcceptGravity, ConfigureBase, control
      <4>2. CASE ~Configure
        BY <1>1, <2>4, <4>2 DEF Next, Cleanup, Activate, ArmMoves, Receive, ReceiveFrame,
           targetFrameCallback, targetWrenchCallback, displayInBaseLink, control, vars
      <4> QED BY <4>1, <4>2
    <3>2. command[j] # NaN => Abs(command'[j] - command[j]) <= m_delta_tau_max
      BY <2>2, <3>1 DEF Abs, Efforts
    <3> QED BY <3>1, <3>2
  <2> QED BY <2>3, <2>4
<1> DEFINE Bounded ==
      \A j \in Joints :
        IF command[j] = NaN THEN command'[j] = NaN
        ELSE life = "active" /\ ~fresh /\ command'[j] # NaN
               => Abs(command'[j] - command[j]) <= m_delta_tau_max
<1>2. ASSUME IInv, [Next]_vars
      PROVE  [Bounded]_vars
  BY <1>1, <1>2
<1>3. Spec => [][Bounded]_vars
  <2> HIDE DEF Bounded
  <2> QED BY <1>2, InitInv, StepInv, PTL DEF Spec
<1> QED BY <1>3 DEF TorqueRateBounded

\* An active controller follows only what it was sent in this activation, the
\* pose it started at, or the target whose callback the activation fell into;
\* without the latter what is stored of the target is the one sent last.
THEOREM FollowsSafe == Spec => []FollowsWhatWasSent
<1>1. IInv => FollowsWhatWasSent
  <2> SUFFICES ASSUME IInv, life = "active", kind # "gravity compensation"
               PROVE  /\ {Followed.rotation, Followed.position} \subseteq sent \cup overtaken
                      /\ overtaken = {} =>
                           \A part \in {"rotation", "position"} \ incoming.left :
                             m_target_frame[part] = latest
    BY DEF FollowsWhatWasSent
  <2>1. kind \in {"cartesian impedance", "joint impedance"}
    BY EffortAssumption DEF IInv, TypeOK, EffortAssumption
  <2>2. FrameSent(Followed)
    BY <2>1 DEF IInv, TargetInv, Followed
  <2>3. ASSUME overtaken = {}, NEW part \in {"rotation", "position"} \ incoming.left
        PROVE  m_target_frame[part] = latest
    <3>1. LatestStored /\ m_target_frame \in Frames
      BY <2>3 DEF IInv, TypeOK, TargetInv
    <3>2. CASE part = "rotation"
      BY <2>3, <3>1, <3>2 DEF LatestStored, Frames
    <3>3. CASE part = "position"
      BY <2>3, <3>1, <3>3 DEF LatestStored, Frames
    <3> QED BY <2>3, <3>2, <3>3
  <2> QED BY <2>2, <2>3 DEF FrameSent
<1> QED BY <1>1, InitInv, StepInv, PTL DEF Spec

\* An active controller has the handles of this activation and no others.
THEOREM HandlesSafe == Spec => []ActiveHoldsItsHandles
<1>1. IInv => ActiveHoldsItsHandles
  BY DEF IInv, HandleInv
<1> QED BY <1>1, InitInv, StepInv, PTL DEF Spec
=============================================================================
