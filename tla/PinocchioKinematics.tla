------------------------- MODULE PinocchioKinematics -------------------------
(***************************************************************************)
(* PinocchioKinematics: the initialisation from a robot description and    *)
(* the iterations of its inverse kinematics.                               *)
(*                                                                         *)
(* A configuration of the arm is an integer and a pose the configuration   *)
(* that reaches it.  The weighted error of a configuration is its distance *)
(* to the target, plus a residue where the orientation is out of reach.    *)
(* The damped step depends on the Jacobian: it may be any of Steps.        *)
(***************************************************************************)
EXTENDS Integers

CONSTANTS
  Steps,       \* the steps the linearisation may give
  max_iters,   \* IkOptions::max_iters
  eps,         \* IkOptions::eps
  Lower,       \* the position limits
  Upper

ASSUME KinematicsAssumption ==
  /\ Steps \subseteq Int
  /\ max_iters \in Nat /\ eps \in Nat
  /\ Lower \in Int /\ Upper \in Int /\ Lower <= Upper

Magnitude(x) == IF x < 0 THEN -x ELSE x

\* Pinocchio's getFrameId() returns the number of frames for a name it does
\* not know, so that the test against -1 finds every frame.
resolveFrameIds(description) == TRUE

\* Nor does getJointId() return -1: the joints are read, past their end if one of
\* the seven is missing.
buildArmIndexMaps(description) == description # "without_joints"

\* What a description makes of the model.
initFromUrdfXml(description) ==
  IF description \in {"empty", "malformed"} THEN "uninitialized"
  ELSE IF ~resolveFrameIds(description) THEN "uninitialized"
  ELSE IF ~buildArmIndexMaps(description) THEN "undefined"
  ELSE IF description = "without_frame" THEN "out_of_range"
  ELSE "initialized"

computeError6DWorld(q, target, residue) == Magnitude(q - target) + residue

clampArmToLimitsInPlace(q, clamp_to_limits) ==
  IF ~clamp_to_limits THEN q
  ELSE IF q < Lower THEN Lower ELSE IF q > Upper THEN Upper ELSE q

\* A step halved k times.
Halved(dq, k) == IF dq < 0 THEN -((-dq) \div 2^k) ELSE dq \div 2^k

\* The candidates of the line search that lower the error, by their place.
Improving(q, dq, target, residue, clamp_to_limits) ==
  {k \in 0..9 :
     computeError6DWorld(clampArmToLimitsInPlace(q + Halved(dq, k), clamp_to_limits),
                         target, residue)
       < computeError6DWorld(q, target, residue)}

\* The first of them.
integrateArmInPlace(q, dq, improving, clamp_to_limits) ==
  LET k == CHOOSE i \in improving : \A j \in improving : i <= j
  IN clampArmToLimitsInPlace(q + Halved(dq, k), clamp_to_limits)

Solved(q, target, residue) == computeError6DWorld(q, target, residue) < eps

\* The configurations an iteration may step to from q.
Stepped(q, target, residue, clamp_to_limits) ==
  {integrateArmInPlace(q, dq, Improving(q, dq, target, residue, clamp_to_limits),
                       clamp_to_limits) :
     dq \in {d \in Steps : /\ ~Solved(q, target, residue)
                           /\ Improving(q, d, target, residue, clamp_to_limits) # {}}}

\* Those it may have reached after each number of iterations.
Iterates(target, residue, clamp_to_limits, q_init) ==
  LET after[n \in 0..max_iters] ==
        IF n = 0 THEN {q_init}
        ELSE UNION {Stepped(q, target, residue, clamp_to_limits) : q \in after[n - 1]}
  IN after

Answer(ok, q) == [ok |-> ok, q |-> q]

\* An iteration at q ends the search with a solution; at a step that is not
\* finite; or where no candidate lowers the error.
Answers(q, target, residue, clamp_to_limits) ==
  IF Solved(q, target, residue) THEN {Answer(TRUE, q)}
  ELSE {Answer(FALSE, q)} \cup
       {Answer(FALSE, clampArmToLimitsInPlace(q, clamp_to_limits)) :
          dq \in {d \in Steps : Improving(q, d, target, residue, clamp_to_limits) = {}}}

\* The answers ik() may give from q_init: a configuration, and whether it is a
\* solution.  The configuration that the last iteration steps to is not tested.
ik(target, residue, clamp_to_limits, q_init) ==
  LET after == Iterates(target, residue, clamp_to_limits, q_init)
  IN {Answer(FALSE, clampArmToLimitsInPlace(q, clamp_to_limits)) : q \in after[max_iters]}
     \cup UNION {Answers(q, target, residue, clamp_to_limits) :
                   q \in UNION {after[n] : n \in 0..(max_iters - 1)}}
=============================================================================
