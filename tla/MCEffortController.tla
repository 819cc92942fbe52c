------------------------- MODULE MCEffortController -------------------------
(***************************************************************************)
(* An arm of two joints, one below and one beyond the sixth, of which the  *)
(* second is CONTINUOUS.  The target is further away than the motion error *)
(* is clamped to, and asks for more than the limit.                        *)
(***************************************************************************)
EXTENDS EffortController

MCJoints == {5, 6}
MCEffortLimits == [j \in MCJoints |-> IF j = 5 THEN 1 ELSE Unlimited]
MCPoses == {0, 2}
MCRest == {-1, 0}
MCAnyEffort == {-2, 2, NaN}
=============================================================================
