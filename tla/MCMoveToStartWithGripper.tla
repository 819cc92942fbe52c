---------------------- MODULE MCMoveToStartWithGripper ----------------------
(***************************************************************************)
(* A small arm that goes to a configured place or to a target at the end   *)
(* of its range, with steps that overshoot and steps that fall short.      *)
(***************************************************************************)
EXTENDS MoveToStartWithGripper

MCSteps == {-3, -1, 1, 3}
=============================================================================
