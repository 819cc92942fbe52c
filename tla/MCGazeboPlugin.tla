--------------------------- MODULE MCGazeboPlugin ---------------------------
(***************************************************************************)
(* GazeboPlugin for TLC: an arm of two joints, of which one is missing in  *)
(* the simulated model, and a hand with two fingers, the second a mimic of *)
(* the first.                                                              *)
(***************************************************************************)
EXTENDS GazeboPlugin, TLC

MCOffers == [j \in 1 .. 4 |-> IF j <= 2 THEN Interfaces ELSE {"effort", "position"}]
MCMimics == 4 :> <<3, "velocity">>

MCClaims ==
  [c \in Controllers |->
     CASE c = "torques"    -> {<<1, "effort">>, <<2, "effort">>}
       [] c = "positions"  -> {<<1, "position">>, <<3, "position">>}
       [] c = "velocities" -> {<<1, "velocity">>, <<2, "velocity">>}
       [] c = "finger"     -> {<<3, "effort">>}]

\* The chain of the arm, with a coarse copy of the base for self-collision, and
\* below its last link the hand with two fingers and the tool centre point, in the
\* order of the names of their joints.
MCLinks == {"base", "base_sc", "link1", "link2", "hand", "finger1", "finger2", "tcp"}
MCChildren ==
  [l \in MCLinks |-> CASE l = "base"  -> <<"link1", "base_sc">>
                       [] l = "link1" -> <<"link2">>
                       [] l = "link2" -> <<"hand">>
                       [] l = "hand"  -> <<"finger1", "finger2", "tcp">>
                       [] OTHER -> <<>>]
MCMovable == {"link1", "link2", "finger1", "finger2"}
=============================================================================
