---------------------- MODULE MCRobotStateBroadcaster ----------------------
(* Instances of the robot state broadcaster for TLC.                       *)
EXTENDS RobotStateBroadcaster

\* The links of franka_description/robots/common/franka_arm.xacro, alone and
\* with the hand of end_effectors/common/franka_hand.xacro mounted on a link
\* "base".
Arm == [link \in {"link0", "link1", "link2", "link3", "link4", "link5", "link6", "link7"} |->
         <<CASE link = "link0" -> "link1" [] link = "link1" -> "link2"
             [] link = "link2" -> "link3" [] link = "link3" -> "link4"
             [] link = "link4" -> "link5" [] link = "link5" -> "link6"
             [] link = "link6" -> "link7" [] link = "link7" -> "link8">>]

ArmAlone ==
  [root |-> "link0", children |-> [l \in {"link8"} |-> <<>>] @@ Arm]
ArmWithHand ==
  [root |-> "base",
   children |-> "base" :> <<"link0">> @@ "link8" :> <<"hand">>
     @@ "hand" :> <<"hand_tcp", "leftfinger", "rightfinger">>
     @@ [l \in {"hand_tcp", "leftfinger", "rightfinger"} |-> <<>>] @@ Arm]

MCTryCounts == {-1, 0, 2}
MCDescriptions == {ArmAlone, ArmWithHand}
=============================================================================
