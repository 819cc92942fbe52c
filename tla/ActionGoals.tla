----------------------------- MODULE ActionGoals -----------------------------
(***************************************************************************)
(* What a server of actions on one device promises to its clients: the     *)
(* life of every goal, and how it is tied to the motion of the device.  A  *)
(* goal moves the device at most once and while it is open, the device     *)
(* makes one motion at a time, and the end of a goal is reported when its  *)
(* motion has reached its end or was stopped, and as which of the two.     *)
(***************************************************************************)
CONSTANT Goals

VARIABLES
  status,   \* what the client of each goal sees
  motion    \* the motion of the device on behalf of each goal

Open     == {"executing", "canceling"}
Terminal == {"succeeded", "aborted", "canceled"}

TypeOK ==
  /\ status \in [Goals -> {"unknown"} \cup Open \cup Terminal]
  /\ motion \in [Goals -> {"none", "moving", "reached", "stopped"}]

Init ==
  /\ status = [g \in Goals |-> "unknown"]
  /\ motion = [g \in Goals |-> "none"]

Accept(g) ==
  /\ status[g] = "unknown"
  /\ status' = [status EXCEPT ![g] = "executing"]
  /\ UNCHANGED motion

Cancel(g) ==
  /\ status[g] = "executing"
  /\ status' = [status EXCEPT ![g] = "canceling"]
  /\ UNCHANGED motion

\* The motion of a goal begins, and stops the one under way.
Begin(g) ==
  /\ status[g] \in Open
  /\ motion[g] = "none"
  /\ motion' = [h \in Goals |-> IF h = g THEN "moving"
                                ELSE IF motion[h] = "moving" THEN "stopped"
                                ELSE motion[h]]
  /\ UNCHANGED status

Reach(g) ==
  /\ status[g] \in Open
  /\ motion[g] = "moving"
  /\ motion' = [motion EXCEPT ![g] = "reached"]
  /\ UNCHANGED status

\* The motion of an open goal is stopped, or given up before it begins.
Stop(g) ==
  /\ status[g] \in Open
  /\ motion[g] \in {"none", "moving"}
  /\ motion' = [motion EXCEPT ![g] = "stopped"]
  /\ UNCHANGED status

\* A goal may be reported without a motion: refused, or reached already.
Report(g, result) ==
  /\ status[g] \in Open
  /\ motion[g] # "moving"
  /\ CASE result = "succeeded" -> motion[g] # "stopped"
       [] result = "aborted"   -> motion[g] # "reached"
       [] result = "canceled"  -> status[g] = "canceling"
  /\ status' = [status EXCEPT ![g] = result]
  /\ UNCHANGED motion

Next ==
  \E g \in Goals :
    \/ Accept(g)
    \/ Cancel(g)
    \/ Begin(g)
    \/ Reach(g)
    \/ Stop(g)
    \/ \E result \in Terminal : Report(g, result)

Spec == Init /\ [][Next]_<<status, motion>>
=============================================================================
