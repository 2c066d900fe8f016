---------------------------- MODULE ActionServer ----------------------------
(***************************************************************************)
(* A ROS 2 action server that moves the robot, as its clients in the       *)
(* repository see it.  The servers (Nav2's bt_navigator, the trajectory    *)
(* controllers, move_group) are not part of the repository; this is what   *)
(* Navigator._run and pick.run_action rely on.                             *)
(*                                                                         *)
(* A goal travels to the server, which accepts or rejects it; an accepted  *)
(* goal moves the robot until it ends.  A cancel request takes effect some *)
(* time after it was sent, or never.                                       *)
(***************************************************************************)
EXTENDS Naturals, FiniteSets

CONSTANT MaxGoals  \* bound: goals the clients send

ASSUME GoalsAssumption == MaxGoals \in Nat

Goals == 1..MaxGoals  \* in the order they are sent

VARIABLES
  goal,      \* what became of each goal
  cancelled  \* goals the server has been asked to cancel

server == <<goal, cancelled>>

Ended    == {"succeeded", "aborted", "canceled"}
Accepted == {"moving"} \cup Ended
Answered == Accepted \cup {"rejected"}

ServerTypeOK ==
  /\ goal \in [Goals -> Answered \cup {"unsent", "travelling", "lost"}]
  /\ cancelled \subseteq Goals

ServerInit ==
  /\ goal = [g \in Goals |-> "unsent"]
  /\ cancelled = {}

Send(g) ==
  /\ goal[g] = "unsent"
  /\ goal' = [goal EXCEPT ![g] = "travelling"]
  /\ UNCHANGED cancelled

Cancel(g) ==
  /\ cancelled' = cancelled \cup {g}
  /\ UNCHANGED goal

Becomes(g, s) == goal' = [goal EXCEPT ![g] = s] /\ UNCHANGED cancelled

Arrive(g) ==
  /\ goal[g] = "travelling"
  /\ \E s \in {"moving", "rejected"} : Becomes(g, s)

Lose(g) == goal[g] = "travelling" /\ Becomes(g, "lost")

Finish(g) ==
  /\ goal[g] = "moving"
  /\ \E s \in {"succeeded", "aborted"} : Becomes(g, s)

CancelTakesEffect(g) ==
  /\ goal[g] = "moving"
  /\ g \in cancelled
  /\ Becomes(g, "canceled")

ServerStep == \E g \in Goals : Arrive(g) \/ Finish(g) \/ CancelTakesEffect(g)

\* What the goals make of the robot, to the caller whose goal is mine.
MayMove(g) == goal[g] \in {"travelling", "moving"}

Robot(mine) ==
  IF \E g \in Goals : goal[g] = "moving" THEN "moving"
  ELSE IF mine \in Goals /\ goal[mine] = "succeeded" THEN "arrived"
  ELSE "still"
=============================================================================
