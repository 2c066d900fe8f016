--------------------------- MODULE Nav2Lifecycle ---------------------------
(***************************************************************************)
(* Nav2's lifecycle manager, as the repository uses it.  The manager is    *)
(* not part of the repository: this is the contract that                   *)
(* Navigator.pause_navigation, resume_navigation_if_paused, pick.hold_nav2 *)
(* and the dashboard's Nav2 buttons rely on.                               *)
(*                                                                         *)
(*   - It serves PAUSE and RESUME one at a time, in the order they arrive, *)
(*     changing its nodes one after the other.  controller_server heads    *)
(*     its list (launch/realrobot/nav2_real.launch.py), so RESUME          *)
(*     activates it first and PAUSE, which walks the list backwards,       *)
(*     deactivates it last.                                                *)
(*   - A node that is not in the state the command starts from, or whose   *)
(*     transition fails, makes it refuse; the nodes already changed stay   *)
(*     changed.                                                            *)
(*   - A request outlives its caller: one whose caller gave up after 30 s  *)
(*     is still carried out.                                               *)
(***************************************************************************)
EXTENDS Naturals, Sequences, FiniteSets

CONSTANTS
  Nodes,       \* the lifecycle nodes the manager manages
  MotionNodes, \* those that can move the base
  Controller,  \* controller_server
  Clients      \* who may have a request of its own outstanding

ASSUME NodesAssumption ==
  /\ Controller \in MotionNodes
  /\ MotionNodes \subseteq Nodes
  /\ "nobody" \notin Clients

VARIABLES
  lc,      \* lifecycle state of each node
  cmds,    \* requests the manager has not begun, oldest first
  cur,     \* the request it is carrying out, and the nodes still to change
  answer,  \* what each client's latest request was answered with
  driving  \* TRUE while a navigation goal moves the base

nav2 == <<lc, cmds, cur, answer, driving>>

Commands == {"PAUSE", "RESUME"}
Callers  == Clients \cup {"nobody"}
Requests == [cmd : Commands, by : Callers]
NoCmd    == [cmd |-> "none", by |-> "nobody", todo |-> {}]

From(c) == IF c = "PAUSE" THEN "active" ELSE "inactive"
To(c)   == IF c = "PAUSE" THEN "inactive" ELSE "active"

AllActive    == \A n \in Nodes : lc[n] = "active"
MotionPaused == \A n \in MotionNodes : lc[n] = "inactive"

Idle  == cur.cmd = "none"
Quiet == Idle /\ cmds = <<>>

Nav2TypeOK ==
  /\ lc \in [Nodes -> {"active", "inactive"}]
  /\ cmds \in Seq(Requests)
  /\ cur \in [cmd : Commands \cup {"none"}, by : Callers, todo : SUBSET Nodes]
  /\ answer \in [Clients -> {"none", "ok", "refused"}]
  /\ driving \in BOOLEAN

\* Autostart leaves the stack active; an earlier mission leaves it paused.
Nav2Init ==
  /\ \E s \in {"active", "inactive"} : lc = [n \in Nodes |-> s]
  /\ cmds = <<>>
  /\ cur = NoCmd
  /\ answer = [c \in Clients |-> "none"]
  /\ driving = FALSE

----------------------------------------------------------------------------
\* What a client does to the manager.

Request(who, c) ==
  /\ cmds' = Append(cmds, [cmd |-> c, by |-> who])
  /\ answer' = [answer EXCEPT ![who] = "none"]
  /\ UNCHANGED <<lc, cur, driving>>

\* The client stops waiting or dies: its request stays, its answer goes nowhere.
Orphan(r, who) == IF r.by = who THEN [r EXCEPT !.by = "nobody"] ELSE r

Abandon(who) ==
  /\ cmds' = [i \in DOMAIN cmds |-> Orphan(cmds[i], who)]
  /\ cur' = Orphan(cur, who)
  /\ answer' = [answer EXCEPT ![who] = "none"]

----------------------------------------------------------------------------
\* What the manager does.

Begin ==
  /\ Idle
  /\ cmds # <<>>
  /\ cur' = [cmd |-> Head(cmds).cmd, by |-> Head(cmds).by, todo |-> Nodes]
  /\ cmds' = Tail(cmds)
  /\ UNCHANGED <<lc, answer, driving>>

\* controller_server is first to wake and last to sleep.
InOrder(n) ==
  IF cur.cmd = "PAUSE" THEN n = Controller => cur.todo = {Controller}
                       ELSE cur.todo = Nodes => n = Controller

\* Deactivating a node may end the goal it serves; without the controller no
\* goal can move the base.
ChangeNode(n) ==
  /\ ~Idle
  /\ n \in cur.todo
  /\ InOrder(n)
  /\ lc[n] = From(cur.cmd)
  /\ lc' = [lc EXCEPT ![n] = To(cur.cmd)]
  /\ cur' = [cur EXCEPT !.todo = @ \ {n}]
  /\ IF cur.cmd = "RESUME" THEN UNCHANGED driving
     ELSE IF n = Controller THEN driving' = FALSE
     ELSE driving' \in {FALSE, driving}
  /\ UNCHANGED <<cmds, answer>>

Reply(v) ==
  /\ cur' = NoCmd
  /\ answer' = IF cur.by \in Clients THEN [answer EXCEPT ![cur.by] = v] ELSE answer
  /\ UNCHANGED <<lc, cmds, driving>>

Refuse   == ~Idle /\ cur.todo # {} /\ Reply("refused")
Complete == ~Idle /\ cur.todo = {} /\ Reply("ok")

Manager == Begin \/ Refuse \/ Complete \/ \E n \in Nodes : ChangeNode(n)

\* A goal no run sent: an RViz click, or a recovery.
StrayGoal ==
  /\ ~MotionPaused
  /\ ~driving
  /\ driving' = TRUE
  /\ UNCHANGED <<lc, cmds, cur, answer>>

GoalEnds ==
  /\ driving
  /\ driving' = FALSE
  /\ UNCHANGED <<lc, cmds, cur, answer>>

Nav2Next == Manager \/ StrayGoal \/ GoalEnds
=============================================================================
