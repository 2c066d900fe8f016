------------------------------ MODULE NavGoal ------------------------------
(***************************************************************************)
(* The goals Navigator sends, one after another, and how each is waited    *)
(* for, timed out, interrupted and cancelled: _run, _cancel and drive_to   *)
(* of core/navigation/nav2_client.py.                                      *)
(***************************************************************************)
EXTENDS ActionServer

VARIABLES
  pc,       \* where the call is; "free" between calls, "ended" with its run
  sent,     \* goals sent so far; the last of them is the call's
  why,      \* what the wait was given up for
  reached   \* what the last call returned

client == <<pc, sent, why, reached>>
vars   == <<server, client>>

Mine == sent  \* the goal of the call

At(here, there) == pc = here /\ pc' = there

----------------------------------------------------------------------------

\* drive_to: send the goal, or raise when there is no server.
Drive ==
  /\ pc = "free"
  /\ \/ /\ sent < MaxGoals
        /\ sent' = sent + 1
        /\ Send(sent + 1)
        /\ pc' = "sent"
     \/ pc' = "ended" /\ UNCHANGED <<sent, server>>
  /\ UNCHANGED <<why, reached>>

\* The acceptance arrives within 10 s; None when the goal was rejected.
Acknowledged ==
  /\ pc = "sent"
  /\ goal[Mine] \in Answered
  /\ IF goal[Mine] = "rejected" THEN pc' = "free" /\ reached' = FALSE
                                ELSE pc' = "waiting" /\ UNCHANGED reached
  /\ UNCHANGED <<sent, why, server>>

NotAcknowledged == At("sent", "late") /\ UNCHANGED <<sent, why, reached, server>>

\* Variant: a late acceptance is not answered by a cancellation.
RaiseOnly ==
  /\ At("late", "ended")
  /\ goal[Mine] \in Answered
  /\ UNCHANGED <<sent, why, reached, server>>

\* cancel_late, called when the acceptance comes within another 10 s; the call
\* raises whether or not there was anything to cancel.
LateAcknowledged ==
  /\ At("late", "ended")
  /\ goal[Mine] \in Answered
  /\ IF goal[Mine] = "rejected" THEN UNCHANGED server ELSE Cancel(Mine)
  /\ UNCHANGED <<sent, why, reached>>

\* Nobody runs that callback after the 20 s, or after SIGINT.
LeftUnanswered ==
  /\ At("late", "ended")
  /\ why' = "unanswered"
  /\ UNCHANGED <<sent, reached, server>>

InterruptedEarly ==
  /\ pc \in {"sent", "late"}
  /\ pc' = "ended"
  /\ why' = "early interrupt"
  /\ UNCHANGED <<sent, reached, server>>

\* The result: drive_to then compares the measured pose with the goal, and
\* raises when there is no fresh pose.
Result ==
  /\ pc = "waiting"
  /\ goal[Mine] \in Ended
  /\ \/ pc' = "free" /\ reached' \in {FALSE, goal[Mine] = "succeeded"}
     \/ goal[Mine] = "succeeded" /\ pc' = "ended" /\ UNCHANGED reached
  /\ UNCHANGED <<sent, why, server>>

\* 300 s passed, or SIGINT came.
GiveUp ==
  /\ At("waiting", "cancelling")
  /\ why' \in {"timeout", "interrupt"}
  /\ Cancel(Mine)
  /\ UNCHANGED <<sent, reached>>

\* How a call ends that gave up; alone, without a result to confirm that the
\* motion ended, it is a variant of Confirmed.
CancelReturns ==
  /\ pc = "cancelling"
  /\ IF why = "timeout" THEN pc' = "free" /\ reached' = FALSE
                        ELSE pc' = "ended" /\ UNCHANGED reached
  /\ UNCHANGED <<sent, why, server>>

\* _cancel: only a result confirms that the motion ended.
Confirmed ==
  /\ pc = "cancelling"
  /\ goal[Mine] \in Ended
  /\ CancelReturns

\* No result within 10 s, or SIGINT again: the call raises.
Unconfirmed == At("cancelling", "ended") /\ UNCHANGED <<sent, why, reached, server>>

ClientStep ==
  \/ Acknowledged \/ NotAcknowledged \/ LateAcknowledged \/ LeftUnanswered \/ InterruptedEarly
  \/ Result \/ GiveUp \/ Confirmed \/ Unconfirmed

Init ==
  /\ ServerInit
  /\ pc = "free"
  /\ sent = 0
  /\ why = "none"
  /\ reached = FALSE

Next ==
  \/ Drive
  \/ ClientStep
  \/ ServerStep /\ UNCHANGED client

\* Every wait of _run and _cancel has a timeout.  A server that was asked to
\* cancel a goal does so in the end; nothing says when, or when it answers.
Fairness ==
  /\ WF_vars(ClientStep)
  /\ \A g \in Goals : WF_vars(CancelTakesEffect(g) /\ UNCHANGED client)

Spec == Init /\ [][Next]_vars /\ Fairness

----------------------------------------------------------------------------
\* Properties.

TypeOK ==
  /\ ServerTypeOK
  /\ pc \in {"free", "sent", "late", "waiting", "cancelling", "ended"}
  /\ sent \in 0..MaxGoals
  /\ why \in {"none", "timeout", "interrupt", "early interrupt", "unanswered"}
  /\ reached \in BOOLEAN

\* A goal that moves the robot, or still may, is the one the call watches.
Watched(g) == g = Mine /\ pc \in {"sent", "late", "waiting", "cancelling"}

Handled == \A g \in Goals : MayMove(g) => Watched(g) \/ g \in cancelled

\* "A delayed acceptance must not leave an untracked goal running": every way
\* out of _run but the two that give up on an acceptance leaves no goal that
\* could move the robot and was not cancelled.
NoUntrackedGoal == why \notin {"early interrupt", "unanswered"} => Handled

\* Stop, Reset and every dashboard button that takes the robot over rely on it:
\* the mission cancels its Nav2 goal on SIGINT.
SigintCancelsGoal == pc = "ended" /\ why \in {"interrupt", "early interrupt"} => Handled

\* And then the robot comes to a stop.
StopsInTheEnd ==
  pc = "ended" /\ why \notin {"early interrupt", "unanswered"}
    ~> \A g \in Goals : goal[g] # "moving"

\* drive_to keeps the promise of SingleMotion.
Motion == INSTANCE SingleMotion WITH
            caller <- IF pc \in {"free", "ended"} THEN pc ELSE "waiting",
            robot  <- Robot(Mine),
            heard  <- reached

DrivesOneAtATime == Motion!Spec
=============================================================================
