------------------------------ MODULE PickGoal ------------------------------
(***************************************************************************)
(* The goals that a pick, or the recovery after it, sends one after        *)
(* another to the trajectory controllers, the gripper and move_group:      *)
(* run_action of core/grasping/pick.py, over a link that drops a request   *)
(* or an answer now and then, or delays it.  A call that raises may be     *)
(* followed by another: observe_geometry takes the head back, and          *)
(* recover_home folds the arm after a failed retreat.                      *)
(***************************************************************************)
EXTENDS ActionServer

CONSTANT MaxTries  \* how often a goal is sent before its call fails

ASSUME PickAssumption == MaxTries \in Nat \ {0}

VARIABLES
  pc,     \* where the call is; "free" between calls, "raised" after one that
          \* failed, "ended" with the process
  sent,   \* goals sent so far; the last of them is the one the call can cancel
  tries,  \* goals this call has sent
  after,  \* whether a goal was sent after a call had raised
  heard   \* whether the last call's result was success

\* History: the goals that were let go before their answer was heard.  The code
\* keeps no handle of them.
VARIABLE unheard

client == <<pc, sent, tries, after, heard, unheard>>
vars   == <<server, client>>

Mine == sent

----------------------------------------------------------------------------

SendAnother(try) ==
  /\ sent' = sent + 1
  /\ Send(sent + 1)
  /\ tries' = try
  /\ pc' = "sent"

Raise == pc' = "raised" /\ UNCHANGED <<sent, tries, after>>

Fail == Raise /\ heard' = FALSE  \* the call was told of no success

\* The server is looked for three times, 10 s each; the bound leaves room for
\* all the tries.
Call ==
  /\ pc = "free"
  /\ \/ sent + MaxTries <= MaxGoals /\ SendAnother(1) /\ UNCHANGED <<after, heard>>
     \/ Raise /\ UNCHANGED <<heard, server>>
  /\ UNCHANGED unheard

GoalAnswered ==
  /\ pc = "sent"
  /\ goal[Mine] \in Answered
  /\ IF goal[Mine] = "rejected" THEN Fail
     ELSE pc' = "waiting" /\ UNCHANGED <<sent, tries, after, heard>>
  /\ UNCHANGED <<unheard, server>>

\* No answer in 5 s, whatever became of the goal: the request or its answer
\* was dropped, or is late.
LetGo == pc = "sent" /\ unheard' = unheard \cup {Mine}

Resend ==
  /\ LetGo
  /\ tries < MaxTries
  /\ SendAnother(tries + 1)
  /\ UNCHANGED <<after, heard>>

GoalTimesOut ==
  /\ LetGo
  /\ tries = MaxTries
  /\ Fail
  /\ UNCHANGED server

\* SIGINT before the answer.
InterruptedEarly == LetGo /\ Fail /\ UNCHANGED server

\* The result is asked for again every 5 s until the deadline.  After the
\* goal of observe_geometry's finally, what had raised goes on raising.
Result ==
  /\ pc = "waiting"
  /\ goal[Mine] \in Ended
  /\ pc' = "free" \/ (after /\ pc' = "raised")
  /\ heard' = (goal[Mine] = "succeeded")
  /\ UNCHANGED <<sent, tries, after, unheard, server>>

\* Variant: the wait ends without a cancellation.
GiveUpOnly ==
  /\ pc = "waiting"
  /\ pc' = "stopping"
  /\ UNCHANGED <<sent, tries, after, heard, unheard, server>>

\* The deadline passed, or SIGINT came.
GiveUp ==
  /\ pc = "waiting"
  /\ pc' = "stopping"
  /\ Cancel(Mine)
  /\ UNCHANGED <<sent, tries, after, heard, unheard>>

\* Variant: the call returns where it should raise.
ReturnsAnyway ==
  /\ pc = "stopping"
  /\ pc' = "free"
  /\ heard' = FALSE
  /\ UNCHANGED <<sent, tries, after, unheard, server>>

\* The cancellation was answered, or was not within 5 s.
RaisesOn ==
  /\ pc = "stopping"
  /\ Fail
  /\ UNCHANGED <<unheard, server>>

\* The head goes back in the finally of the scan; the fold follows a retreat
\* that failed.  What raises then is not caught again.
GoesOn ==
  /\ pc = "raised"
  /\ ~after
  /\ after' = TRUE
  /\ sent + MaxTries <= MaxGoals
  /\ SendAnother(1)
  /\ UNCHANGED <<heard, unheard>>

Quit ==
  /\ pc = "raised"
  /\ pc' = "ended"
  /\ UNCHANGED <<sent, tries, after, heard, unheard, server>>

ClientStep ==
  \/ GoalAnswered \/ Resend \/ GoalTimesOut \/ InterruptedEarly
  \/ Result \/ GiveUp \/ RaisesOn \/ GoesOn \/ Quit

Dropped == \E g \in Goals : Lose(g)

Init ==
  /\ ServerInit
  /\ pc = "free"
  /\ sent = 0
  /\ tries = 0
  /\ after = FALSE
  /\ heard = FALSE
  /\ unheard = {}

Next ==
  \/ Call
  \/ ClientStep
  \/ (ServerStep \/ Dropped) /\ UNCHANGED client

\* Every wait of run_action has a timeout; a server that was asked to cancel a
\* goal does so in the end.
Fairness ==
  /\ WF_vars(ClientStep)
  /\ \A g \in Goals : WF_vars(CancelTakesEffect(g) /\ UNCHANGED client)

Spec == Init /\ [][Next]_vars /\ Fairness

----------------------------------------------------------------------------
\* Properties.

Calling == {"sent", "waiting", "stopping"}

TypeOK ==
  /\ ServerTypeOK
  /\ pc \in Calling \cup {"free", "raised", "ended"}
  /\ sent \in 0..MaxGoals
  /\ tries \in 0..MaxTries
  /\ after \in BOOLEAN
  /\ heard \in BOOLEAN
  /\ unheard \subseteq Goals

OfTheCall(g) == g = Mine /\ pc \in Calling

\* Whatever is resent, raised over or interrupted, a goal that moves the robot,
\* or still may, is the call's own or has been cancelled, unless its answer was
\* never heard (run_action).
NothingUntracked ==
  \A g \in Goals : MayMove(g) => OfTheCall(g) \/ g \in cancelled \cup unheard

\* "On errors or Ctrl+C, stop the motion rather than leaving it running."
ErrorsStopTheMotion == pc = "ended" => \A g \in Goals : MayMove(g) => g \in cancelled

\* And then the robot comes to a stop: every goal that was heard of does.
StopsInTheEnd == pc = "ended" ~> \A g \in Goals \ unheard : goal[g] # "moving"

\* Where the code cannot know that only one goal moves the robot: the server
\* took one, or still may, whose answer was never heard, or it is still at a
\* goal that was cancelled, when a call has raised.
OutOfHand ==
  \/ \E g \in unheard : goal[g] \notin {"lost", "rejected"}
  \/ /\ pc = "raised" \/ after
     /\ \E g \in cancelled : MayMove(g) /\ ~OfTheCall(g)

\* run_action beside SingleMotion; a call that raised has answered, with nothing
\* reached.
Asks == IF pc = "ended" THEN "ended" ELSE IF pc \in Calling THEN "waiting" ELSE "free"

Motion == INSTANCE SingleMotion WITH caller <- Asks, robot <- Robot(Mine)

\* But for that, run_action keeps the promise of SingleMotion, through lost and
\* rejected goals, resends, deadlines and what is sent after a raise: it asks
\* for one motion at a time, answers when it is over, and tells the truth.
MotionsOneAtATime ==
  Motion!Init /\ [][OutOfHand \/ OutOfHand' \/ Motion!Next]_<<Asks, Robot(Mine), heard>>

\* With no exception, run_action does not keep it.
AlwaysOneMotion == Motion!Spec
=============================================================================
