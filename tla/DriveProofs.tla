----------------------------- MODULE DriveProofs -----------------------------
(***************************************************************************)
(* Proofs about the drives of the base.  NavGoal, for any number of goals: *)
(* no drive leaves a goal behind that nobody cancelled, and drive_to       *)
(* implements SingleMotion.  Parking, for any number of calls and of base  *)
(* poses: under which tolerances the base drives, and what a call leaves.  *)
(* Approach: both at work for one mission, and where READY leaves the base.*)
(***************************************************************************)
EXTENDS Approach, FiniteSetTheorems, TLAPS

(* The ways out of _run that give up on an acceptance end the run. *)
GaveUp == why \in {"early interrupt", "unanswered"}
EndsIfGivenUp == GaveUp => pc = "ended"

(* A call sends its goal first, and goals in their order. *)
SentInOrder ==
  /\ \A g \in Goals : g > sent => goal[g] = "unsent"
  /\ pc \in Calling => sent \in Goals

(* No goal but the call's may move the robot, and between calls none may: *)
(* the heart of what SingleMotion promises.                               *)
OnlyMine ==
  /\ \A g \in Goals : g # Mine => ~MayMove(g)
  /\ pc = "free" => \A g \in Goals : ~MayMove(g)

(* What a wait for the result may find. *)
WaitsForMine ==
  /\ pc \in {"waiting", "cancelling"} => goal[Mine] \in Accepted
  /\ pc = "cancelling" => Mine \in cancelled

(* The inductive invariant. *)
IInv == TypeOK /\ EndsIfGivenUp /\ SentInOrder /\ OnlyMine /\ WaitsForMine /\ NoUntrackedGoal

(* Goals are numbered in the order they are sent. *)
LEMMA LaterIsOther == \A g, h \in Goals : h > g => h # g
BY GoalsAssumption DEF GoalsAssumption, Goals

(* Nothing was sent yet. *)
LEMMA InitHolds == Init => IInv
<1> SUFFICES ASSUME Init PROVE IInv
  OBVIOUS
<1> USE GoalsAssumption DEF GoalsAssumption, Init, ServerInit
<1>1. TypeOK
  <2>1. sent \in 0..MaxGoals
    OBVIOUS
  <2>2. reached \in BOOLEAN
    OBVIOUS
  <2>3. ServerTypeOK
    BY DEF ServerTypeOK
  <2> QED
    BY <2>1, <2>2, <2>3 DEF TypeOK
<1>2. \A g \in Goals : ~MayMove(g)
  BY DEF MayMove
<1> QED
  BY <1>1, <1>2 DEF IInv, EndsIfGivenUp, GaveUp, SentInOrder, OnlyMine, WaitsForMine,
                    NoUntrackedGoal, Handled, Calling

(* A goal that is sent is the call's own, the next in their order.         *)
LEMMA DriveKeeps == IInv /\ Drive => IInv'
<1> SUFFICES ASSUME IInv, Drive PROVE IInv'
  OBVIOUS
<1> USE GoalsAssumption DEF GoalsAssumption, Mine
<1>a. sent \in 0..MaxGoals /\ goal \in [Goals -> Answered \cup {"unsent", "travelling", "lost"}]
  BY DEF IInv, TypeOK, ServerTypeOK
<1>b. EndsIfGivenUp /\ SentInOrder /\ OnlyMine /\ WaitsForMine /\ NoUntrackedGoal
  BY DEF IInv
<1>1. CASE pc' = "ended" /\ UNCHANGED <<sent, server>>
  BY <1>1 DEF IInv, TypeOK, ServerTypeOK, Drive, server, EndsIfGivenUp, SentInOrder, OnlyMine,
              WaitsForMine, MayMove,
              NoUntrackedGoal, Handled, Watched, Calling, GaveUp, Goals
<1>2. CASE sent < MaxGoals /\ sent' = sent + 1 /\ Send(sent + 1) /\ pc' = "sent"
  <2>1. sent \in Nat /\ sent + 1 \in Goals /\ sent' \in Goals /\ sent' # sent
    BY <1>a, <1>2 DEF Goals
  <2>2. goal' = [goal EXCEPT ![sent'] = "travelling"] /\ UNCHANGED <<cancelled, why, reached>>
    BY <1>2 DEF Drive, Send
  <2>3. TypeOK'
    <3>1. sent' \in 0..MaxGoals
      BY <2>1 DEF Goals
    <3>2. goal' \in [Goals -> Answered \cup {"unsent", "travelling", "lost"}]
      BY <1>a, <2>2
    <3> QED
      BY <1>2, <2>2, <3>1, <3>2 DEF IInv, TypeOK, ServerTypeOK
  <2>4. \A g \in Goals : g # sent' => goal'[g] = goal[g]
    BY <1>a, <2>1, <2>2
  <2>5. \A g \in Goals : g > sent' => g > sent /\ g # sent'
    BY <2>1, <1>2 DEF Goals
  <2>6. SentInOrder'
    BY <1>b, <2>1, <2>4, <2>5, <1>2 DEF SentInOrder
  <2>7. pc = "free" /\ ~GaveUp /\ ~GaveUp'
    BY <1>b, <2>2 DEF Drive, EndsIfGivenUp, GaveUp
  <2>8. OnlyMine'
    BY <1>b, <1>2, <2>1, <2>4, <2>7 DEF OnlyMine, MayMove
  <2>9. Handled'
    BY <1>2, <2>8 DEF OnlyMine, Handled, Watched
  <2> QED
    BY <1>2, <2>3, <2>6, <2>7, <2>8, <2>9 DEF IInv, EndsIfGivenUp, WaitsForMine, NoUntrackedGoal
<1> QED
  BY <1>1, <1>2 DEF Drive

(* The waits of a call: it lets go of its goal when that has ended, was    *)
(* rejected, or has been cancelled, or else it gives up on it and says so. *)
LEMMA ClientKeeps == IInv /\ ClientStep => IInv'
<1> SUFFICES ASSUME IInv, ClientStep PROVE IInv'
  OBVIOUS
<1> USE DEF IInv, TypeOK, ServerTypeOK, Mine, server, At, Calling
<1>1. sent' = sent /\ goal' = goal /\ pc \in Calling /\ sent \in Goals
  BY DEF ClientStep, Acknowledged, NotAcknowledged, LateAcknowledged, LeftUnanswered,
         InterruptedEarly, Result, GiveUp, Confirmed, CancelReturns, Unconfirmed, Cancel, SentInOrder
<1>2. ~GaveUp
  BY <1>1 DEF EndsIfGivenUp
<1>3. cancelled' \in {cancelled, cancelled \cup {Mine}}
  BY DEF ClientStep, Acknowledged, NotAcknowledged, LateAcknowledged, LeftUnanswered,
         InterruptedEarly, Result, GiveUp, Confirmed, CancelReturns, Unconfirmed, Cancel
<1>4. /\ pc' \in Calling \cup {"free", "ended"} /\ reached' \in BOOLEAN
      /\ why' \in {"none", "timeout", "interrupt", "early interrupt", "unanswered"}
  BY DEF ClientStep, Acknowledged, NotAcknowledged, LateAcknowledged, LeftUnanswered,
         InterruptedEarly, Result, GiveUp, Confirmed, CancelReturns, Unconfirmed
<1>5. TypeOK'
  BY <1>1, <1>3, <1>4
<1>6. EndsIfGivenUp'
  BY <1>2 DEF EndsIfGivenUp, GaveUp, ClientStep, Acknowledged, NotAcknowledged, LateAcknowledged,
         LeftUnanswered, InterruptedEarly, Result, GiveUp, Confirmed, CancelReturns, Unconfirmed
<1>7. SentInOrder'
  BY <1>1 DEF SentInOrder
<1>8. pc' = "free" => goal[Mine] \in Ended \cup {"rejected"}
  BY <1>1 DEF ClientStep, Acknowledged, NotAcknowledged, LateAcknowledged, LeftUnanswered,
         InterruptedEarly, Result, GiveUp, Confirmed, CancelReturns, Unconfirmed
<1>9. OnlyMine'
  BY <1>1, <1>8 DEF OnlyMine, MayMove, Ended
<1>10. WaitsForMine'
  BY <1>1 DEF WaitsForMine, ClientStep, Acknowledged, NotAcknowledged, LateAcknowledged,
         LeftUnanswered, InterruptedEarly, Result, GiveUp, Confirmed, CancelReturns, Unconfirmed,
         Cancel, Answered
<1>11. pc' = "ended" /\ ~GaveUp' => ~MayMove(Mine) \/ Mine \in cancelled'
  BY <1>1 DEF GaveUp, MayMove, Ended, Answered, WaitsForMine, ClientStep, Acknowledged,
         NotAcknowledged, LateAcknowledged, LeftUnanswered, InterruptedEarly, Result, GiveUp,
         Confirmed, CancelReturns, Unconfirmed, Cancel
<1>12. ~GaveUp' => Handled'
  BY <1>1, <1>4, <1>9, <1>11 DEF OnlyMine, Handled, Watched, MayMove
<1> QED
  BY <1>5, <1>6, <1>7, <1>9, <1>10, <1>12 DEF NoUntrackedGoal, GaveUp

(* The server moves only goals that may move the robot, and they are known.*)
LEMMA ServerKeeps == IInv /\ ServerStep /\ UNCHANGED client => IInv'
<1> SUFFICES ASSUME IInv, UNCHANGED client,
                    NEW g \in Goals, Arrive(g) \/ Finish(g) \/ CancelTakesEffect(g)
             PROVE  IInv'
  BY DEF ServerStep
<1> USE DEF IInv, TypeOK, ServerTypeOK, Mine, client
<1>1. PICK s \in {"moving", "rejected", "succeeded", "aborted", "canceled"} :
         goal' = [goal EXCEPT ![g] = s] /\ cancelled' = cancelled
  BY DEF Arrive, Finish, CancelTakesEffect, Becomes
<1>2. MayMove(g) /\ (s = "rejected" => goal[g] = "travelling")
  BY <1>1 DEF MayMove, Arrive, Finish, CancelTakesEffect, Becomes
<1>3. g = Mine /\ pc # "free"
  BY <1>2 DEF OnlyMine
<1>4. TypeOK'
  BY <1>1 DEF Answered, Accepted, Ended
<1>5. \A h \in Goals : h # g => goal'[h] = goal[h]
  BY <1>1
<1>6. SentInOrder'
  <2>1. \A h \in Goals : h > g => h # g
    BY LaterIsOther
  <2> QED
    BY <1>3, <1>5, <2>1 DEF SentInOrder
<1>7. OnlyMine'
  BY <1>3, <1>5 DEF OnlyMine, MayMove
<1>8. WaitsForMine'
  BY <1>1, <1>2, <1>3 DEF WaitsForMine, Accepted, Ended
<1>9. NoUntrackedGoal'
  BY <1>1, <1>2, <1>5 DEF NoUntrackedGoal, Handled, Watched, MayMove
<1> QED
  BY <1>4, <1>6, <1>7, <1>8, <1>9 DEF EndsIfGivenUp, GaveUp

(* A step of a drive, or none, keeps IInv. *)
LEMMA StepKeeps == IInv /\ [Next]_vars => IInv'
<1>1. IInv /\ UNCHANGED vars => IInv'
  BY DEF vars, client, server, IInv, TypeOK, ServerTypeOK, EndsIfGivenUp, GaveUp, SentInOrder,
         OnlyMine, WaitsForMine, NoUntrackedGoal, Handled, Watched, MayMove, Mine
<1> QED
  BY <1>1, DriveKeeps, ClientKeeps, ServerKeeps DEF Next

(* IInv holds of every state of every sequence of drives. *)
LEMMA DrivesKeepIInv == Spec => []IInv
BY InitHolds, StepKeeps, PTL DEF Spec

(* The state of the calls and of the server is of its type.                *)
THEOREM GoalTypeCorrect == Spec => []TypeOK
<1>1. IInv => TypeOK
  BY DEF IInv
<1> QED
  BY <1>1, DrivesKeepIInv, PTL

(* "A delayed acceptance must not leave an untracked goal running": every  *)
(* way out of _run but the two that give up on an acceptance leaves no     *)
(* goal that could move the robot and was not cancelled.                   *)
THEOREM GoalsAreTracked == Spec => []NoUntrackedGoal
<1>1. IInv => NoUntrackedGoal
  BY DEF IInv
<1> QED
  BY <1>1, DrivesKeepIInv, PTL

(***************************************************************************)
(* drive_to implements SingleMotion.                                       *)
(***************************************************************************)
(* What the robot does is what it makes of the call's own goal. *)
RobotShowsMine ==
  /\ Robot(Mine) = "moving" <=> Mine \in Goals /\ goal[Mine] = "moving"
  /\ Robot(Mine) = "arrived" <=> Mine \in Goals /\ goal[Mine] = "succeeded"
  /\ Robot(Mine) \in {"moving", "arrived", "still"}

(* For no other goal can move it (OnlyMine). *)
LEMMA RobotIsMine == IInv => RobotShowsMine
BY DEF RobotShowsMine, IInv, OnlyMine, MayMove, Robot

(* A new drive is asked for only of a robot that stands still: Ask, and    *)
(* Raise when there is no server.                                          *)
LEMMA DriveAsks ==
  IInv /\ RobotShowsMine /\ RobotShowsMine' /\ IInv' /\ Drive => Motion!Ask \/ Motion!Raise
<1> SUFFICES ASSUME IInv, RobotShowsMine, RobotShowsMine', IInv', Drive
             PROVE  Motion!Ask \/ Motion!Raise
  OBVIOUS
<1>1. CASE pc' = "ended" /\ UNCHANGED <<sent, server>>
  BY <1>1 DEF Drive, Motion!Raise, Robot, Mine, server
<1>2. CASE sent < MaxGoals /\ sent' = sent + 1 /\ Send(sent + 1) /\ pc' = "sent"
  <2>1. sent' \in Goals /\ goal'[sent'] = "travelling"
    <3>1. sent' \in Goals
      BY <1>2 DEF IInv, SentInOrder, Calling
    <3>2. goal \in [Goals -> Answered \cup {"unsent", "travelling", "lost"}]
      BY DEF IInv, TypeOK, ServerTypeOK
    <3> QED
      BY <1>2, <3>1, <3>2 DEF Send
  <2>2. Robot(Mine)' = "still"
    BY <2>1 DEF RobotShowsMine, Mine
  <2> QED
    BY <1>2, <2>2 DEF Drive, Motion!Ask
<1> QED
  BY <1>1, <1>2 DEF Drive

(* The call answers when its goal has ended or was never accepted, and     *)
(* says it arrived only of one that did; or it waits on; or it raises.     *)
LEMMA ClientAnswers ==
  IInv /\ RobotShowsMine /\ ClientStep =>
    \/ Motion!Answer \/ Motion!Raise
    \/ UNCHANGED <<IF pc \in {"free", "ended"} THEN pc ELSE "waiting", Robot(Mine), reached>>
<1> SUFFICES ASSUME IInv, RobotShowsMine, ClientStep
             PROVE  \/ Motion!Answer \/ Motion!Raise
                    \/ UNCHANGED <<IF pc \in {"free", "ended"} THEN pc ELSE "waiting", Robot(Mine), reached>>
  OBVIOUS
<1> USE DEF At, server, Calling
<1>1. sent' = sent /\ goal' = goal /\ pc \in Calling /\ sent \in Goals
  BY DEF ClientStep, Acknowledged, NotAcknowledged, LateAcknowledged, LeftUnanswered,
         InterruptedEarly, Result, GiveUp, Confirmed, CancelReturns, Unconfirmed, Cancel,
         IInv, SentInOrder
<1>2. Robot(Mine)' = Robot(Mine)
  BY <1>1 DEF Robot, Mine
<1>3. pc' \in Calling \/ pc' = "ended" => reached' = reached
  BY DEF ClientStep, Acknowledged, NotAcknowledged, LateAcknowledged, LeftUnanswered,
         InterruptedEarly, Result, GiveUp, Confirmed, CancelReturns, Unconfirmed
<1>4. CASE pc' \in Calling
  BY <1>1, <1>2, <1>3, <1>4
<1>5. CASE pc' = "ended"
  BY <1>1, <1>2, <1>3, <1>5 DEF Motion!Raise
<1>6. CASE pc' = "free"
  <2>1. goal[Mine] \in Ended \cup {"rejected"} /\ reached' \in {FALSE, goal[Mine] = "succeeded"}
    BY <1>6 DEF ClientStep, Acknowledged, NotAcknowledged, LateAcknowledged, LeftUnanswered,
         InterruptedEarly, Result, GiveUp, Confirmed, CancelReturns, Unconfirmed
  <2>2. Robot(Mine) # "moving" /\ reached' \in {FALSE, Robot(Mine) = "arrived"}
    BY <1>1, <2>1 DEF RobotShowsMine, Ended, Mine
  <2> QED
    BY <1>1, <1>2, <1>6, <2>2 DEF Motion!Answer
<1>7. pc' \in Calling \cup {"ended", "free"}
  BY DEF ClientStep, Acknowledged, NotAcknowledged, LateAcknowledged, LeftUnanswered,
         InterruptedEarly, Result, GiveUp, Confirmed, CancelReturns, Unconfirmed
<1> QED
  BY <1>4, <1>5, <1>6, <1>7

(* The server moves the robot only for a caller that has asked, and halts  *)
(* it.                                                                     *)
LEMMA ServerMoves ==
  IInv /\ RobotShowsMine /\ RobotShowsMine' /\ ServerStep /\ UNCHANGED client =>
    \/ Motion!Move \/ Motion!Halt
    \/ UNCHANGED <<IF pc \in {"free", "ended"} THEN pc ELSE "waiting", Robot(Mine), reached>>
<1> SUFFICES ASSUME IInv, RobotShowsMine, RobotShowsMine', UNCHANGED client,
                    NEW g \in Goals, Arrive(g) \/ Finish(g) \/ CancelTakesEffect(g)
             PROVE  \/ Motion!Move \/ Motion!Halt
                    \/ UNCHANGED <<IF pc \in {"free", "ended"} THEN pc ELSE "waiting", Robot(Mine), reached>>
  BY DEF ServerStep
<1>1. g = Mine /\ pc # "free"
  BY DEF IInv, OnlyMine, MayMove, Arrive, Finish, CancelTakesEffect, Becomes
<1>2. Mine' = Mine /\ goal \in [Goals -> Answered \cup {"unsent", "travelling", "lost"}]
  BY DEF client, Mine, IInv, TypeOK, ServerTypeOK
<1>3. CASE Arrive(g)
  <2>1. goal[Mine] = "travelling" /\ goal'[Mine] \in {"moving", "rejected"}
    BY <1>1, <1>2, <1>3 DEF Arrive, Becomes
  <2>2. Robot(Mine) = "still" /\ Robot(Mine)' \in {"moving", "still"}
    BY <1>1, <1>2, <2>1 DEF RobotShowsMine
  <2> QED
    BY <1>1, <2>2 DEF Motion!Move, client
<1>4. CASE Finish(g) \/ CancelTakesEffect(g)
  <2>1. goal[Mine] = "moving" /\ goal'[Mine] \in Ended
    BY <1>1, <1>2, <1>4 DEF Finish, CancelTakesEffect, Becomes, Ended
  <2>2. Robot(Mine) = "moving" /\ Robot(Mine)' \in {"still", "arrived"}
    BY <1>1, <1>2, <2>1 DEF RobotShowsMine, Ended
  <2> QED
    BY <2>2 DEF Motion!Halt, client
<1> QED
  BY <1>3, <1>4

(* For any number of goals, late, rejected, timed out, cancelled or never  *)
(* answered, a caller of drive_to sees one motion at a time, and is told   *)
(* the truth about a robot that stands still (_run, _cancel, drive_to).    *)
THEOREM DriveToIsSingleMotion == Spec => DrivesOneAtATime
<1>1. Init => Motion!Init
  BY DEF Init, ServerInit, Motion!Init, Robot, Mine, Goals
<1>2. IInv /\ RobotShowsMine /\ IInv' /\ RobotShowsMine' /\ [Next]_vars =>
        [Motion!Next]_<<IF pc \in {"free", "ended"} THEN pc ELSE "waiting", Robot(Mine), reached>>
  <2>1. UNCHANGED vars =>
          UNCHANGED <<IF pc \in {"free", "ended"} THEN pc ELSE "waiting", Robot(Mine), reached>>
    BY DEF vars, client, server, Robot, Mine
  <2> QED
    BY <2>1, DriveAsks, ClientAnswers, ServerMoves DEF Next, Motion!Next
<1> QED
  BY <1>1, <1>2, RobotIsMine, DrivesKeepIInv, PTL DEF Spec, DrivesOneAtATime, Motion!Spec

(***************************************************************************)
(* Parking for a grasp.                                                    *)
(***************************************************************************)
Request == [v : Values, awaited : BOOLEAN]
Waiting == {"tightening", "restoring"}

(* Nobody waits for any request of s. *)
Unwatched(s) == \A k \in DOMAIN s : ~s[k].awaited

(* Exactly the last request is waited for; it asks for v. *)
LastAsks(v) ==
    /\ requests # <<>> /\ answer = "none"
    /\ requests[Len(requests)] = [v |-> v, awaited |-> TRUE]
    /\ \A k \in DOMAIN requests : requests[k].awaited => k = Len(requests)

(* What a wait may find: the answer is still to come, and then after all   *)
(* that was asked before; or it is there, with nothing left to carry out.  *)
Asked(v) ==
    \/ LastAsks(v)
    \/ requests = <<>> /\ answer = "set" /\ tol = All(v)
    \/ requests = <<>> /\ answer = "rejected"

Normal == tol = All("normal") /\ requests = <<>>

RequestTypes == requests \in Seq(Request) /\ tol \in [Params -> Values]
WaitsForOwn ==
    /\ at = "tightening" => Asked("tight")
    /\ at = "restoring" => Asked("normal")
    /\ at \notin Waiting => Unwatched(requests)
NormalAfterDrive == at \in {"measure", "aim"} => Normal
NormalBetween ==
    at \in {"solve", "option", "tighten", "ready", "not_graspable"} /\ tightened => Normal

(* The inductive invariant. *)
ParkingInv == RequestTypes /\ WaitsForOwn /\ DriveIsPrecise /\ NormalAfterDrive /\ NormalBetween

(***************************************************************************)
(* The queue of requests.                                                  *)
(***************************************************************************)
(* A request that is sent when nobody waits for another is the last, and   *)
(* the only one that is waited for (nav2_client.py set_goal_tolerance).    *)
LEMMA SentIsAsked ==
    ASSUME NEW v \in Values, RequestTypes, Unwatched(requests), Ask(v)
    PROVE  RequestTypes' /\ Asked(v)'
<1> DEFINE r == [v |-> v, awaited |-> TRUE]
<1>1. r \in Request
  BY DEF Request
<1>2. requests' = Append(requests, r) /\ answer' = "none" /\ tol' = tol
  BY DEF Ask
<1>3. RequestTypes'
  BY <1>1, <1>2 DEF RequestTypes
<1>4. Len(requests') = Len(requests) + 1 /\ requests' # <<>> /\ requests'[Len(requests')] = r
  BY <1>1, <1>2 DEF RequestTypes
<1>5. \A k \in DOMAIN requests' : requests'[k].awaited => k = Len(requests')
  <2> SUFFICES ASSUME NEW k \in DOMAIN requests', k # Len(requests') PROVE ~requests'[k].awaited
    OBVIOUS
  <2>1. k \in DOMAIN requests /\ requests'[k] = requests[k]
    BY <1>1, <1>2, <1>4 DEF RequestTypes
  <2> QED
    BY <2>1 DEF Unwatched
<1> QED
  BY <1>2, <1>3, <1>4, <1>5 DEF Asked, LastAsks

(* A caller that gives up leaves its requests in the queue, unwatched.     *)
LEMMA AbandonedIsUnwatched ==
    ASSUME RequestTypes, tol' = tol,
           requests' = [k \in DOMAIN requests |-> [requests[k] EXCEPT !.awaited = FALSE]]
    PROVE  RequestTypes' /\ Unwatched(requests')
<1>1. \A k \in DOMAIN requests : requests[k] \in Request
  BY DEF RequestTypes
<1>2. \A k \in DOMAIN requests : requests'[k] \in Request /\ ~requests'[k].awaited
  BY <1>1 DEF Request
<1>3. DOMAIN requests' = 1..Len(requests) /\ Len(requests) \in Nat /\ DOMAIN requests = 1..Len(requests)
  BY DEF RequestTypes
<1>4. requests' \in Seq(Request)
  <2>1. requests' \in [1..Len(requests) -> Request]
    BY <1>2, <1>3
  <2> QED
    BY <2>1, <1>3
<1> QED
  BY <1>2, <1>3, <1>4 DEF RequestTypes, Unwatched

(* The controller takes the requests in turn, so that the one waited for   *)
(* comes into effect after all that earlier calls left.                    *)
LEMMA ApplyTakesFirst ==
    ASSUME RequestTypes, Apply
    PROVE  /\ RequestTypes'
           /\ requests' = Tail(requests) /\ requests # <<>>
           /\ \A k \in DOMAIN requests' : k + 1 \in DOMAIN requests /\ requests'[k] = requests[k + 1]
           /\ Len(requests') = Len(requests) - 1
<1>1. requests \in Seq(Request) /\ requests # <<>> /\ requests' = Tail(requests)
  BY DEF RequestTypes, Apply
<1>2. Head(requests) \in Request
  BY <1>1
<1>3. tol' \in [Params -> Values]
  BY <1>2 DEF RequestTypes, Apply, Wanted, Request
<1> QED
  BY <1>1, <1>3 DEF RequestTypes

(* What nobody waits for is not waited for later. *)
LEMMA ApplyKeepsUnwatched ==
    ASSUME RequestTypes, Apply, Unwatched(requests)
    PROVE  Unwatched(requests')
BY ApplyTakesFirst DEF Unwatched

(* The request waited for is answered last, and then in effect or refused. *)
LEMMA ApplyKeepsAsked ==
    ASSUME NEW v \in Values, RequestTypes, Apply, Asked(v)
    PROVE  Asked(v)'
<1>1. LastAsks(v)
  BY DEF Asked, Apply
<1>2. requests \in Seq(Request) /\ requests # <<>>
  BY DEF RequestTypes, Apply
<1>3. CASE Len(requests) = 1
  <2>1. Head(requests) = [v |-> v, awaited |-> TRUE]
    BY <1>1, <1>2, <1>3 DEF LastAsks
  <2>2. requests' = <<>>
    BY <1>3, ApplyTakesFirst DEF RequestTypes
  <2>3. PICK accepted \in SUBSET Params :
            /\ tol' = Wanted(accepted, v)
            /\ answer' = IF accepted = Params THEN "set" ELSE "rejected"
    BY <2>1 DEF Apply
  <2>4. CASE accepted = Params
    BY <2>2, <2>3, <2>4 DEF Asked, Wanted, All
  <2>5. CASE accepted # Params
    BY <2>2, <2>3, <2>5 DEF Asked
  <2> QED
    BY <2>4, <2>5
<1>4. CASE Len(requests) # 1
  <2>1. Len(requests) \in Nat /\ Len(requests) > 1 /\ DOMAIN requests = 1..Len(requests)
    <3>1. Len(requests) \in Nat /\ DOMAIN requests = 1..Len(requests)
      BY <1>2
    <3>2. Len(requests) # 0
      BY <1>2
    <3> QED
      BY <1>4, <3>1, <3>2
  <2>2. ~Head(requests).awaited
    BY <1>1, <1>2, <2>1 DEF LastAsks
  <2>3. answer' = "none"
    BY <1>1, <2>2 DEF Apply, LastAsks
  <2>4. requests' \in Seq(Request) /\ Len(requests') = Len(requests) - 1
    BY ApplyTakesFirst DEF RequestTypes
  <2>5. requests' # <<>> /\ DOMAIN requests' = 1..(Len(requests) - 1)
    BY <2>1, <2>4
  <2>6. requests'[Len(requests')] = [v |-> v, awaited |-> TRUE]
    BY <1>1, <2>1, <2>4, <2>5, ApplyTakesFirst DEF LastAsks
  <2>7. \A k \in DOMAIN requests' : requests'[k].awaited => k = Len(requests')
    BY <1>1, <2>1, <2>4, <2>5, ApplyTakesFirst DEF LastAsks
  <2> QED
    BY <2>3, <2>5, <2>6, <2>7 DEF Asked, LastAsks
<1> QED
  BY <1>3, <1>4

(***************************************************************************)
(* The steps.                                                              *)
(***************************************************************************)
(* ParkingInv holds before the first call: Nav2 starts with its own tolerances.  *)
LEMMA ParkingStarts == ParkingInit => ParkingInv
BY DEF ParkingInit, ParkingInv, RequestTypes, WaitsForOwn, Unwatched, Waiting, DriveIsPrecise,
       NormalAfterDrive, NormalBetween, All, Values, Params

(* What the controller carries out meets only calls that wait for it, or   *)
(* that stand outside a drive and have not tightened.                      *)
LEMMA ControllerKeeps == ParkingInv /\ Apply => ParkingInv'
<1> SUFFICES ASSUME ParkingInv, Apply PROVE ParkingInv'
  OBVIOUS
<1>1. RequestTypes /\ RequestTypes' /\ requests # <<>> /\ at' = at /\ tightened' = tightened
  BY ApplyTakesFirst DEF ParkingInv, Apply
<1>2. at = "tightening" => Asked("tight")'
  BY <1>1, ApplyKeepsAsked DEF ParkingInv, WaitsForOwn, Values
<1>3. at = "restoring" => Asked("normal")'
  BY <1>1, ApplyKeepsAsked DEF ParkingInv, WaitsForOwn, Values
<1>4. at \notin Waiting => Unwatched(requests')
  BY <1>1, ApplyKeepsUnwatched DEF ParkingInv, WaitsForOwn
<1>5. WaitsForOwn'
  BY <1>1, <1>2, <1>3, <1>4 DEF WaitsForOwn
<1>6. at # "drive" /\ at \notin {"measure", "aim"}
      /\ ~(at \in {"solve", "option", "tighten", "ready", "not_graspable"} /\ tightened)
  BY <1>1 DEF ParkingInv, DriveIsPrecise, NormalAfterDrive, NormalBetween, Normal
<1>7. DriveIsPrecise' /\ NormalAfterDrive' /\ NormalBetween'
  BY <1>1, <1>6 DEF DriveIsPrecise, NormalAfterDrive, NormalBetween
<1> QED
  BY <1>1, <1>5, <1>7 DEF ParkingInv

(* The steps that leave the controller alone: none of them leads into a    *)
(* place that promises tolerances from one that does not.                  *)
Quiet ==
    \/ MakeGraspable \/ Solve \/ Reachable \/ NoneLeft \/ DriveThere \/ Measure \/ Aim \/ DriveAway
    \/ UNCHANGED parking
LEMMA QuietKeeps == ParkingInv /\ Quiet => ParkingInv'
<1> SUFFICES ASSUME ParkingInv, Quiet PROVE ParkingInv'
  OBVIOUS
<1> USE DEF params, choice, Raise
<1>1. UNCHANGED params /\ ((at \notin Waiting /\ at' \notin Waiting) \/ UNCHANGED parking)
  BY DEF Quiet, MakeGraspable, Solve, Reachable, NoneLeft, DriveThere, Measure, Aim, DriveAway,
         Returned, Waiting, parking
<1>2. RequestTypes' /\ WaitsForOwn'
  <2>1. RequestTypes'
    BY <1>1 DEF ParkingInv, RequestTypes
  <2>2. WaitsForOwn'
    BY <1>1 DEF ParkingInv, WaitsForOwn, Unwatched, Waiting, Asked, LastAsks, parking
  <2> QED
    BY <2>1, <2>2
<1>3. at' = "drive" => at = "drive"
  BY DEF Quiet, MakeGraspable, Solve, Reachable, NoneLeft, DriveThere, Measure, Aim, DriveAway, Returned, parking
<1>4. at' \in {"measure", "aim"} => at \in {"measure", "aim"}
  BY DEF Quiet, MakeGraspable, Solve, Reachable, NoneLeft, DriveThere, Measure, Aim, DriveAway, Returned, parking
<1>5. at' \in {"solve", "option", "tighten", "ready", "not_graspable"} /\ tightened' =>
        \/ at \in {"solve", "option", "tighten", "ready", "not_graspable"} /\ tightened
        \/ at \in {"measure", "aim"}
  BY DEF Quiet, MakeGraspable, Solve, Reachable, NoneLeft, DriveThere, Measure, Aim, DriveAway, Returned, parking
<1>6. DriveIsPrecise' /\ NormalAfterDrive' /\ NormalBetween'
  BY <1>1, <1>3, <1>4, <1>5 DEF ParkingInv, DriveIsPrecise, NormalAfterDrive, NormalBetween, Normal
<1> QED
  BY <1>2, <1>6 DEF ParkingInv

(* A request is sent only when no other is waited for, or the call ends.   *)
LEMMA RequestsKeep == ParkingInv /\ (Tighten \/ Restore) => ParkingInv'
<1> SUFFICES ASSUME ParkingInv, Tighten \/ Restore PROVE ParkingInv'
  OBVIOUS
<1> USE DEF params, choice, Raise
<1>1. RequestTypes /\ Unwatched(requests)
  BY DEF ParkingInv, WaitsForOwn, Waiting, Tighten, Restore
<1>2. CASE Tighten /\ Ask("tight") /\ at' = "tightening"
  <2>1. RequestTypes' /\ Asked("tight")'
    BY <1>1, <1>2, SentIsAsked DEF Values
  <2> QED
    BY <1>2, <2>1 DEF ParkingInv, WaitsForOwn, Waiting, DriveIsPrecise, NormalAfterDrive, NormalBetween
<1>3. CASE Restore /\ Ask("normal") /\ at' = "restoring"
  <2>1. RequestTypes' /\ Asked("normal")'
    BY <1>1, <1>3, SentIsAsked DEF Values
  <2> QED
    BY <1>3, <2>1 DEF ParkingInv, WaitsForOwn, Waiting, DriveIsPrecise, NormalAfterDrive, NormalBetween
<1>4. CASE UNCHANGED params /\ at' = "raised"
  BY <1>1, <1>4 DEF ParkingInv, RequestTypes, Unwatched, WaitsForOwn, Waiting, DriveIsPrecise,
                    NormalAfterDrive, NormalBetween
<1> QED
  BY <1>2, <1>3, <1>4 DEF Tighten, Restore

(* A wait goes on with what it asked for in effect, or the call ends with  *)
(* its requests unwatched.                                                 *)
LEMMA AnswersKeep == ParkingInv /\ (Tightened \/ Restored) => ParkingInv'
<1> SUFFICES ASSUME ParkingInv, Tightened \/ Restored PROVE ParkingInv'
  OBVIOUS
<1> USE DEF params, choice, Raise
<1>1. CASE Tightened /\ IsSet /\ UNCHANGED params /\ at' = "drive"
  <2>1. requests = <<>> /\ tol = All("tight")
    BY <1>1 DEF ParkingInv, WaitsForOwn, Tightened, Asked, LastAsks, IsSet
  <2> QED
    BY <1>1, <2>1 DEF ParkingInv, RequestTypes, Unwatched, WaitsForOwn, Waiting, DriveIsPrecise,
                      NormalAfterDrive, NormalBetween
<1>2. CASE Restored /\ IsSet /\ UNCHANGED params /\ at' = "measure"
  <2>1. requests = <<>> /\ tol = All("normal")
    BY <1>2 DEF ParkingInv, WaitsForOwn, Restored, Asked, LastAsks, IsSet
  <2> QED
    BY <1>2, <2>1 DEF ParkingInv, RequestTypes, Unwatched, WaitsForOwn, Waiting, DriveIsPrecise,
                      NormalAfterDrive, NormalBetween, Normal
<1>3. CASE UNCHANGED params /\ (IsSet \/ IsRejected) /\ at' = "raised"
  <2>1. requests = <<>>
    BY <1>3 DEF ParkingInv, WaitsForOwn, Tightened, Restored, Asked, LastAsks, IsSet, IsRejected
  <2> QED
    BY <1>3, <2>1 DEF ParkingInv, RequestTypes, Unwatched, WaitsForOwn, Waiting, DriveIsPrecise,
                      NormalAfterDrive, NormalBetween
<1>4. CASE Abandon /\ at' = "raised"
  <2>1. RequestTypes' /\ Unwatched(requests')
    BY <1>4, AbandonedIsUnwatched DEF ParkingInv, Abandon
  <2> QED
    BY <1>4, <2>1 DEF ParkingInv, WaitsForOwn, Waiting, DriveIsPrecise, NormalAfterDrive, NormalBetween
<1> QED
  BY <1>1, <1>2, <1>3, <1>4 DEF Tightened, Restored

(* Ctrl+C ends the call, but for a drive, after which it restores.         *)
LEMMA InterruptKeeps == ParkingInv /\ Interrupt => ParkingInv'
<1> SUFFICES ASSUME ParkingInv, Interrupt PROVE ParkingInv'
  OBVIOUS
<1> USE DEF params, choice, Raise
<1>1. CASE at = "drive"
  BY <1>1 DEF Interrupt, ParkingInv, RequestTypes, Unwatched, WaitsForOwn, Waiting, DriveIsPrecise,
              NormalAfterDrive, NormalBetween
<1>2. CASE at # "drive"
  <2>1. RequestTypes' /\ Unwatched(requests') /\ at' = "raised"
    BY <1>2, AbandonedIsUnwatched DEF ParkingInv, Interrupt
  <2> QED
    BY <2>1 DEF ParkingInv, WaitsForOwn, Waiting, DriveIsPrecise, NormalAfterDrive, NormalBetween
<1> QED
  BY <1>1, <1>2

(* ParkingInv holds of every state of every sequence of calls.                   *)
LEMMA CallsKeepParkingInv == ParkingSpec => []ParkingInv
<1>1. ParkingInv /\ [ParkingNext]_parking => ParkingInv'
  BY ControllerKeeps, QuietKeeps, RequestsKeep, AnswersKeep, InterruptKeeps DEF ParkingNext, Step, Quiet
<1> QED
  BY ParkingStarts, <1>1, PTL DEF ParkingSpec

(* No precise drive under tolerances that are not all tight, whatever      *)
(* requests earlier calls, also interrupted ones, left with the controller *)
(* (nav2_client.py set_goal_tolerance, graspable.py _approach).            *)
THEOREM PreciseDrives == ParkingSpec => []DriveIsPrecise
<1>1. ParkingInv => DriveIsPrecise
  BY DEF ParkingInv
<1> QED
  BY <1>1, CallsKeepParkingInv, PTL

(* A call that returns leaves Nav2's own tolerances, and nothing under way *)
(* that would tighten them again (graspable.py _approach).                 *)
THEOREM NormalAfterReturn == ParkingSpec => []NormalOnReturn
<1>1. ParkingInv => NormalOnReturn
  BY DEF ParkingInv, NormalBetween, Normal, NormalOnReturn
<1> QED
  BY <1>1, CallsKeepParkingInv, PTL

(***************************************************************************)
(* Where READY leaves the base.                                            *)
(***************************************************************************)
Tried == {"tighten", "tightening", "drive", "restore", "restoring", "measure", "aim"}

(* Only poses clear of furniture are tried. *)
ClearBases == bases \in Seq(Base) /\ \A k \in DOMAIN bases : ~bases[k].blocked

(* The pose at hand is one of them, and tightened for before it is driven  *)
(* to; past the measurement it is where the base stands.                   *)
AtAPose ==
    /\ i \in Nat /\ (at = "option" => i >= 1)
    /\ at \in Tried \cup {"ready"} => i <= Len(bases) /\ i >= 1
    /\ at \in (Tried \ {"tighten"}) \cup {"ready"} => tightened
    /\ at \in {"aim", "ready"} => parked = i
PlaceInv == ClearBases /\ AtAPose

(* What rank keeps is a sequence of clear poses (graspable.rank).          *)
LEMMA OfferedIsClear ==
    ASSUME NEW n \in Nat, NEW found \in [1..n -> Base], NEW s \in Offered(found)
    PROVE  s \in Seq(Base) /\ \A k \in DOMAIN s : ~s[k].blocked
<1> DEFINE clear == {k \in DOMAIN found : ~found[k].blocked}
<1>1. PICK order \in InOrder(clear) : s = [k \in DOMAIN order |-> found[order[k]]]
  BY DEF Offered
<1>2. Cardinality(clear) \in Nat
  <2>1. IsFiniteSet(1..n) /\ clear \subseteq 1..n
    BY FS_Interval
  <2> QED
    BY <2>1, FS_Subset, FS_CardinalityType
<1>3. order \in [1..Cardinality(clear) -> clear]
  BY <1>1 DEF InOrder
<1> HIDE DEF clear
<1>4. s \in [1..Cardinality(clear) -> Base] /\ \A k \in 1..Cardinality(clear) : ~s[k].blocked
  <2>1. \A k \in 1..Cardinality(clear) : order[k] \in clear
    BY <1>3
  <2>2. \A k \in clear : found[k] \in Base /\ ~found[k].blocked
    BY DEF clear
  <2> QED
    BY <1>1, <1>3, <2>1, <2>2
<1> QED
  BY <1>2, <1>4

(* Every attempt begins with the poses that rank offers, every try with    *)
(* one of them, and only the measurement leads on from a drive.            *)
LEMMA PlaceKeeps == PlaceInv /\ [ParkingNext]_parking => PlaceInv'
<1> SUFFICES ASSUME PlaceInv, [ParkingNext]_parking PROVE PlaceInv'
  OBVIOUS
<1> USE DEF PlaceInv, AtAPose, Tried, params, choice, Raise
<1>1. CASE Solve
  <2>1. CASE \E n \in 0..MaxBases : \E found \in [1..n -> Base] : bases' \in Offered(found)
    BY <1>1, <2>1, OfferedIsClear DEF Solve, ClearBases
  <2>2. CASE UNCHANGED bases
    BY <1>1, <2>2 DEF Solve, ClearBases
  <2> QED
    BY <1>1, <2>1, <2>2 DEF Solve
<1>2. CASE MakeGraspable
  <2>1. bases' = <<>> /\ i' = 0 /\ at' = "solve"
    BY <1>2 DEF MakeGraspable
  <2> QED
    BY <2>1 DEF ClearBases
<1>3. CASE Apply \/ DriveAway \/ UNCHANGED parking
  BY <1>3 DEF Apply, DriveAway, parking, ClearBases, Returned
<1>4. CASE Reachable \/ NoneLeft \/ Measure \/ Aim
  <2>1. UNCHANGED bases /\ ClearBases'
    BY <1>4 DEF Reachable, NoneLeft, Measure, Aim, ClearBases
  <2>2. Len(bases) \in Nat
    BY DEF ClearBases
  <2> QED
    BY <1>4, <2>1, <2>2 DEF Reachable, NoneLeft, Measure, WithinLimits, Aim
<1>5. CASE Tighten \/ Tightened \/ DriveThere \/ Restore \/ Restored \/ Interrupt
  <2>1. UNCHANGED <<bases, i>> /\ ClearBases'
    BY <1>5 DEF Tighten, Tightened, DriveThere, Restore, Restored, Interrupt, ClearBases
  <2> QED
    BY <1>5, <2>1 DEF Tighten, Tightened, DriveThere, Restore, Restored, Interrupt, Returned
<1> QED
  BY <1>1, <1>2, <1>3, <1>4, <1>5 DEF ParkingNext, Step

(* READY only while the base stands within the limits of the pose tried    *)
(* last, which is clear of furniture, under Nav2's own tolerances          *)
(* (actions.make_graspable).                                               *)
THEOREM ReadyIsParked == ParkingSpec => []ReadyMeansParked
<1>1. ParkingInit => PlaceInv
  BY DEF ParkingInit, PlaceInv, ClearBases, AtAPose, Tried
<1>2. ParkingInv /\ PlaceInv => ReadyMeansParked
  BY DEF ParkingInv, NormalBetween, Normal, PlaceInv, ClearBases, AtAPose, Tried, ReadyMeansParked
<1> QED
  BY <1>1, <1>2, PlaceKeeps, CallsKeepParkingInv, PTL DEF ParkingSpec

(***************************************************************************)
(* Both together.                                                          *)
(***************************************************************************)
(* A step of Approach is a step of drive_to or none, and one of            *)
(* make_graspable or none.                                                 *)
LEMMA StepOfEach == [ApproachNext]_approach => [Next]_vars /\ [ParkingNext]_parking
<1> SUFFICES ASSUME [ApproachNext]_approach PROVE [Next]_vars /\ [ParkingNext]_parking
  OBVIOUS
<1>1. CASE Nav2Step
  BY <1>1 DEF Nav2Step, Next, ParkingNext
<1>2. CASE DriveForGrasp \/ DriveElsewhere
  BY <1>2 DEF DriveForGrasp, DriveElsewhere, Next, ParkingNext
<1>3. CASE Driven
  BY <1>3 DEF Driven, ParkingNext, Step
<1>4. CASE DriveGoesOn
  BY <1>4 DEF DriveGoesOn, Next
<1>5. CASE ParkingGoesOn
  BY <1>5 DEF ParkingGoesOn, ParkingNext, Step
<1>6. CASE UNCHANGED approach
  BY <1>6 DEF approach
<1> QED
  BY <1>1, <1>2, <1>3, <1>4, <1>5, <1>6 DEF ApproachNext

(* What was shown of drive_to and of make_graspable, each alone with any   *)
(* surroundings, holds where one Navigator serves both.                    *)
THEOREM EachGoesOnAlone == ApproachSpec => Init /\ [][Next]_vars /\ ParkingSpec
<1>1. ApproachInit => Init /\ ParkingInit
  BY DEF ApproachInit
<1> QED
  BY <1>1, StepOfEach, PTL DEF ApproachSpec, ParkingSpec

(* Where make_graspable is while a call of drive_to is on, and after one   *)
(* that raised.                                                            *)
CallsAreWithin ==
  /\ forGrasp => at = "drive"
  /\ pc \in Calling => forGrasp \/ at = "idle"
  /\ pc = "ended" => \/ forGrasp \/ at \in {"idle", "raised"}
                     \/ at \in {"restore", "restoring"} /\ failing

LEMMA WithinIsKept == TypeOK /\ CallsAreWithin /\ [ApproachNext]_approach => CallsAreWithin'
<1> SUFFICES ASSUME TypeOK, CallsAreWithin, [ApproachNext]_approach PROVE CallsAreWithin'
  OBVIOUS
<1> USE DEF CallsAreWithin, Calling
<1>1. CASE Nav2Step
  BY <1>1 DEF Nav2Step, Apply, vars, client, parking
<1>2. CASE DriveForGrasp
  BY <1>2 DEF DriveForGrasp, parking
<1>3. CASE Driven
  BY <1>3 DEF Driven, DriveThere, vars, client
<1>4. CASE DriveElsewhere
  BY <1>4 DEF DriveElsewhere, DriveAway, Drive, Returned
<1>5. CASE DriveGoesOn
  <2>1. pc \in Calling
    BY <1>5 DEF DriveGoesOn, ClientStep, Acknowledged, NotAcknowledged, LateAcknowledged,
           LeftUnanswered, InterruptedEarly, Result, GiveUp, Confirmed, Unconfirmed, At
  <2> QED
    BY <1>5, <2>1 DEF DriveGoesOn, parking
<1>6. CASE ParkingGoesOn
  <2>1. ~forGrasp /\ ~forGrasp' /\ pc' = pc /\ pc \in {"free", "ended"}
    BY <1>6 DEF ParkingGoesOn, vars, client, TypeOK
  <2>2. CASE MakeGraspable /\ pc = "free"
    BY <2>1, <2>2
  <2>3. CASE Solve \/ Reachable \/ NoneLeft \/ Tighten \/ Tightened \/ Measure \/ Aim
    BY <2>1, <2>3 DEF Solve, Reachable, NoneLeft, Tighten, Tightened, Measure, Aim
  <2>4. CASE Restore \/ Restored
    BY <2>1, <2>4 DEF Restore, Restored, Raise
  <2>5. CASE Interrupt
    BY <2>1, <2>5 DEF Interrupt, Raise
  <2> QED
    BY <1>6, <2>2, <2>3, <2>4, <2>5 DEF ParkingGoesOn
<1>7. CASE UNCHANGED approach
  BY <1>7 DEF approach, vars, client, parking
<1> QED
  BY <1>1, <1>2, <1>3, <1>4, <1>5, <1>6, <1>7 DEF ApproachNext

(* READY is said only while no goal moves the base or still may, however   *)
(* many drives the mission made and however each of them ended             *)
(* (actions.make_graspable over nav2_client.drive_to).                     *)
THEOREM ReadyHasStopped == ApproachSpec => []ReadyStandsStill
<1>1. ApproachInit => IInv /\ CallsAreWithin
  BY InitHolds DEF ApproachInit, CallsAreWithin, Calling, Init, ParkingInit
<1>2. IInv /\ CallsAreWithin /\ [ApproachNext]_approach => IInv' /\ CallsAreWithin'
  BY StepOfEach, StepKeeps, WithinIsKept DEF IInv
<1>3. IInv /\ CallsAreWithin => ReadyStandsStill
  BY DEF IInv, TypeOK, OnlyMine, CallsAreWithin, Calling, ReadyStandsStill
<1> QED
  BY <1>1, <1>2, <1>3, PTL DEF ApproachSpec
=============================================================================
