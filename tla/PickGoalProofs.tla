--------------------------- MODULE PickGoalProofs ---------------------------
(***************************************************************************)
(* Proofs about PickGoal, for any number of goals and of attempts, over a  *)
(* link that loses and delays requests and answers: a goal that is left    *)
(* behind was cancelled or never heard of, and but for what the code       *)
(* cannot know run_action implements SingleMotion.                         *)
(***************************************************************************)
EXTENDS PickGoal, TLAPS

(* A call sends its goal first, and goals in their order. *)
SentInOrder ==
  /\ \A g \in Goals : g > sent => goal[g] = "unsent"
  /\ pc \in Calling => sent \in Goals

(* The attempts that are left have goals left: only the bound says so. *)
RoomToResend == pc = "sent" => sent + (MaxTries - tries) <= MaxGoals

(* What a wait for the result may find. *)
WaitsForMine ==
  /\ pc \in {"waiting", "stopping"} => goal[Mine] \in Accepted
  /\ pc = "stopping" => Mine \in cancelled

(* Until a call has raised only its own goal is cancelled, and then it raises. *)
CancelledLast ==
  ~after => /\ cancelled \subseteq {Mine}
            /\ pc \in {"free", "sent", "waiting"} => cancelled = {}

(* The inductive invariant. *)
IInv ==
  /\ TypeOK /\ SentInOrder /\ RoomToResend /\ WaitsForMine /\ CancelledLast /\ NothingUntracked

(* What of TypeOK the steps of the goals need. *)
GoalTypes ==
  /\ sent \in 0..MaxGoals /\ tries \in 0..MaxTries
  /\ goal \in [Goals -> Answered \cup {"unsent", "travelling", "lost"}]

(* TypeOK says as much. *)
LEMMA TypeOfGoals == IInv => GoalTypes
BY DEF IInv, TypeOK, ServerTypeOK, GoalTypes

(* How many goals were sent is a number. *)
LEMMA CountIsNat == \A s \in 0..MaxGoals : s \in Nat
BY GoalsAssumption DEF GoalsAssumption

(* The next goal is one of the bound's, and comes after the last.          *)
LEMMA NextIsGoal ==
  ASSUME NEW s \in Nat, NEW t \in 1..MaxTries, s + 1 + (MaxTries - t) <= MaxGoals
  PROVE  /\ s + 1 \in Goals /\ s + 1 \in 0..MaxGoals /\ t \in 0..MaxTries
         /\ \A g \in Goals : g > s + 1 => g > s /\ g # s + 1
BY GoalsAssumption, PickAssumption DEF GoalsAssumption, PickAssumption, Goals

(* There is room for a call's first goal, where there is for all of them.  *)
LEMMA FirstHasRoom ==
  ASSUME IInv, sent + MaxTries <= MaxGoals
  PROVE  1 \in 1..MaxTries /\ sent + 1 + (MaxTries - 1) <= MaxGoals
BY TypeOfGoals, PickAssumption, GoalsAssumption DEF GoalTypes, PickAssumption, GoalsAssumption

(* And for the next where the tries are not used up. *)
LEMMA NextHasRoom ==
  ASSUME IInv, pc = "sent", tries < MaxTries
  PROVE  tries + 1 \in 1..MaxTries /\ sent + 1 + (MaxTries - (tries + 1)) <= MaxGoals
<1>1. tries < MaxTries /\ sent + (MaxTries - tries) <= MaxGoals
  BY DEF IInv, RoomToResend
<1>2. tries \in Nat /\ sent \in Nat /\ MaxTries \in Nat /\ MaxGoals \in Nat
  BY TypeOfGoals, PickAssumption, GoalsAssumption DEF GoalTypes, PickAssumption, GoalsAssumption
<1> QED
  BY <1>1, <1>2

(* Nothing was sent yet. *)
LEMMA InitHolds == Init => IInv
<1> SUFFICES ASSUME Init PROVE IInv
  OBVIOUS
<1> USE DEF Init, ServerInit
<1>1. TypeOK
  <2>1. sent \in 0..MaxGoals /\ tries \in 0..MaxTries
    BY GoalsAssumption, PickAssumption DEF GoalsAssumption, PickAssumption
  <2>2. ServerTypeOK
    BY DEF ServerTypeOK
  <2> QED
    BY <2>1, <2>2 DEF TypeOK
<1>2. \A g \in Goals : ~MayMove(g)
  BY DEF MayMove
<1> QED
  BY <1>1, <1>2 DEF IInv, SentInOrder, RoomToResend, WaitsForMine, CancelledLast,
                    NothingUntracked, Calling

(* Sending the next goal: one that is left behind has been cancelled, or   *)
(* its answer was not heard, or it has ended.                              *)
LEMMA SendingKeeps ==
  ASSUME IInv, NEW try \in 1..MaxTries, SendAnother(try),
         sent + 1 + (MaxTries - try) <= MaxGoals,
         unheard' \subseteq Goals, after' \in BOOLEAN, heard' = heard, after => after',
         ~after' => cancelled = {},
         \A g \in Goals : MayMove(g) => g \in cancelled \cup unheard'
  PROVE  IInv' /\ sent' \in Goals /\ goal'[sent'] = "travelling" /\ Mine' \notin {Mine}
<1>1. GoalTypes
  BY TypeOfGoals
<1>2. sent' = sent + 1 /\ tries' = try /\ pc' = "sent"
  BY DEF SendAnother
<1>3. /\ sent' \in Goals /\ sent' \in 0..MaxGoals /\ tries' \in 0..MaxTries
      /\ \A g \in Goals : g > sent' => g > sent /\ g # sent'
      /\ sent' # sent
  <2>1. sent \in 0..MaxGoals
    BY <1>1 DEF GoalTypes
  <2>2. sent \in Nat
    BY <2>1, CountIsNat
  <2> QED
    BY <1>2, <2>2, NextIsGoal
<1>4. goal' = [goal EXCEPT ![sent'] = "travelling"] /\ cancelled' = cancelled
  BY <1>2 DEF SendAnother, Send
<1>5. goal'[sent'] = "travelling" /\ \A g \in Goals : g # sent' => goal'[g] = goal[g]
  BY <1>1, <1>3, <1>4 DEF GoalTypes
<1>6. TypeOK'
  <2>1. goal' \in [Goals -> Answered \cup {"unsent", "travelling", "lost"}]
    BY <1>1, <1>4 DEF GoalTypes
  <2> QED
    BY <1>2, <1>3, <1>4, <2>1 DEF IInv, TypeOK, ServerTypeOK, Calling
<1>7. SentInOrder'
  BY <1>3, <1>5 DEF IInv, SentInOrder
<1>8. RoomToResend'
  BY <1>1, <1>2 DEF GoalTypes, RoomToResend
<1>9. CancelledLast'
  BY <1>4 DEF CancelledLast
<1>10. NothingUntracked'
  BY <1>2, <1>4, <1>5 DEF NothingUntracked, OfTheCall, MayMove, Mine, Calling
<1> QED
  BY <1>2, <1>3, <1>5, <1>6, <1>7, <1>8, <1>9, <1>10 DEF IInv, WaitsForMine, Mine

(* A new call, or its failing to find the server.                          *)
LEMMA CallKeeps ==
  IInv /\ Call => IInv' /\ (pc' = "sent" => sent' \in Goals /\ goal'[sent'] = "travelling")
<1> SUFFICES ASSUME IInv, Call
             PROVE  IInv' /\ (pc' = "sent" => sent' \in Goals /\ goal'[sent'] = "travelling")
  OBVIOUS
<1>1. pc = "free" /\ unheard' = unheard
  BY DEF Call
<1>2. CASE sent + MaxTries <= MaxGoals /\ SendAnother(1) /\ UNCHANGED <<after, heard>>
  <2>1. \A g \in Goals : MayMove(g) => g \in cancelled \cup unheard'
    BY <1>1 DEF IInv, NothingUntracked, OfTheCall, Calling
  <2>2. unheard' \subseteq Goals /\ after' \in BOOLEAN /\ (~after' => cancelled = {})
    BY <1>1, <1>2 DEF IInv, TypeOK, CancelledLast
  <2> QED
    BY <1>2, <2>1, <2>2, FirstHasRoom, SendingKeeps
<1>3. CASE Raise /\ UNCHANGED <<heard, server>>
  BY <1>1, <1>3 DEF Raise, server, IInv, TypeOK, ServerTypeOK, SentInOrder, Calling, RoomToResend,
                    WaitsForMine, CancelledLast, NothingUntracked, MayMove, OfTheCall, Mine
<1> QED
  BY <1>2, <1>3 DEF Call

(* What the process goes on with after a call has raised.                  *)
LEMMA GoesOnKeeps == IInv /\ GoesOn => IInv' /\ sent' \in Goals /\ goal'[sent'] = "travelling"
<1> SUFFICES ASSUME IInv, GoesOn PROVE IInv' /\ sent' \in Goals /\ goal'[sent'] = "travelling"
  OBVIOUS
<1>1. /\ pc = "raised" /\ unheard' = unheard /\ after' = TRUE /\ heard' = heard
      /\ SendAnother(1) /\ sent + MaxTries <= MaxGoals
  BY DEF GoesOn
<1>2. \A g \in Goals : MayMove(g) => g \in cancelled \cup unheard'
  BY <1>1 DEF IInv, NothingUntracked, OfTheCall, Calling
<1>3. unheard' \subseteq Goals
  BY <1>1 DEF IInv, TypeOK
<1> QED
  BY <1>1, <1>2, <1>3, FirstHasRoom, SendingKeeps

(* A goal that is sent again leaves one behind whose answer was not heard. *)
LEMMA ResendKeeps ==
  IInv /\ Resend => IInv' /\ sent' \in Goals /\ goal'[sent'] = "travelling" /\ Mine \in unheard'
<1> SUFFICES ASSUME IInv, Resend
             PROVE  IInv' /\ sent' \in Goals /\ goal'[sent'] = "travelling" /\ Mine \in unheard'
  OBVIOUS
<1>1. /\ pc = "sent" /\ unheard' = unheard \cup {Mine} /\ tries < MaxTries /\ after' = after
      /\ heard' = heard /\ SendAnother(tries + 1)
  BY DEF Resend, LetGo
<1>2. \A g \in Goals : MayMove(g) => g \in cancelled \cup unheard'
  BY <1>1 DEF IInv, NothingUntracked, OfTheCall
<1>3. unheard' \subseteq Goals /\ after' \in BOOLEAN /\ (~after' => cancelled = {})
  BY <1>1 DEF IInv, TypeOK, SentInOrder, Calling, Mine, CancelledLast
<1> QED
  BY <1>1, <1>2, <1>3, NextHasRoom, SendingKeeps

(* The waits of a call: a goal that is let go has ended, was rejected,     *)
(* was cancelled, or its answer was not heard.                             *)
WaitStep == GoalAnswered \/ GoalTimesOut \/ InterruptedEarly \/ Result \/ GiveUp \/ RaisesOn

LEMMA WaitKeeps == IInv /\ WaitStep => IInv'
<1> SUFFICES ASSUME IInv, WaitStep PROVE IInv'
  OBVIOUS
<1> USE DEF WaitStep, GoalAnswered, GoalTimesOut, InterruptedEarly, Result, GiveUp, RaisesOn,
            Fail, Raise, LetGo, Cancel, server, Mine, Calling
<1>1. /\ sent' = sent /\ tries' = tries /\ goal' = goal /\ after' = after
      /\ cancelled' \in {cancelled, cancelled \cup {Mine}}
      /\ unheard' \in {unheard, unheard \cup {Mine}}
      /\ pc \in Calling
  OBVIOUS
<1>2. TypeOK
  BY DEF IInv
<1>3. sent \in Goals /\ SentInOrder'
  BY <1>1 DEF IInv, SentInOrder
<1>4. pc' \in Calling \cup {"free", "raised"} /\ heard' \in BOOLEAN
  BY <1>2 DEF TypeOK
<1>5. TypeOK'
  BY <1>1, <1>2, <1>3, <1>4 DEF TypeOK, ServerTypeOK
<1>6. RoomToResend'
  BY DEF IInv, RoomToResend
<1>7. WaitsForMine'
  BY <1>1 DEF IInv, WaitsForMine, Accepted, Answered
<1>8. CancelledLast'
  BY <1>1 DEF IInv, CancelledLast
<1>9. pc' \in Calling \/ ~MayMove(Mine) \/ Mine \in cancelled' \cup unheard'
  BY DEF IInv, WaitsForMine, MayMove, Ended, Answered
<1>10. NothingUntracked'
  BY <1>1, <1>9 DEF IInv, NothingUntracked, OfTheCall, MayMove
<1> QED
  BY <1>3, <1>5, <1>6, <1>7, <1>8, <1>10 DEF IInv

(* The end of the process. *)
LEMMA QuitKeeps == IInv /\ Quit => IInv'
BY DEF Quit, server, IInv, TypeOK, ServerTypeOK, SentInOrder, Calling, RoomToResend,
       WaitsForMine, CancelledLast, NothingUntracked, MayMove, OfTheCall, Mine

(* The server and the link touch only goals that may move the robot.       *)
LEMMA ServerKeeps == IInv /\ (ServerStep \/ Dropped) /\ UNCHANGED client => IInv'
<1> SUFFICES ASSUME IInv, UNCHANGED client, NEW g \in Goals,
                    Arrive(g) \/ Finish(g) \/ CancelTakesEffect(g) \/ Lose(g)
             PROVE  IInv'
  BY DEF ServerStep, Dropped
<1> USE DEF IInv, TypeOK, ServerTypeOK, Mine, client
<1>1. PICK s \in {"moving", "rejected", "succeeded", "aborted", "canceled", "lost"} :
         goal' = [goal EXCEPT ![g] = s] /\ cancelled' = cancelled
  BY DEF Arrive, Finish, CancelTakesEffect, Lose, Becomes
<1>2. MayMove(g) /\ (s \in {"rejected", "lost"} => goal[g] = "travelling")
  BY <1>1 DEF MayMove, Arrive, Finish, CancelTakesEffect, Lose, Becomes
<1>3. TypeOK'
  BY <1>1 DEF Answered, Accepted, Ended
<1>4. goal'[g] = s /\ \A h \in Goals : h # g => goal'[h] = goal[h]
  BY <1>1
<1>5. SentInOrder'
  <2>1. goal[g] # "unsent"
    BY <1>2 DEF MayMove
  <2> QED
    BY <1>4, <2>1 DEF SentInOrder
<1>6. WaitsForMine'
  BY <1>1, <1>2, <1>4 DEF WaitsForMine, Accepted, Ended
<1>7. NothingUntracked'
  BY <1>1, <1>2, <1>4 DEF NothingUntracked, MayMove, OfTheCall
<1> QED
  BY <1>1, <1>3, <1>5, <1>6, <1>7 DEF RoomToResend, CancelledLast

(* IInv holds of every state.                                              *)
LEMMA CallsKeepIInv == Spec => []IInv
<1>1. IInv /\ UNCHANGED vars => IInv'
  BY DEF vars, client, server, IInv, TypeOK, ServerTypeOK, SentInOrder, RoomToResend,
         WaitsForMine, CancelledLast, NothingUntracked, MayMove, OfTheCall, Mine
<1>2. IInv /\ [Next]_vars => IInv'
  BY <1>1, CallKeeps, ResendKeeps, WaitKeeps, GoesOnKeeps, QuitKeeps, ServerKeeps
     DEF Next, ClientStep, WaitStep
<1> QED
  BY InitHolds, <1>2, PTL DEF Spec

(* A goal that moves the robot, or still may, is the call's own, was       *)
(* cancelled, or its answer was never heard (run_action).                  *)
THEOREM NothingLeftUntracked == Spec => []NothingUntracked
<1>1. IInv => NothingUntracked
  BY DEF IInv
<1> QED
  BY <1>1, CallsKeepIInv, PTL

(***************************************************************************)
(* run_action beside SingleMotion.                                         *)
(***************************************************************************)
(* What the robot does is what it makes of the last goal; between calls,   *)
(* and after one that raised, it stands still; and a goal on its way is    *)
(* one that is waited for.                                                 *)
RobotShowsMine ==
  /\ Robot(Mine) = "moving" <=> Mine \in Goals /\ goal[Mine] = "moving"
  /\ Robot(Mine) = "arrived" <=> Mine \in Goals /\ goal[Mine] = "succeeded"
  /\ Robot(Mine) \in {"moving", "arrived", "still"}
  /\ Asks = "free" => Robot(Mine) # "moving"
  /\ \A g \in Goals : MayMove(g) => g = Mine /\ Asks # "free"

(* For no other goal can move it, where the code can know.                 *)
LEMMA RobotIsMine == IInv /\ ~OutOfHand => RobotShowsMine
<1> SUFFICES ASSUME IInv, ~OutOfHand PROVE RobotShowsMine
  OBVIOUS
<1>1. \A g \in Goals : MayMove(g) => OfTheCall(g) \/ g \in cancelled
  BY DEF IInv, NothingUntracked, OutOfHand, MayMove
<1>2. \A g \in Goals : MayMove(g) => g = Mine /\ pc \notin {"free", "raised"}
  <2> SUFFICES ASSUME NEW g \in Goals, MayMove(g) PROVE g = Mine /\ pc \notin {"free", "raised"}
    OBVIOUS
  <2>1. CASE OfTheCall(g)
    BY <2>1 DEF OfTheCall, Calling
  <2>2. CASE ~OfTheCall(g)
    BY <1>1, <2>2 DEF OutOfHand, IInv, CancelledLast
  <2> QED
    BY <2>1, <2>2
<1>3. Asks = "free" <=> pc \in {"free", "raised"}
  BY DEF Asks, IInv, TypeOK, Calling
<1> QED
  BY <1>2, <1>3 DEF RobotShowsMine, MayMove, Robot

(* A new call asks for a motion of a robot that stands still.              *)
LEMMA CallAsks ==
  IInv /\ RobotShowsMine' /\ Call => Motion!Ask \/ UNCHANGED <<Asks, Robot(Mine), heard>>
<1> SUFFICES ASSUME IInv, RobotShowsMine', Call
             PROVE  Motion!Ask \/ UNCHANGED <<Asks, Robot(Mine), heard>>
  OBVIOUS
<1>1. CASE sent + MaxTries <= MaxGoals /\ SendAnother(1) /\ UNCHANGED <<after, heard>>
  <2>1. pc' = "sent" /\ sent' \in Goals /\ goal'[sent'] = "travelling"
    BY <1>1, CallKeeps DEF SendAnother
  <2>2. Robot(Mine)' = "still"
    BY <2>1 DEF RobotShowsMine, Mine
  <2> QED
    BY <1>1, <2>1, <2>2 DEF Call, Motion!Ask, Asks, Calling
<1>2. CASE Raise /\ UNCHANGED <<heard, server>>
  BY <1>2 DEF Call, Raise, Robot, Mine, server, Asks, Calling
<1> QED
  BY <1>1, <1>2 DEF Call

(* So does the goal that follows a call which raised.                      *)
LEMMA GoesOnAsks == IInv /\ RobotShowsMine' /\ GoesOn => Motion!Ask
<1> SUFFICES ASSUME IInv, RobotShowsMine', GoesOn PROVE Motion!Ask
  OBVIOUS
<1>1. pc' = "sent" /\ pc = "raised" /\ heard' = heard /\ sent' \in Goals /\ goal'[sent'] = "travelling"
  BY GoesOnKeeps DEF GoesOn, SendAnother
<1>2. Robot(Mine)' = "still"
  BY <1>1 DEF RobotShowsMine, Mine
<1> QED
  BY <1>1, <1>2 DEF Motion!Ask, Asks, Calling

(* Sending again is unseen where the goal was lost or rejected: the robot  *)
(* stood still, and still does.                                            *)
LEMMA ResendIsUnseen ==
  IInv /\ ~OutOfHand' /\ RobotShowsMine /\ RobotShowsMine' /\ Resend =>
    UNCHANGED <<Asks, Robot(Mine), heard>>
<1> SUFFICES ASSUME IInv, ~OutOfHand', RobotShowsMine, RobotShowsMine', Resend
             PROVE  UNCHANGED <<Asks, Robot(Mine), heard>>
  OBVIOUS
<1>1. sent' \in Goals /\ goal'[sent'] = "travelling" /\ Mine \in unheard' /\ pc = "sent" /\ pc' = "sent"
      /\ heard' = heard
  BY ResendKeeps DEF Resend, LetGo, SendAnother
<1>2. sent \in Goals /\ goal \in [Goals -> Answered \cup {"unsent", "travelling", "lost"}]
  BY <1>1, TypeOfGoals DEF IInv, SentInOrder, Calling, GoalTypes
<1>3. goal'[Mine] \in {"lost", "rejected"} /\ Mine # sent'
  BY <1>1 DEF OutOfHand
<1>4. goal' = [goal EXCEPT ![sent'] = "travelling"]
  BY DEF Resend, SendAnother, Send
<1>5. goal[Mine] \in {"lost", "rejected"}
  BY <1>2, <1>3, <1>4 DEF Mine
<1>6. Robot(Mine) = "still" /\ Robot(Mine)' = "still"
  BY <1>1, <1>5 DEF RobotShowsMine, Mine
<1> QED
  BY <1>1, <1>6 DEF Asks, Calling

(* A result is told as it is, of a robot that stands still; a call that    *)
(* raises answers that nothing was reached; else it waits on.              *)
LEMMA WaitAnswers ==
  IInv /\ ~OutOfHand' /\ RobotShowsMine /\ RobotShowsMine' /\ WaitStep =>
    Motion!Answer \/ UNCHANGED <<Asks, Robot(Mine), heard>>
<1> SUFFICES ASSUME IInv, ~OutOfHand', RobotShowsMine, RobotShowsMine', WaitStep
             PROVE  Motion!Answer \/ UNCHANGED <<Asks, Robot(Mine), heard>>
  OBVIOUS
<1> USE DEF WaitStep, GoalAnswered, GoalTimesOut, InterruptedEarly, Result, GiveUp, RaisesOn,
            Fail, Raise, LetGo, Cancel, server, Calling
<1>1. sent' = sent /\ goal' = goal /\ pc \in Calling /\ sent \in Goals
  BY DEF IInv, SentInOrder
<1>2. Robot(Mine)' = Robot(Mine)
  BY <1>1 DEF Robot, Mine
<1>3. CASE pc' \in Calling
  BY <1>1, <1>2, <1>3 DEF Asks
<1>4. CASE pc' \in {"free", "raised"}
  <2>1. Robot(Mine) # "moving"
    BY <1>2, <1>4 DEF RobotShowsMine, Asks
  <2>2. heard' = FALSE \/ (goal[Mine] = "succeeded" /\ heard' = TRUE)
    BY <1>4
  <2>3. heard' \in {FALSE, Robot(Mine) = "arrived"}
    BY <1>1, <2>2 DEF RobotShowsMine, Mine
  <2> QED
    BY <1>1, <1>2, <1>4, <2>1, <2>3 DEF Motion!Answer, Asks
<1>5. pc' \in Calling \cup {"free", "raised"}
  OBVIOUS
<1> QED
  BY <1>3, <1>4, <1>5

(* The end raises what the caller is told nothing more after.              *)
LEMMA QuitRaises == Quit => Motion!Raise
BY DEF Quit, Motion!Raise, Asks, Calling, Robot, Mine, server

(* The server moves the robot only for a caller that has asked, and halts  *)
(* it; a lost goal never moved it.                                         *)
LEMMA ServerMoves ==
  IInv /\ RobotShowsMine /\ RobotShowsMine' /\ (ServerStep \/ Dropped) /\ UNCHANGED client =>
    Motion!Move \/ Motion!Halt \/ UNCHANGED <<Asks, Robot(Mine), heard>>
<1> SUFFICES ASSUME IInv, RobotShowsMine, RobotShowsMine', UNCHANGED client, NEW g \in Goals,
                    Arrive(g) \/ Finish(g) \/ CancelTakesEffect(g) \/ Lose(g)
             PROVE  Motion!Move \/ Motion!Halt \/ UNCHANGED <<Asks, Robot(Mine), heard>>
  BY DEF ServerStep, Dropped
<1>1. g = Mine /\ Asks # "free" /\ Asks' = Asks /\ heard' = heard
  BY DEF RobotShowsMine, MayMove, Arrive, Finish, CancelTakesEffect, Lose, Becomes, client, Asks
<1>2. Mine' = Mine /\ goal \in [Goals -> Answered \cup {"unsent", "travelling", "lost"}]
  BY DEF client, Mine, IInv, TypeOK, ServerTypeOK
<1>3. CASE Arrive(g) \/ Lose(g)
  <2>1. goal[Mine] = "travelling" /\ goal'[Mine] \in {"moving", "rejected", "lost"}
    BY <1>1, <1>2, <1>3 DEF Arrive, Lose, Becomes
  <2>2. Robot(Mine) = "still" /\ Robot(Mine)' \in {"moving", "still"}
    BY <1>1, <1>2, <2>1 DEF RobotShowsMine
  <2> QED
    BY <1>1, <2>2 DEF Motion!Move
<1>4. CASE Finish(g) \/ CancelTakesEffect(g)
  <2>1. goal[Mine] = "moving" /\ goal'[Mine] \in Ended
    BY <1>1, <1>2, <1>4 DEF Finish, CancelTakesEffect, Becomes, Ended
  <2>2. Robot(Mine) = "moving" /\ Robot(Mine)' \in {"still", "arrived"}
    BY <1>1, <1>2, <2>1 DEF RobotShowsMine, Ended
  <2> QED
    BY <1>1, <2>2 DEF Motion!Halt
<1> QED
  BY <1>3, <1>4

(* Over a link that loses and delays, resent as often as may be and gone   *)
(* on with after a raise, run_action asks for no motion while another goes *)
(* on, and is told the truth, unless a goal whose answer was never heard   *)
(* was taken, or a cancelled one goes on after its call has raised.        *)
THEOREM RunActionIsSingleMotion == Spec => MotionsOneAtATime
<1>1. Init => Motion!Init
  BY GoalsAssumption DEF Init, ServerInit, Motion!Init, Robot, Mine, Goals, GoalsAssumption, Asks, Calling
<1>2. IInv /\ IInv' /\ [Next]_vars =>
        [OutOfHand \/ OutOfHand' \/ Motion!Next]_<<Asks, Robot(Mine), heard>>
  <2> SUFFICES ASSUME IInv, IInv', [Next]_vars, ~OutOfHand, ~OutOfHand'
               PROVE  Motion!Next \/ UNCHANGED <<Asks, Robot(Mine), heard>>
    OBVIOUS
  <2>1. RobotShowsMine /\ RobotShowsMine'
    <3>1. RobotShowsMine
      BY RobotIsMine
    <3>2. (IInv /\ ~OutOfHand => RobotShowsMine)'
      BY RobotIsMine, PTL
    <3> QED
      BY <3>1, <3>2
  <2>2. UNCHANGED vars => UNCHANGED <<Asks, Robot(Mine), heard>>
    BY DEF vars, client, server, Robot, Mine, Asks
  <2> QED
    BY <2>1, <2>2, CallAsks, GoesOnAsks, ResendIsUnseen, WaitAnswers, QuitRaises, ServerMoves
       DEF Next, ClientStep, WaitStep, Motion!Next
<1> QED
  BY <1>1, <1>2, CallsKeepIInv, PTL DEF Spec, MotionsOneAtATime
=============================================================================
