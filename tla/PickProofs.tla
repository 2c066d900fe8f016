----------------------------- MODULE PickProofs -----------------------------
(***************************************************************************)
(* Proofs about PickSequence: what a run may rely on at each of its places *)
(* whatever the runs before it left, for any number of runs and depth maps.*)
(***************************************************************************)
EXTENDS PickSequence, TLAPS

InPick ==
    {"hold", "margin", "clear", "folding", "thaw", "thaw and raise", "perceive", "open",
     "box", "apply", "watch", "rebuild", "check", "freeze", "plan", "pregrasp", "palm",
     "close", "gap", "lift", "look", "dwell", "dwell unseen", "look again", "last", "finally"}
InRecovery == {"recover hand", "forget", "direct", "retreat", "home", "resume"}

(* TypeOK in four parts. *)
SceneTypes ==
    /\ box \in {"none", "old", "new"} /\ attached \in BOOLEAN /\ exempt \subseteq Pairs
    /\ map \in {"none", "old", "new"} /\ relay \in BOOLEAN
    /\ nav \in {"absent", "paused", "active"}
RobotTypes ==
    /\ palm \in {"away", "off", "near", "at"} /\ hand \in {"open", "shut"}
    /\ high \in BOOLEAN /\ object \in {"table", "held", "lifted"}
LocalTypes ==
    /\ proc \in {"none", "pick", "recover"}
    /\ lifting \in BOOLEAN /\ fused \in BOOLEAN /\ again \in BOOLEAN /\ missed \in BOOLEAN
    /\ outcome \in {"none", "killed", "failed", "grasped", "picked", "recovered", "not stowed"}
Counts == tries \in 0..MapTries /\ runs \in 0..MaxRuns

(* Which process runs is told by the place. *)
Places ==
    /\ at \in {"idle"} \cup InPick \cup InRecovery
    /\ at = "idle" <=> proc = "none"
    /\ at \in InPick <=> proc = "pick"
    /\ at \in InRecovery <=> proc = "recover"

(* From the new box on, the scene holds it and nothing of an earlier run,  *)
(* and a depth map that comes after it was built with it.                  *)
SceneIsNew ==
    /\ at \in {"watch", "rebuild", "check", "freeze", "plan", "pregrasp"} =>
            box = "new" /\ ~attached
    /\ at = "check" => map \in {"none", "new"}
    /\ at \in {"freeze", "plan", "pregrasp"} => map = "new"

(* A Nav2 that hold_nav2 saw moves nothing while the pick goes on. *)
NavIsHeld == at \in InPick \ {"hold", "finally"} /\ ~missed => nav # "active"

(* From the lift on, the object is attached, and up or fallen. *)
LiftIsTold ==
    at \in {"look", "dwell", "dwell unseen", "look again", "last"} =>
        attached /\ object \in {"lifted", "table"}

(* The inductive invariant. *)
IInv ==
    /\ SceneTypes /\ RobotTypes /\ LocalTypes /\ Counts /\ Places
    /\ SceneIsNew /\ NavIsHeld /\ LiftIsTold
    /\ ReachIsChecked /\ FrozenWhileMoving /\ ClosesAtTheGrasp

(* What move_group, its depth map and Nav2 are told stays of its type in   *)
(* every step.                                                             *)
LEMMA SceneTypesKept == IInv /\ [Next]_vars => SceneTypes'
<1> SUFFICES ASSUME IInv, [Next]_vars PROVE SceneTypes'
  OBVIOUS
<1> USE DEF IInv, SceneTypes, Pairs, scene, robot, local
<1>1. CASE World
  BY <1>1 DEF World, Frame, Nav2Drives, Mission, Slip
<1>2. CASE StartPick \/ StartRecovery
  BY <1>2 DEF StartPick, StartRecovery, Start
<1>3. CASE Killed \/ Raise \/ NotStowed
  BY <1>3 DEF Killed, Raise, NotStowed, Return, Finish
<1>4. CASE HoldNav2 \/ Margin \/ FreezeForFold \/ FoldForView \/ Thaw \/ Perceive
  BY <1>4 DEF HoldNav2, Margin, FreezeForFold, FoldForView, Thaw, Perceive, Goto, Fold, Modes, Kinds
<1>5. CASE OpenForGrasp \/ ClearForBox \/ ApplyBox \/ Watch \/ Rebuild \/ CheckMap \/ Freeze
  BY <1>5 DEF OpenForGrasp, ClearForBox, ApplyBox, Watch, Rebuild, CheckMap, Freeze, Goto, OpenHand
<1>6. CASE ReachPregrasp \/ MoveIn \/ PalmThere \/ Correct \/ Close \/ Gap
  BY <1>6 DEF ReachPregrasp, MoveIn, PalmThere, Correct, Close, Gap, Goto, OpenHand, Protected, Checked, Finish
<1>7. CASE Lift \/ LookLifted \/ Dwell \/ LookAgain \/ LastContact \/ StopRelay
  BY <1>7 DEF Lift, LookLifted, Dwell, LookAgain, LastContact, StopRelay, Goto, Risen, Finish, Contact, Return
<1>8. CASE RecoverStep
  BY <1>8 DEF RecoverStep, RecoverHand, Forget, Retreat, Home, Direct, Resume, OpenHand, Goto, Fold, Return
<1>9. CASE UNCHANGED vars
  BY <1>9 DEF vars
<1> QED
  BY <1>1, <1>2, <1>3, <1>4, <1>5, <1>6, <1>7, <1>8, <1>9 DEF Next, PickStep

(* The arm, the hand, the torso and the object stay of their type. *)
LEMMA RobotTypesKept == IInv /\ [Next]_vars => RobotTypes'
<1> SUFFICES ASSUME IInv, [Next]_vars PROVE RobotTypes'
  OBVIOUS
<1> USE DEF IInv, RobotTypes, scene, robot, local
<1>1. CASE World
  BY <1>1 DEF World, Frame, Nav2Drives, Mission, Slip
<1>2. CASE StartPick \/ StartRecovery
  BY <1>2 DEF StartPick, StartRecovery, Start
<1>3. CASE Killed \/ Raise \/ NotStowed
  BY <1>3 DEF Killed, Raise, NotStowed, Return, Finish
<1>4. CASE HoldNav2 \/ Margin \/ FreezeForFold \/ FoldForView \/ Thaw \/ Perceive
  BY <1>4 DEF HoldNav2, Margin, FreezeForFold, FoldForView, Thaw, Perceive, Goto, Fold, Modes, Kinds
<1>5. CASE OpenForGrasp \/ ClearForBox \/ ApplyBox \/ Watch \/ Rebuild \/ CheckMap \/ Freeze
  BY <1>5 DEF OpenForGrasp, ClearForBox, ApplyBox, Watch, Rebuild, CheckMap, Freeze, Goto, OpenHand
<1>6. CASE ReachPregrasp \/ MoveIn \/ PalmThere \/ Correct \/ Close \/ Gap
  BY <1>6 DEF ReachPregrasp, MoveIn, PalmThere, Correct, Close, Gap, Goto, OpenHand, Protected, Checked, Finish
<1>7. CASE Lift \/ LookLifted \/ Dwell \/ LookAgain \/ LastContact \/ StopRelay
  BY <1>7 DEF Lift, LookLifted, Dwell, LookAgain, LastContact, StopRelay, Goto, Risen, Finish, Contact, Return
<1>8. CASE RecoverStep
  BY <1>8 DEF RecoverStep, RecoverHand, Forget, Retreat, Home, Direct, Resume, OpenHand, Goto, Fold, Return
<1>9. CASE UNCHANGED vars
  BY <1>9 DEF vars
<1> QED
  BY <1>1, <1>2, <1>3, <1>4, <1>5, <1>6, <1>7, <1>8, <1>9 DEF Next, PickStep

(* The process and its own flags stay of their type. *)
LEMMA LocalTypesKept == IInv /\ [Next]_vars => LocalTypes'
<1> SUFFICES ASSUME IInv, [Next]_vars PROVE LocalTypes'
  OBVIOUS
<1> USE DEF IInv, LocalTypes, scene, robot, local
<1>1. CASE World
  BY <1>1 DEF World, Frame, Nav2Drives, Mission, Slip
<1>2. CASE StartPick \/ StartRecovery
  BY <1>2 DEF StartPick, StartRecovery, Start
<1>3. CASE Killed \/ Raise \/ NotStowed
  BY <1>3 DEF Killed, Raise, NotStowed, Return, Finish
<1>4. CASE HoldNav2 \/ Margin \/ FreezeForFold \/ FoldForView \/ Thaw \/ Perceive
  BY <1>4 DEF HoldNav2, Margin, FreezeForFold, FoldForView, Thaw, Perceive, Goto, Fold, Modes, Kinds
<1>5. CASE OpenForGrasp \/ ClearForBox \/ ApplyBox \/ Watch \/ Rebuild \/ CheckMap \/ Freeze
  BY <1>5 DEF OpenForGrasp, ClearForBox, ApplyBox, Watch, Rebuild, CheckMap, Freeze, Goto, OpenHand
<1>6. CASE ReachPregrasp \/ MoveIn \/ PalmThere \/ Correct \/ Close \/ Gap
  BY <1>6 DEF ReachPregrasp, MoveIn, PalmThere, Correct, Close, Gap, Goto, OpenHand, Protected, Checked, Finish
<1>7. CASE Lift \/ LookLifted \/ Dwell \/ LookAgain \/ LastContact \/ StopRelay
  BY <1>7 DEF Lift, LookLifted, Dwell, LookAgain, LastContact, StopRelay, Goto, Risen, Finish, Contact, Return
<1>8. CASE RecoverStep
  BY <1>8 DEF RecoverStep, RecoverHand, Forget, Retreat, Home, Direct, Resume, OpenHand, Goto, Fold, Return
<1>9. CASE UNCHANGED vars
  BY <1>9 DEF vars
<1> QED
  BY <1>1, <1>2, <1>3, <1>4, <1>5, <1>6, <1>7, <1>8, <1>9 DEF Next, PickStep

(* No run starts past the bound, and model_target gives up at the last map *)
(* it may build (pick.py model_target).                                    *)
LEMMA CountsKept == IInv /\ [Next]_vars => Counts'
<1> SUFFICES ASSUME IInv, [Next]_vars PROVE Counts'
  OBVIOUS
<1> USE PickSequenceAssumption
<1> USE DEF IInv, PickSequenceAssumption, Counts, scene, robot, local
<1>1. CASE World
  BY <1>1 DEF World, Frame, Nav2Drives, Mission, Slip
<1>2. CASE StartPick \/ StartRecovery
  <2>1. runs < MaxRuns /\ runs' = runs + 1
    BY <1>2 DEF StartPick, StartRecovery, Start
  <2>2. tries' = 0 \/ tries' = tries
    BY <1>2 DEF StartPick, StartRecovery, Start
  <2> QED
    BY <2>1, <2>2
<1>3. CASE Killed \/ Raise \/ NotStowed
  BY <1>3 DEF Killed, Raise, NotStowed, Return, Finish
<1>4. CASE HoldNav2 \/ Margin \/ FreezeForFold \/ FoldForView \/ Thaw \/ Perceive
  BY <1>4 DEF HoldNav2, Margin, FreezeForFold, FoldForView, Thaw, Perceive, Goto, Fold, Modes, Kinds
<1>5. CASE OpenForGrasp \/ ClearForBox \/ ApplyBox \/ Watch \/ Rebuild \/ CheckMap \/ Freeze
  <2>1. CASE Rebuild
    <3>1. tries < MapTries /\ tries' = tries + 1 /\ runs' = runs
      BY <2>1 DEF Rebuild
    <3> QED
      BY <3>1
  <2>2. CASE ~Rebuild
    <3>1. tries' = tries /\ runs' = runs
      BY <1>5, <2>2 DEF OpenForGrasp, ClearForBox, ApplyBox, Watch, CheckMap, Freeze, Goto, OpenHand
    <3> QED
      BY <3>1
  <2> QED
    BY <2>1, <2>2
<1>6. CASE ReachPregrasp \/ MoveIn \/ PalmThere \/ Correct \/ Close \/ Gap
  BY <1>6 DEF ReachPregrasp, MoveIn, PalmThere, Correct, Close, Gap, Goto, OpenHand, Protected, Checked, Finish
<1>7. CASE Lift \/ LookLifted \/ Dwell \/ LookAgain \/ LastContact \/ StopRelay
  BY <1>7 DEF Lift, LookLifted, Dwell, LookAgain, LastContact, StopRelay, Goto, Risen, Finish, Contact, Return
<1>8. CASE RecoverStep
  BY <1>8 DEF RecoverStep, RecoverHand, Forget, Retreat, Home, Direct, Resume, OpenHand, Goto, Fold, Return
<1>9. CASE UNCHANGED vars
  BY <1>9 DEF vars
<1> QED
  BY <1>1, <1>2, <1>3, <1>4, <1>5, <1>6, <1>7, <1>8, <1>9 DEF Next, PickStep

(* A place belongs to one of the two programs, and is left with it: only   *)
(* Return makes the process end.                                           *)
LEMMA PlacesKept == IInv /\ [Next]_vars => Places'
<1> SUFFICES ASSUME IInv, [Next]_vars PROVE Places'
  OBVIOUS
<1> USE DEF IInv, Places, InPick, InRecovery, scene, robot, local
<1>1. CASE World
  BY <1>1 DEF World, Frame, Nav2Drives, Mission, Slip
<1>2. CASE StartPick \/ StartRecovery
  BY <1>2 DEF StartPick, StartRecovery, Start
<1>3. CASE Killed \/ Raise \/ NotStowed
  BY <1>3 DEF Killed, Raise, NotStowed, Return, Finish
<1>4. CASE HoldNav2 \/ Margin \/ FreezeForFold \/ FoldForView \/ Thaw \/ Perceive
  BY <1>4 DEF HoldNav2, Margin, FreezeForFold, FoldForView, Thaw, Perceive, Goto, Fold, Modes, Kinds
<1>5. CASE OpenForGrasp \/ ClearForBox \/ ApplyBox \/ Watch \/ Rebuild \/ CheckMap \/ Freeze
  BY <1>5 DEF OpenForGrasp, ClearForBox, ApplyBox, Watch, Rebuild, CheckMap, Freeze, Goto, OpenHand
<1>6. CASE ReachPregrasp \/ MoveIn \/ PalmThere \/ Correct \/ Close \/ Gap
  BY <1>6 DEF ReachPregrasp, MoveIn, PalmThere, Correct, Close, Gap, Goto, OpenHand, Protected, Checked, Finish
<1>7. CASE Lift \/ LookLifted \/ Dwell \/ LookAgain \/ LastContact \/ StopRelay
  BY <1>7 DEF Lift, LookLifted, Dwell, LookAgain, LastContact, StopRelay, Goto, Risen, Finish, Contact, Return
<1>8. CASE RecoverStep
  BY <1>8 DEF RecoverStep, RecoverHand, Forget, Retreat, Home, Direct, Resume, OpenHand, Goto, Fold, Return
<1>9. CASE UNCHANGED vars
  BY <1>9 DEF vars
<1> QED
  BY <1>1, <1>2, <1>3, <1>4, <1>5, <1>6, <1>7, <1>8, <1>9 DEF Next, PickStep

(* Watch follows ApplyBox, and every start ages the box: what the later    *)
(* places see is this run's, whatever was left (pick.py model_target).     *)
LEMMA SceneIsNewKept == IInv /\ [Next]_vars => SceneIsNew'
<1> SUFFICES ASSUME IInv, [Next]_vars PROVE SceneIsNew'
  OBVIOUS
<1> USE DEF IInv, SceneIsNew, SceneTypes, scene, robot, local
<1>1. CASE World
  BY <1>1 DEF World, Frame, Nav2Drives, Mission, Slip
<1>2. CASE StartPick \/ StartRecovery
  BY <1>2 DEF StartPick, StartRecovery, Start
<1>3. CASE Killed \/ Raise \/ NotStowed
  BY <1>3 DEF Killed, Raise, NotStowed, Return, Finish
<1>4. CASE HoldNav2 \/ Margin \/ FreezeForFold \/ FoldForView \/ Thaw \/ Perceive
  BY <1>4 DEF HoldNav2, Margin, FreezeForFold, FoldForView, Thaw, Perceive, Goto, Fold, Modes, Kinds
<1>5. CASE OpenForGrasp \/ ClearForBox \/ ApplyBox \/ Watch \/ Rebuild \/ CheckMap \/ Freeze
  BY <1>5 DEF OpenForGrasp, ClearForBox, ApplyBox, Watch, Rebuild, CheckMap, Freeze, Goto, OpenHand
<1>6. CASE ReachPregrasp \/ MoveIn \/ PalmThere \/ Correct \/ Close \/ Gap
  BY <1>6 DEF ReachPregrasp, MoveIn, PalmThere, Correct, Close, Gap, Goto, OpenHand, Protected, Checked, Finish
<1>7. CASE Lift \/ LookLifted \/ Dwell \/ LookAgain \/ LastContact \/ StopRelay
  BY <1>7 DEF Lift, LookLifted, Dwell, LookAgain, LastContact, StopRelay, Goto, Risen, Finish, Contact, Return
<1>8. CASE RecoverStep
  BY <1>8 DEF RecoverStep, RecoverHand, Forget, Retreat, Home, Direct, Resume, OpenHand, Goto, Fold, Return
<1>9. CASE UNCHANGED vars
  BY <1>9 DEF vars
<1> QED
  BY <1>1, <1>2, <1>3, <1>4, <1>5, <1>6, <1>7, <1>8, <1>9 DEF Next, PickStep

(* Only the mission activates Nav2, between two runs, or resume_nav at the *)
(* end of a recovery.                                                      *)
LEMMA NavIsHeldKept == IInv /\ [Next]_vars => NavIsHeld'
<1> SUFFICES ASSUME IInv, [Next]_vars PROVE NavIsHeld'
  OBVIOUS
<1> USE DEF IInv, NavIsHeld, InPick, Places, InRecovery, scene, robot, local
<1>1. CASE World
  BY <1>1 DEF World, Frame, Nav2Drives, Mission, Slip
<1>2. CASE StartPick \/ StartRecovery
  BY <1>2 DEF StartPick, StartRecovery, Start
<1>3. CASE Killed \/ Raise \/ NotStowed
  BY <1>3 DEF Killed, Raise, NotStowed, Return, Finish
<1>4. CASE HoldNav2 \/ Margin \/ FreezeForFold \/ FoldForView \/ Thaw \/ Perceive
  BY <1>4 DEF HoldNav2, Margin, FreezeForFold, FoldForView, Thaw, Perceive, Goto, Fold, Modes, Kinds
<1>5. CASE OpenForGrasp \/ ClearForBox \/ ApplyBox \/ Watch \/ Rebuild \/ CheckMap \/ Freeze
  BY <1>5 DEF OpenForGrasp, ClearForBox, ApplyBox, Watch, Rebuild, CheckMap, Freeze, Goto, OpenHand
<1>6. CASE ReachPregrasp \/ MoveIn \/ PalmThere \/ Correct \/ Close \/ Gap
  BY <1>6 DEF ReachPregrasp, MoveIn, PalmThere, Correct, Close, Gap, Goto, OpenHand, Protected, Checked, Finish
<1>7. CASE Lift \/ LookLifted \/ Dwell \/ LookAgain \/ LastContact \/ StopRelay
  BY <1>7 DEF Lift, LookLifted, Dwell, LookAgain, LastContact, StopRelay, Goto, Risen, Finish, Contact, Return
<1>8. CASE RecoverStep
  BY <1>8 DEF RecoverStep, RecoverHand, Forget, Retreat, Home, Direct, Resume, OpenHand, Goto, Fold, Return
<1>9. CASE UNCHANGED vars
  BY <1>9 DEF vars
<1> QED
  BY <1>1, <1>2, <1>3, <1>4, <1>5, <1>6, <1>7, <1>8, <1>9 DEF Next, PickStep

(* The lift attaches the object, and no step before the pick's end takes   *)
(* it off again; it can still slip.                                        *)
LEMMA LiftIsToldKept == IInv /\ [Next]_vars => LiftIsTold'
<1> SUFFICES ASSUME IInv, [Next]_vars PROVE LiftIsTold'
  OBVIOUS
<1> USE DEF IInv, LiftIsTold, RobotTypes, scene, robot, local
<1>1. CASE World
  BY <1>1 DEF World, Frame, Nav2Drives, Mission, Slip
<1>2. CASE StartPick \/ StartRecovery
  BY <1>2 DEF StartPick, StartRecovery, Start
<1>3. CASE Killed \/ Raise \/ NotStowed
  BY <1>3 DEF Killed, Raise, NotStowed, Return, Finish
<1>4. CASE HoldNav2 \/ Margin \/ FreezeForFold \/ FoldForView \/ Thaw \/ Perceive
  BY <1>4 DEF HoldNav2, Margin, FreezeForFold, FoldForView, Thaw, Perceive, Goto, Fold, Modes, Kinds
<1>5. CASE OpenForGrasp \/ ClearForBox \/ ApplyBox \/ Watch \/ Rebuild \/ CheckMap \/ Freeze
  BY <1>5 DEF OpenForGrasp, ClearForBox, ApplyBox, Watch, Rebuild, CheckMap, Freeze, Goto, OpenHand
<1>6. CASE ReachPregrasp \/ MoveIn \/ PalmThere \/ Correct \/ Close \/ Gap
  BY <1>6 DEF ReachPregrasp, MoveIn, PalmThere, Correct, Close, Gap, Goto, OpenHand, Protected, Checked, Finish
<1>7. CASE Lift \/ LookLifted \/ Dwell \/ LookAgain \/ LastContact \/ StopRelay
  BY <1>7 DEF Lift, LookLifted, Dwell, LookAgain, LastContact, StopRelay, Goto, Risen, Finish, Contact, Return
<1>8. CASE RecoverStep
  BY <1>8 DEF RecoverStep, RecoverHand, Forget, Retreat, Home, Direct, Resume, OpenHand, Goto, Fold, Return
<1>9. CASE UNCHANGED vars
  BY <1>9 DEF vars
<1> QED
  BY <1>1, <1>2, <1>3, <1>4, <1>5, <1>6, <1>7, <1>8, <1>9 DEF Next, PickStep

(* ReachPregrasp sets the exemptions absolutely, so nothing that an        *)
(* earlier run left on survives it (pick.py reach).                        *)
LEMMA ReachIsCheckedKept == IInv /\ [Next]_vars => ReachIsChecked'
<1> SUFFICES ASSUME IInv, [Next]_vars PROVE ReachIsChecked'
  OBVIOUS
<1> USE DEF IInv, ReachIsChecked, SceneIsNew, SceneTypes, Pairs, Checked, Protected, scene, robot, local
<1>1. CASE World
  BY <1>1 DEF World, Frame, Nav2Drives, Mission, Slip
<1>2. CASE StartPick \/ StartRecovery
  BY <1>2 DEF StartPick, StartRecovery, Start
<1>3. CASE Killed \/ Raise \/ NotStowed
  BY <1>3 DEF Killed, Raise, NotStowed, Return, Finish
<1>4. CASE HoldNav2 \/ Margin \/ FreezeForFold \/ FoldForView \/ Thaw \/ Perceive
  BY <1>4 DEF HoldNav2, Margin, FreezeForFold, FoldForView, Thaw, Perceive, Goto, Fold, Modes, Kinds
<1>5. CASE OpenForGrasp \/ ClearForBox \/ ApplyBox \/ Watch \/ Rebuild \/ CheckMap \/ Freeze
  BY <1>5 DEF OpenForGrasp, ClearForBox, ApplyBox, Watch, Rebuild, CheckMap, Freeze, Goto, OpenHand
<1>6. CASE ReachPregrasp \/ MoveIn \/ PalmThere \/ Correct \/ Close \/ Gap
  BY <1>6 DEF ReachPregrasp, MoveIn, PalmThere, Correct, Close, Gap, Goto, OpenHand, Protected, Checked, Finish
<1>7. CASE Lift \/ LookLifted \/ Dwell \/ LookAgain \/ LastContact \/ StopRelay
  BY <1>7 DEF Lift, LookLifted, Dwell, LookAgain, LastContact, StopRelay, Goto, Risen, Finish, Contact, Return
<1>8. CASE RecoverStep
  BY <1>8 DEF RecoverStep, RecoverHand, Forget, Retreat, Home, Direct, Resume, OpenHand, Goto, Fold, Return
<1>9. CASE UNCHANGED vars
  BY <1>9 DEF vars
<1> QED
  BY <1>1, <1>2, <1>3, <1>4, <1>5, <1>6, <1>7, <1>8, <1>9 DEF Next, PickStep

(* Only a watch or the end of a fold turns the relay on, and Freeze comes  *)
(* after the last watch.                                                   *)
LEMMA FrozenWhileMovingKept == IInv /\ [Next]_vars => FrozenWhileMoving'
<1> SUFFICES ASSUME IInv, [Next]_vars PROVE FrozenWhileMoving'
  OBVIOUS
<1> USE DEF IInv, FrozenWhileMoving, scene, robot, local
<1>1. CASE World
  BY <1>1 DEF World, Frame, Nav2Drives, Mission, Slip
<1>2. CASE StartPick \/ StartRecovery
  BY <1>2 DEF StartPick, StartRecovery, Start
<1>3. CASE Killed \/ Raise \/ NotStowed
  BY <1>3 DEF Killed, Raise, NotStowed, Return, Finish
<1>4. CASE HoldNav2 \/ Margin \/ FreezeForFold \/ FoldForView \/ Thaw \/ Perceive
  BY <1>4 DEF HoldNav2, Margin, FreezeForFold, FoldForView, Thaw, Perceive, Goto, Fold, Modes, Kinds
<1>5. CASE OpenForGrasp \/ ClearForBox \/ ApplyBox \/ Watch \/ Rebuild \/ CheckMap \/ Freeze
  BY <1>5 DEF OpenForGrasp, ClearForBox, ApplyBox, Watch, Rebuild, CheckMap, Freeze, Goto, OpenHand
<1>6. CASE ReachPregrasp \/ MoveIn \/ PalmThere \/ Correct \/ Close \/ Gap
  BY <1>6 DEF ReachPregrasp, MoveIn, PalmThere, Correct, Close, Gap, Goto, OpenHand, Protected, Checked, Finish
<1>7. CASE Lift \/ LookLifted \/ Dwell \/ LookAgain \/ LastContact \/ StopRelay
  BY <1>7 DEF Lift, LookLifted, Dwell, LookAgain, LastContact, StopRelay, Goto, Risen, Finish, Contact, Return
<1>8. CASE RecoverStep
  BY <1>8 DEF RecoverStep, RecoverHand, Forget, Retreat, Home, Direct, Resume, OpenHand, Goto, Fold, Return
<1>9. CASE UNCHANGED vars
  BY <1>9 DEF vars
<1> QED
  BY <1>1, <1>2, <1>3, <1>4, <1>5, <1>6, <1>7, <1>8, <1>9 DEF Next, PickStep

(* The palm is measured before Close, and a Nav2 that was seen is paused,  *)
(* so nothing moves it in between (pick.py grasp).                         *)
LEMMA ClosesAtTheGraspKept == IInv /\ [Next]_vars => ClosesAtTheGrasp'
<1> SUFFICES ASSUME IInv, [Next]_vars PROVE ClosesAtTheGrasp'
  OBVIOUS
<1> USE DEF IInv, ClosesAtTheGrasp, NavIsHeld, InPick, Places, InRecovery, scene, robot, local
<1>1. CASE World
  BY <1>1 DEF World, Frame, Nav2Drives, Mission, Slip
<1>2. CASE StartPick \/ StartRecovery
  BY <1>2 DEF StartPick, StartRecovery, Start
<1>3. CASE Killed \/ Raise \/ NotStowed
  BY <1>3 DEF Killed, Raise, NotStowed, Return, Finish
<1>4. CASE HoldNav2 \/ Margin \/ FreezeForFold \/ FoldForView \/ Thaw \/ Perceive
  BY <1>4 DEF HoldNav2, Margin, FreezeForFold, FoldForView, Thaw, Perceive, Goto, Fold, Modes, Kinds
<1>5. CASE OpenForGrasp \/ ClearForBox \/ ApplyBox \/ Watch \/ Rebuild \/ CheckMap \/ Freeze
  BY <1>5 DEF OpenForGrasp, ClearForBox, ApplyBox, Watch, Rebuild, CheckMap, Freeze, Goto, OpenHand
<1>6. CASE ReachPregrasp \/ MoveIn \/ PalmThere \/ Correct \/ Close \/ Gap
  BY <1>6 DEF ReachPregrasp, MoveIn, PalmThere, Correct, Close, Gap, Goto, OpenHand, Protected, Checked, Finish
<1>7. CASE Lift \/ LookLifted \/ Dwell \/ LookAgain \/ LastContact \/ StopRelay
  BY <1>7 DEF Lift, LookLifted, Dwell, LookAgain, LastContact, StopRelay, Goto, Risen, Finish, Contact, Return
<1>8. CASE RecoverStep
  BY <1>8 DEF RecoverStep, RecoverHand, Forget, Retreat, Home, Direct, Resume, OpenHand, Goto, Fold, Return
<1>9. CASE UNCHANGED vars
  BY <1>9 DEF vars
<1> QED
  BY <1>1, <1>2, <1>3, <1>4, <1>5, <1>6, <1>7, <1>8, <1>9 DEF Next, PickStep

(* The state that the programs start in, the relay's parameter at its      *)
(* default, is one of those that IInv describes.                           *)
LEMMA InitHolds == Init => IInv
<1> USE PickSequenceAssumption DEF Init, PickSequenceAssumption
<1>1. Init => SceneTypes
  BY DEF SceneTypes, Pairs
<1>2. Init => RobotTypes
  BY DEF RobotTypes
<1>3. Init => LocalTypes
  BY DEF LocalTypes
<1>4. Init => Counts
  BY DEF Counts
<1>5. Init => Places /\ SceneIsNew /\ NavIsHeld /\ LiftIsTold
  BY DEF Places, SceneIsNew, NavIsHeld, LiftIsTold, InPick, InRecovery
<1>6. Init => ReachIsChecked /\ FrozenWhileMoving /\ ClosesAtTheGrasp
  BY DEF ReachIsChecked, FrozenWhileMoving, ClosesAtTheGrasp
<1> QED
  BY <1>1, <1>2, <1>3, <1>4, <1>5, <1>6 DEF IInv

(* No step of a run, of the world or of the mission between two runs leads *)
(* out of IInv.                                                            *)
LEMMA StepKeeps == IInv /\ [Next]_vars => IInv'
<1> SUFFICES ASSUME IInv, [Next]_vars PROVE IInv'
  OBVIOUS
<1>1. SceneTypes' /\ RobotTypes' /\ LocalTypes' /\ Counts'
  BY SceneTypesKept, RobotTypesKept, LocalTypesKept, CountsKept
<1>2. Places' /\ SceneIsNew' /\ NavIsHeld' /\ LiftIsTold'
  BY PlacesKept, SceneIsNewKept, NavIsHeldKept, LiftIsToldKept
<1>3. ReachIsChecked' /\ FrozenWhileMoving' /\ ClosesAtTheGrasp'
  BY ReachIsCheckedKept, FrozenWhileMovingKept, ClosesAtTheGraspKept
<1> QED
  BY <1>1, <1>2, <1>3 DEF IInv

(* IInv holds of every state of every sequence of picks and recoveries. *)
LEMMA PicksKeepIInv == Spec => []IInv
<1> QED
  BY InitHolds, StepKeeps, PTL DEF Spec

(* The state of the picks and recoveries, and of what they leave, is of    *)
(* its type for any number of runs.                                        *)
THEOREM PickTypeCorrect == Spec => []TypeOK
<1>1. IInv => TypeOK
  BY DEF IInv, SceneTypes, RobotTypes, LocalTypes, Counts, Places, TypeOK
<1> QED
  BY <1>1, PicksKeepIInv, PTL

(* However many picks and recoveries came before, and wherever they were   *)
(* killed, reach goes to a pregrasp with the checks on, nothing attached   *)
(* and a map built around this target's box (pick.py reach, model_target). *)
THEOREM ReachIsAlwaysChecked == Spec => []ReachIsChecked
<1>1. IInv => ReachIsChecked
  BY DEF IInv
<1> QED
  BY <1>1, PicksKeepIInv, PTL

(* No depth frame reaches the map while a pick moves the arm or the hand,  *)
(* whatever an earlier run, killed with the relay on, left (pick.py        *)
(* set_depth_relay, clear_observation_pose, model_target).                 *)
THEOREM MapIsFrozen == Spec => []FrozenWhileMoving
<1>1. IInv => FrozenWhileMoving
  BY DEF IInv
<1> QED
  BY <1>1, PicksKeepIInv, PTL

(* The hand closes where the palm was measured, whatever Nav2 was doing    *)
(* when the pick began, if discovery showed it (pick.py hold_nav2, grasp). *)
THEOREM GraspIsAtTheTarget == Spec => []ClosesAtTheGrasp
<1>1. IInv => ClosesAtTheGrasp
  BY DEF IInv
<1> QED
  BY <1>1, PicksKeepIInv, PTL

(* A run says 'picked' only with the object up and attached, though it may *)
(* slip at every moment before (pick.py verify_object_lift,                *)
(* contact_state).                                                         *)
THEOREM PickedIsLifted == Spec => PickedMeansLifted
<1> DEFINE Told == outcome' = "picked" /\ outcome # "picked" => object' = "lifted" /\ attached'
<1>1. IInv /\ [Next]_vars => [Told]_vars
  <2> SUFFICES ASSUME IInv, [Next]_vars PROVE Told
    OBVIOUS
  <2> USE DEF scene, robot, local
  <2>1. CASE LastContact
    BY <2>1 DEF LastContact, Contact, Finish, IInv, LiftIsTold
  <2>2. CASE World
    BY <2>2 DEF World, Frame, Nav2Drives, Mission, Slip
  <2>3. CASE StartPick \/ StartRecovery
    BY <2>3 DEF StartPick, StartRecovery, Start
  <2>4. CASE Killed \/ Raise \/ NotStowed
    BY <2>4 DEF Killed, Raise, NotStowed, Return, Finish
  <2>5. CASE HoldNav2 \/ Margin \/ FreezeForFold \/ FoldForView \/ Thaw \/ Perceive
    BY <2>5 DEF HoldNav2, Margin, FreezeForFold, FoldForView, Thaw, Perceive, Goto, Fold, Modes, Kinds
  <2>6. CASE OpenForGrasp \/ ClearForBox \/ ApplyBox \/ Watch \/ Rebuild \/ CheckMap \/ Freeze
    BY <2>6 DEF OpenForGrasp, ClearForBox, ApplyBox, Watch, Rebuild, CheckMap, Freeze, Goto, OpenHand
  <2>7. CASE ReachPregrasp \/ MoveIn \/ PalmThere \/ Correct \/ Close \/ Gap
    BY <2>7 DEF ReachPregrasp, MoveIn, PalmThere, Correct, Close, Gap, Goto, OpenHand, Protected, Checked, Finish
  <2>8. CASE Lift \/ LookLifted \/ Dwell \/ LookAgain \/ StopRelay
    BY <2>8 DEF Lift, LookLifted, Dwell, LookAgain, StopRelay, Goto, Risen, Finish, Return
  <2>9. CASE RecoverStep
    BY <2>9 DEF RecoverStep, RecoverHand, Forget, Retreat, Home, Direct, Resume, OpenHand, Goto, Fold, Return
  <2>10. CASE UNCHANGED vars
    BY <2>10 DEF vars
  <2> QED
    BY <2>1, <2>2, <2>3, <2>4, <2>5, <2>6, <2>7, <2>8, <2>9, <2>10 DEF Next, PickStep
<1> QED
  BY <1>1, PicksKeepIInv, PTL DEF Spec, PickedMeansLifted
=============================================================================
