--------------------------- MODULE MissionProofs ---------------------------
(***************************************************************************)
(* Proofs about Mission, for every set of nodes and every bound.           *)
(***************************************************************************)
EXTENDS Mission, SequenceTheorems, TLAPS

----------------------------------------------------------------------------
\* The tree of every accepted combination of flags is a non-empty sequence of
\* steps: mission_steps never builds an empty mission.
LEMMA TreeType == \A f \in Flags : Tree(f) \in Seq(StepNames) /\ Tree(f) # <<>>
<1> SUFFICES ASSUME NEW f \in Flags
             PROVE  Tree(f) \in Seq(StepNames) /\ Tree(f) # <<>>
  OBVIOUS
<1> DEFINE s == <<"Home arm", "Ready", "Home head", "Find target">>
           e == IF f.active_perception THEN <<"Explore views">> ELSE <<>>
           p == <<"Park", "Pause Nav2">>
           g == IF f.grasp THEN <<"Pick">> ELSE <<>>
<1>1. s \in Seq(StepNames) /\ Len(s) = 4
  BY DEF StepNames
<1>2. p \in Seq(StepNames)
  BY DEF StepNames
<1>3. e \in Seq(StepNames)
  <2>1. CASE f.active_perception
    <3>1. <<"Explore views">> \in Seq(StepNames)
      BY DEF StepNames
    <3> QED BY <2>1, <3>1
  <2>2. CASE ~f.active_perception
    BY <2>2
  <2> QED BY <2>1, <2>2
<1>4. g \in Seq(StepNames)
  <2>1. CASE f.grasp
    <3>1. <<"Pick">> \in Seq(StepNames)
      BY DEF StepNames
    <3> QED BY <2>1, <3>1
  <2>2. CASE ~f.grasp
    BY <2>2
  <2> QED BY <2>1, <2>2
<1>5. s \o e \o p \o g \in Seq(StepNames) /\ Len(s \o e \o p \o g) # 0
  <2> HIDE DEF s, e, p, g
  <2>1. s \o e \in Seq(StepNames) /\ Len(s \o e) = Len(s) + Len(e)
    BY <1>1, <1>3, ConcatProperties
  <2>2. s \o e \o p \in Seq(StepNames) /\ Len(s \o e \o p) = Len(s) + Len(e) + Len(p)
    BY <2>1, <1>2, ConcatProperties
  <2>3. /\ s \o e \o p \o g \in Seq(StepNames)
        /\ Len(s \o e \o p \o g) = Len(s) + Len(e) + Len(p) + Len(g)
    BY <2>2, <1>4, ConcatProperties
  <2>4. Len(e) \in Nat /\ Len(p) \in Nat /\ Len(g) \in Nat
    BY <1>2, <1>3, <1>4, LenProperties
  <2> QED BY <1>1, <2>3, <2>4
<1>6. CASE f.nav /\ ~f.navigate_only
  <2>1. Tree(f) = s \o e \o p \o g
    BY <1>6, ConcatAssociative, <1>1, <1>2, <1>3, <1>4 DEF Tree
  <2> HIDE DEF s, e, p, g
  <2> QED BY <2>1, <1>5
<1>7. CASE f.nav /\ f.navigate_only
  <2> DEFINE t == <<"Home arm", "Ready", "Home head", "Choose location", "Go there">>
  <2>1. Tree(f) = t
    BY <1>7 DEF Tree
  <2>2. t \in Seq(StepNames) /\ Len(t) = 5
    BY DEF StepNames
  <2> HIDE DEF t
  <2> QED BY <2>1, <2>2
<1>8. CASE ~f.nav
  <2> DEFINE t == <<"Home arm", "Ready", "Pick">>
  <2>1. Tree(f) = t
    BY <1>8 DEF Tree
  <2>2. t \in Seq(StepNames) /\ Len(t) = 3
    BY DEF StepNames
  <2> HIDE DEF t
  <2> QED BY <2>1, <2>2
<1> QED BY <1>6, <1>7, <1>8

\* The recovery is a run of one step.
LEMMA RecoverType == <<"Recover">> \in Seq(StepNames) /\ <<"Recover">> # <<>>
<1>1. <<"Recover">> \in Seq(StepNames)
  BY DEF StepNames
<1>2. <<"Recover">> # <<>>
  OBVIOUS
<1> QED BY <1>1, <1>2

\* A counter below its bound may be incremented.
LEMMA CountUp == \A n \in Nat : \A d \in 0..n : d < n => d + 1 \in 0..n
OBVIOUS

\* The only request of an idle manager's queue.
LEMMA AppendEmpty == ASSUME NEW e PROVE Append(<<>>, e) = <<e>>
OBVIOUS

----------------------------------------------------------------------------
\* Types.

\* A request queued at the manager keeps the types of Nav2.
LEMMA RequestType ==
  ASSUME Nav2TypeOK, NEW who \in Clients, NEW c \in Commands, Request(who, c)
  PROVE  Nav2TypeOK'
<1>1. [cmd |-> c, by |-> who] \in Requests
  BY DEF Requests, Callers
<1>2. cmds' \in Seq(Requests)
  BY <1>1, AppendProperties DEF Request, Nav2TypeOK
<1>3. answer' \in [Clients -> {"none", "ok", "refused"}]
  BY DEF Request, Nav2TypeOK
<1> QED BY <1>2, <1>3 DEF Request, Nav2TypeOK

\* So does a caller that gives up on its request.
LEMMA AbandonType ==
  ASSUME Nav2TypeOK, NEW who \in Clients, Abandon(who),
         lc' = lc, driving' \in BOOLEAN
  PROVE  Nav2TypeOK'
<1>1. \A r \in Requests : Orphan(r, who) \in Requests
  BY DEF Orphan, Requests, Callers
<1>2. cmds' \in Seq(Requests)
  BY <1>1 DEF Abandon, Nav2TypeOK
<1>3. cur' \in [cmd : Commands \cup {"none"}, by : Callers, todo : SUBSET Nodes]
  BY DEF Abandon, Orphan, Callers, Nav2TypeOK
<1>4. answer' \in [Clients -> {"none", "ok", "refused"}]
  BY DEF Abandon, Nav2TypeOK
<1> QED BY <1>2, <1>3, <1>4 DEF Nav2TypeOK

\* And so does every step of Nav2 itself.
LEMMA Nav2NextType ==
  ASSUME Nav2TypeOK, Nav2Next
  PROVE  Nav2TypeOK'
<1>1. CASE Begin
  <2>1. Head(cmds) \in Requests /\ Tail(cmds) \in Seq(Requests)
    BY <1>1, HeadTailProperties DEF Begin, Nav2TypeOK
  <2> QED BY <1>1, <2>1 DEF Begin, Nav2TypeOK, Requests
<1>2. ASSUME NEW n \in Nodes, ChangeNode(n)
      PROVE  Nav2TypeOK'
  BY <1>2 DEF ChangeNode, Nav2TypeOK, To
<1>3. ASSUME NEW v \in {"ok", "refused"}, Reply(v)
      PROVE  Nav2TypeOK'
  <2>1. cur' \in [cmd : Commands \cup {"none"}, by : Callers, todo : SUBSET Nodes]
    BY <1>3 DEF Reply, NoCmd, Callers
  <2>2. answer' \in [Clients -> {"none", "ok", "refused"}]
    BY <1>3 DEF Reply, Nav2TypeOK
  <2> QED BY <1>3, <2>1, <2>2 DEF Reply, Nav2TypeOK
<1>4. CASE StrayGoal \/ GoalEnds
  BY <1>4 DEF StrayGoal, GoalEnds, Nav2TypeOK
<1> QED BY <1>1, <1>2, <1>3, <1>4 DEF Nav2Next, Manager, Refuse, Complete

\* However a step goes on, the run keeps its type.
LEMMA StepType ==
  ASSUME RunTypeOK, at # "idle",
         \/ \E p \in Places \ {"idle"} : GoTo(p)
         \/ \E v \in {0, 1, 2, 3, 4, Interrupted} : Finish(v)
         \/ Succeed
  PROVE  RunTypeOK'
<1>1. ASSUME NEW p \in Places \ {"idle"}, GoTo(p)
      PROVE  RunTypeOK'
  BY <1>1 DEF GoTo, RunTypeOK
<1>2. ASSUME NEW v \in {0, 1, 2, 3, 4, Interrupted}, Finish(v)
      PROVE  RunTypeOK'
  <2>1. left' \in Seq(StepNames) /\ (left' = <<>> <=> at' = "idle")
    BY <1>2 DEF Finish
  <2>2. drives' \in 0..MaxDrives
    BY <1>2, MissionAssumption DEF Finish
  <2>3. nav' \in BOOLEAN /\ at' \in Places /\ sigint' \in BOOLEAN
    BY <1>2 DEF Finish, RunTypeOK, Places
  <2>4. code' \in {0, 1, 2, 3, 4, Interrupted}
    BY <1>2 DEF Finish
  <2> QED BY <2>1, <2>2, <2>3, <2>4 DEF RunTypeOK
<1>3. CASE Succeed
  <2>1. CASE Len(left) = 1
    BY <1>2, <1>3, <2>1 DEF Succeed
  <2>2. CASE Len(left) # 1
    <3>1. left \in Seq(StepNames) /\ left # <<>>
      BY DEF RunTypeOK
    <3>2. Tail(left) \in Seq(StepNames) /\ Len(Tail(left)) = Len(left) - 1
      BY <3>1, HeadTailProperties
    <3>3. Len(left) \in Nat \ {0}
      BY <3>1, EmptySeq
    <3>4. Tail(left) # <<>>
      <4>1. Len(Tail(left)) # 0
        BY <3>2, <3>3, <2>2
      <4>2. Len(<<>>) = 0
        BY EmptySeq
      <4> QED BY <4>1, <4>2, Zenon
    <3>5. left' = Tail(left) /\ at' = "enter" /\ drives' = 0 /\ UNCHANGED <<nav, code, sigint>>
      BY <1>3, <2>2 DEF Succeed
    <3>6. drives' \in 0..MaxDrives
      BY <3>5, MissionAssumption
    <3>7. left' \in Seq(StepNames) /\ (left' = <<>> <=> at' = "idle")
      BY <3>2, <3>4, <3>5
    <3> QED BY <3>5, <3>6, <3>7 DEF RunTypeOK, Places
  <2> QED BY <2>1, <2>2
<1> QED BY <1>1, <1>2, <1>3

\* A handoff's failure ends the run.
LEMMA HandoffFailsFinishes ==
  ASSUME HandoffFails
  PROVE  \E v \in {0, 1, 2, 3, 4, Interrupted} : Finish(v)
BY DEF HandoffFails, Fail, Raise, ExitCode

\* A step that fails or raises ends the run, with a code of its own.
LEMMA FailFinishes ==
  ASSUME Fail \/ Raise
  PROVE  \E v \in {0, 1, 2, 3, 4, Interrupted} : Finish(v)
BY DEF Fail, Raise, ExitCode

\* Every disjunct of Next keeps the types.
LEMMA TypeStep == TypeOK /\ [Next]_vars => TypeOK'
<1> SUFFICES ASSUME TypeOK, [Next]_vars
             PROVE  TypeOK'
  OBVIOUS
<1> USE DEF TypeOK
<1> DEFINE Onward == \/ \E p \in Places \ {"idle"} : GoTo(p)
                     \/ \E v \in {0, 1, 2, 3, 4, Interrupted} : Finish(v)
                     \/ Succeed
<1>1. ASSUME at # "idle", Onward
      PROVE  RunTypeOK'
  BY <1>1, StepType
<1>2. ASSUME UNCHANGED nav2
      PROVE  Nav2TypeOK'
  BY <1>2 DEF nav2, Nav2TypeOK
<1>3. ASSUME UNCHANGED run
      PROVE  RunTypeOK'
  BY <1>3 DEF run, RunTypeOK
<1>4. CASE RunStep
  <2> others' \in {"none", "waiting", "carried out"}
    BY <1>4 DEF RunStep
  <2>1. CASE Interrupt
    <3>1. Onward
      BY <2>1, FailFinishes DEF Interrupt
    <3> QED BY <2>1, <3>1, <1>1, AbandonType, MissionAssumption DEF Interrupt, Nav2TypeOK
  <2>2. CASE Resumed
    <3>1. Onward /\ at # "idle"
      BY <2>2 DEF Resumed, AfterResume, Places
    <3> QED BY <2>2, <3>1, <1>1, <1>2 DEF Resumed
  <2>3. CASE Paused
    <3>1. Onward /\ at # "idle"
      BY <2>3, HandoffFailsFinishes DEF Paused, AfterPause, Places
    <3> QED BY <2>3, <3>1, <1>1, <1>2 DEF Paused
  <2>4. CASE HandoffRefused
    <3>1. Onward /\ at # "idle"
      BY <2>4, HandoffFailsFinishes DEF HandoffRefused
    <3> QED BY <2>4, <3>1, <1>1, <1>2 DEF HandoffRefused
  <2>5. CASE HandoffTimesOut
    <3>1. Onward /\ at # "idle"
      BY <2>5, HandoffFailsFinishes DEF HandoffTimesOut
    <3> QED BY <2>5, <3>1, <1>1, AbandonType, MissionAssumption DEF HandoffTimesOut, Nav2TypeOK
  <2>6. CASE SimpleStep \/ WaitActive \/ WorkEnds \/ PickEnds
    <3>1. Onward /\ at # "idle" /\ UNCHANGED <<nav2, button>>
      BY <2>6, FailFinishes DEF SimpleStep, WaitActive, WorkEnds, PickEnds
    <3> QED BY <3>1, <1>1, <1>2
  <2>7. ASSUME NEW next, ResumeIfPaused(next), next => Onward, at # "idle", UNCHANGED button
        PROVE  TypeOK'
    <3>1. CASE UNCHANGED nav2 /\ next
      BY <2>7, <3>1, <1>1, <1>2
    <3>2. CASE Request("run", "RESUME") /\ GoTo("resuming")
      <4>1. Onward
        BY <3>2 DEF Places
      <4> QED BY <2>7, <3>2, <4>1, <1>1, RequestType, MissionAssumption DEF Commands
    <3> QED BY <2>7, <3>1, <3>2 DEF ResumeIfPaused
  <2>8. CASE Ready
    <3>1. CASE Raise /\ UNCHANGED nav2
      BY <2>8, <3>1, FailFinishes, <1>1, <1>2 DEF Ready, AtStep
    <3>2. CASE ResumeIfPaused(GoTo("wait active"))
      BY <2>8, <3>2, <2>7 DEF Ready, AtStep, Places
    <3> QED BY <2>8, <3>1, <3>2 DEF Ready
  <2>9. CASE EnterDriveStep
    <3>1. CASE GoTo("work") /\ UNCHANGED nav2
      BY <2>9, <3>1, <1>1, <1>2 DEF EnterDriveStep, Places
    <3>2. CASE ResumeIfPaused(GoTo("work"))
      BY <2>9, <3>2, <2>7 DEF EnterDriveStep, Places
    <3>3. CASE Raise /\ UNCHANGED nav2
      BY <2>9, <3>3, FailFinishes, <1>1, <1>2 DEF EnterDriveStep
    <3> QED BY <2>9, <3>1, <3>2, <3>3 DEF EnterDriveStep
  <2>10. CASE Drive
    <3>1. drives' \in 0..MaxDrives
      <4>1. drives' = drives + 1 /\ drives < MaxDrives
        BY <2>10 DEF Drive
      <4>2. drives \in 0..MaxDrives
        BY DEF RunTypeOK
      <4>3. MaxDrives \in Nat
        BY MissionAssumption
      <4>4. drives + 1 \in 0..MaxDrives
        BY <4>1, <4>2, <4>3, CountUp
      <4> QED BY <4>1, <4>4
    <3>2. at' \in {"work", "driving"} /\ at = "work"
      BY <2>10 DEF Drive
    <3>3. UNCHANGED <<left, nav, code, sigint>>
      BY <2>10 DEF Drive
    <3>4. RunTypeOK'
      BY <3>1, <3>2, <3>3 DEF RunTypeOK, Places
    <3>5. Nav2TypeOK'
      BY <2>10 DEF Drive, Nav2TypeOK
    <3> QED BY <2>10, <3>4, <3>5 DEF Drive
  <2>11. CASE DriveReturns
    <3>1. Onward /\ at # "idle"
      BY <2>11, FailFinishes DEF DriveReturns, Places
    <3>2. Nav2TypeOK'
      BY <2>11 DEF DriveReturns, Nav2TypeOK
    <3> QED BY <2>11, <3>1, <3>2, <1>1 DEF DriveReturns
  <2>12. CASE PauseNav2
    <3>1. Onward
      BY <2>12 DEF PauseNav2, Places
    <3> QED BY <2>12, <3>1, <1>1, RequestType, MissionAssumption DEF PauseNav2, AtStep, Commands
  <2>13. CASE HoldNav2
    <3>1. Onward /\ at # "idle"
      BY <2>13, FailFinishes DEF HoldNav2, AtStep, Places
    <3>2. Nav2TypeOK'
      BY <2>13, <1>2, RequestType, MissionAssumption DEF HoldNav2, Commands
    <3> QED BY <2>13, <3>1, <3>2, <1>1 DEF HoldNav2
  <2>14. CASE RecoverStarts
    <3>1. Onward /\ at # "idle"
      BY <2>14 DEF RecoverStarts, AtStep, Places
    <3> QED BY <2>14, <3>1, <1>1, <1>2 DEF RecoverStarts
  <2>15. CASE RecoverFolds
    <3>1. CASE (Finish(0) \/ Finish(1)) /\ UNCHANGED nav2
      BY <2>15, <3>1, <1>1, <1>2 DEF RecoverFolds
    <3>2. CASE ResumeIfPaused(Finish(0))
      BY <2>15, <3>2, <2>7 DEF RecoverFolds
    <3> QED BY <2>15, <3>1, <3>2 DEF RecoverFolds
  <2> QED BY <1>4, <2>1, <2>2, <2>3, <2>4, <2>5, <2>6, <2>8, <2>9, <2>10, <2>11, <2>12, <2>13,
             <2>14, <2>15 DEF RunStep, RunAction
<1>5. CASE ButtonStep
  <2> UNCHANGED others
    BY <1>5 DEF ButtonStep
  <2>1. CASE RunGone \/ ButtonRefused \/ Answered
    BY <2>1, <1>2, <1>3 DEF RunGone, ButtonRefused, Answered
  <2>2. CASE AskTimesOut
    BY <2>2, <1>3, AbandonType, MissionAssumption DEF AskTimesOut, Nav2TypeOK
  <2>3. ASSUME NEW c \in Commands, AskNav2(c)
        PROVE  TypeOK'
    BY <2>3, <1>3, RequestType, MissionAssumption DEF AskNav2
  <2> QED BY <1>5, <2>1, <2>2, <2>3 DEF ButtonStep
<1>6. CASE Operator
  <2>1. CASE StartMission
    <3>1. PICK f \in Flags : left' = Tree(f) /\ nav' = f.nav
      BY <2>1 DEF StartMission
    <3>2. RunTypeOK'
      BY <2>1, <3>1, TreeType DEF StartMission, BeginRun, RunTypeOK, Places, Flags
    <3> QED BY <2>1, <3>2, <1>2 DEF StartMission, BeginRun
  <2>2. CASE StartRecover
    <3>1. left' \in Seq(StepNames) /\ left' # <<>>
      BY <2>2, RecoverType DEF StartRecover
    <3> QED BY <2>2, <3>1, <1>2 DEF StartRecover, BeginRun, RunTypeOK, Places
  <2>3. CASE Stop
    BY <2>3, <1>2 DEF Stop, RunTypeOK
  <2>4. CASE ButtonPressed
    BY <2>4, <1>2 DEF ButtonPressed, RunTypeOK
  <2> QED BY <1>6, <2>1, <2>2, <2>3, <2>4 DEF Operator
<1>7. CASE Nav2Step
  BY <1>7, <1>3, Nav2NextType DEF Nav2Step
<1>8. CASE UNCHANGED vars
  BY <1>8, <1>2, <1>3 DEF vars
<1> QED BY <1>4, <1>5, <1>6, <1>7, <1>8 DEF Next

\* The types hold before anybody has done anything.
LEMMA InitType == Init => TypeOK
<1> SUFFICES ASSUME Init PROVE TypeOK
  OBVIOUS
<1>1. cmds \in Seq(Requests) /\ left \in Seq(StepNames)
  BY EmptySeq DEF Init, Nav2Init
<1>2. drives \in 0..MaxDrives
  BY MissionAssumption DEF Init
<1>3. cur \in [cmd : Commands \cup {"none"}, by : Callers, todo : SUBSET Nodes]
  BY DEF Init, Nav2Init, NoCmd, Callers
<1>4. Nav2TypeOK
  BY <1>1, <1>3 DEF Init, Nav2Init, Nav2TypeOK
<1>5. RunTypeOK
  BY <1>1, <1>2 DEF Init, RunTypeOK, Places
<1> QED BY <1>4, <1>5 DEF TypeOK, Init

\* Every variable keeps its type for every set of nodes and every bound.
THEOREM TypeCorrect == Spec => []TypeOK
<1>1. Init => TypeOK
  BY InitType
<1>2. TypeOK /\ [Next]_vars => TypeOK'
  BY TypeStep
<1> QED BY <1>1, <1>2, PTL DEF Spec

----------------------------------------------------------------------------
\* The lifecycle manager keeps its nodes in order whatever is asked of it.

\* A new request waits: it changes no node and no command under way.
LEMMA RequestInOrder ==
  ASSUME Nav2InOrder, NEW who, NEW c, Request(who, c)
  PROVE  Nav2InOrder'
BY DEF Nav2InOrder, ControllerTells, CommandInOrder, GoalNeedsController, Request, Idle

\* Giving up on a request takes nothing away from what the manager is doing.
LEMMA AbandonInOrder ==
  ASSUME Nav2TypeOK, Nav2InOrder, NEW who \in Clients, Abandon(who),
         lc' = lc, driving' \in {FALSE, driving}
  PROVE  Nav2InOrder'
<1>1. cur'.cmd = cur.cmd /\ cur'.todo = cur.todo
  BY DEF Abandon, Orphan, Nav2TypeOK
<1>2. Idle' => cur' = NoCmd
  <2> SUFFICES ASSUME Idle' PROVE cur' = NoCmd
    OBVIOUS
  <2>1. cur = NoCmd
    BY <1>1 DEF Idle, Nav2InOrder, CommandInOrder
  <2>2. cur.by # who
    BY <2>1, NodesAssumption DEF NoCmd
  <2> QED BY <2>1, <2>2 DEF Abandon, Orphan
<1>3. CommandInOrder'
  BY <1>1, <1>2 DEF Nav2InOrder, CommandInOrder
<1>4. ControllerTells'
  BY DEF Nav2InOrder, ControllerTells
<1>5. GoalNeedsController'
  <2>1. driving' => driving
    BY DEF Nav2TypeOK
  <2> QED BY <2>1 DEF Nav2InOrder, GoalNeedsController
<1> QED BY <1>3, <1>4, <1>5 DEF Nav2InOrder

\* The manager changes the controller first to wake, last to sleep, and refuses
\* rather than skips a node: that is what an inactive controller tells.
LEMMA Nav2NextInOrder ==
  ASSUME Nav2TypeOK, Nav2InOrder, Nav2Next
  PROVE  Nav2InOrder'
<1> USE NodesAssumption DEF Nav2InOrder
<1>1. CASE Begin
  <2>1. Head(cmds) \in Requests
    BY <1>1, HeadTailProperties DEF Begin, Nav2TypeOK
  <2> QED BY <1>1, <2>1 DEF Begin, Requests, Commands, Idle, ControllerTells, CommandInOrder,
                            GoalNeedsController
<1>2. ASSUME NEW n \in Nodes, ChangeNode(n)
      PROVE  Nav2InOrder'
  <2>1. /\ lc' = [lc EXCEPT ![n] = To(cur.cmd)]
        /\ cur' = [cur EXCEPT !.todo = @ \ {n}]
        /\ n \in cur.todo /\ cur.cmd \in Commands /\ lc[n] = From(cur.cmd)
    BY <1>2 DEF ChangeNode, Idle, Nav2TypeOK
  <2>2. cur'.cmd = cur.cmd /\ cur'.todo = cur.todo \ {n}
    BY <2>1 DEF Nav2TypeOK
  <2>3. CASE cur.cmd = "PAUSE"
    <3>1. lc[n] = "active" /\ lc' = [lc EXCEPT ![n] = "inactive"]
      BY <2>1, <2>3 DEF From, To
    <3>2. n = Controller => cur.todo = {Controller}
      BY <1>2, <2>3 DEF ChangeNode, InOrder
    <3>3. CommandInOrder'
      BY <2>2, <2>3, <3>1, <3>2 DEF CommandInOrder, Nav2TypeOK, Idle
    <3>4. ControllerTells'
      BY <2>1, <2>3, <3>1, <3>2 DEF CommandInOrder, ControllerTells, Nav2TypeOK
    <3>5. GoalNeedsController'
      BY <1>2, <2>3, <3>1 DEF ChangeNode, GoalNeedsController, Nav2TypeOK
    <3> QED BY <3>3, <3>4, <3>5
  <2>4. CASE cur.cmd = "RESUME"
    <3>1. lc[n] = "inactive" /\ lc' = [lc EXCEPT ![n] = "active"]
      BY <2>1, <2>4 DEF From, To
    <3>2. cur.todo = Nodes => n = Controller
      BY <1>2, <2>4 DEF ChangeNode, InOrder
    <3>3. CommandInOrder'
      BY <2>1, <2>2, <2>4, <3>1, <3>2 DEF CommandInOrder, Nav2TypeOK, Idle
    <3>4. ControllerTells'
      BY <2>1, <2>4, <3>1, <3>2 DEF CommandInOrder, ControllerTells, Nav2TypeOK
    <3>5. GoalNeedsController'
      BY <1>2, <2>4, <3>1 DEF ChangeNode, GoalNeedsController, Nav2TypeOK
    <3> QED BY <3>3, <3>4, <3>5
  <2> QED BY <2>1, <2>3, <2>4 DEF Commands
<1>3. ASSUME NEW v, Reply(v)
      PROVE  Nav2InOrder'
  BY <1>3 DEF Reply, NoCmd, Idle, ControllerTells, CommandInOrder, GoalNeedsController
<1>4. CASE StrayGoal
  BY <1>4 DEF StrayGoal, MotionPaused, ControllerTells, CommandInOrder, GoalNeedsController,
              Nav2TypeOK, Idle
<1>5. CASE GoalEnds
  BY <1>5 DEF GoalEnds, ControllerTells, CommandInOrder, GoalNeedsController, Idle
<1> QED BY <1>1, <1>2, <1>3, <1>4, <1>5 DEF Nav2Next, Manager, Refuse, Complete

\* Whatever the run, the buttons and the manager do, the nodes stay in order.
LEMMA StepInOrder == TypeOK /\ Nav2InOrder /\ [Next]_vars => Nav2InOrder'
<1> SUFFICES ASSUME TypeOK, Nav2InOrder, [Next]_vars
             PROVE  Nav2InOrder'
  OBVIOUS
<1>1. ASSUME UNCHANGED nav2
      PROVE  Nav2InOrder'
  BY <1>1 DEF nav2, Nav2InOrder, ControllerTells, CommandInOrder, GoalNeedsController, Idle
<1>2. ASSUME UNCHANGED <<lc, cur>>, driving' => driving
      PROVE  Nav2InOrder'
  BY <1>2 DEF Nav2InOrder, ControllerTells, CommandInOrder, GoalNeedsController, Idle
<1>3. ASSUME NEW who \in Clients, Abandon(who), lc' = lc, driving' \in {FALSE, driving}
      PROVE  Nav2InOrder'
  BY <1>3, AbandonInOrder DEF TypeOK
<1>4. ASSUME NEW who, NEW c, Request(who, c)
      PROVE  Nav2InOrder'
  BY <1>4, RequestInOrder
<1>5. "run" \in Clients /\ "button" \in Clients
  BY MissionAssumption
<1>6. CASE RunStep
  <2>1. CASE Interrupt \/ HandoffTimesOut
    <3>1. Abandon("run") /\ lc' = lc /\ driving' \in {FALSE, driving}
      BY <2>1 DEF Interrupt, HandoffTimesOut
    <3> QED BY <3>1, <1>3, <1>5
  <2>2. CASE \/ Resumed \/ Paused \/ HandoffRefused \/ SimpleStep \/ WaitActive \/ WorkEnds
             \/ PickEnds \/ RecoverStarts
    BY <2>2, <1>1 DEF Resumed, Paused, HandoffRefused, SimpleStep, WaitActive, WorkEnds, PickEnds,
                      RecoverStarts
  <2>3. CASE Ready \/ EnterDriveStep \/ PauseNav2 \/ HoldNav2 \/ RecoverFolds
    BY <2>3, <1>1, <1>4 DEF Ready, EnterDriveStep, PauseNav2, HoldNav2, RecoverFolds,
                            ResumeIfPaused
  <2>4. CASE Drive
    <3>1. UNCHANGED <<lc, cur>> /\ (driving' # driving => AllActive)
      BY <2>4 DEF Drive
    <3>2. ControllerTells' /\ CommandInOrder'
      BY <3>1 DEF Nav2InOrder, ControllerTells, CommandInOrder, Idle
    <3>3. GoalNeedsController'
      BY <3>1, NodesAssumption DEF Nav2InOrder, GoalNeedsController, AllActive
    <3> QED BY <3>2, <3>3 DEF Nav2InOrder
  <2>5. CASE DriveReturns
    BY <2>5, <1>2 DEF DriveReturns
  <2> QED BY <1>6, <2>1, <2>2, <2>3, <2>4, <2>5 DEF RunStep, RunAction
<1>7. CASE ButtonStep
  <2>1. CASE RunGone \/ ButtonRefused \/ Answered
    BY <2>1, <1>1 DEF RunGone, ButtonRefused, Answered
  <2>2. CASE AskTimesOut
    BY <2>2, <1>3, <1>5 DEF AskTimesOut
  <2>3. ASSUME NEW c \in Commands, AskNav2(c)
        PROVE  Nav2InOrder'
    BY <2>3, <1>4 DEF AskNav2
  <2> QED BY <1>7, <2>1, <2>2, <2>3 DEF ButtonStep
<1>8. CASE Operator
  BY <1>8, <1>1 DEF Operator, StartMission, StartRecover, BeginRun, Stop, ButtonPressed
<1>9. CASE Nav2Step
  BY <1>9, Nav2NextInOrder DEF TypeOK, Nav2Step
<1>10. CASE UNCHANGED vars
  BY <1>10, <1>1 DEF vars
<1> QED BY <1>6, <1>7, <1>8, <1>9, <1>10 DEF Next

----------------------------------------------------------------------------
\* The order of the steps in every tree.

\* A sequence is empty when its length is 0.
LEMMA NotEmpty == \A s \in Seq(StepNames) : s # <<>> <=> Len(s) # 0
BY EmptySeq

\* Two stretches of a tree in order, joined by a step that may follow the other.
LEMMA ConcatChain ==
  ASSUME NEW n, NEW s \in Seq(StepNames), NEW t \in Seq(StepNames), Len(s) # 0,
         Chain(n, s), Chain(n, t), Len(t) # 0 => Follows(n, s[Len(s)], t[1])
  PROVE  /\ Chain(n, s \o t)
         /\ s \o t \in Seq(StepNames) /\ Len(s \o t) # 0
         /\ (s \o t)[Len(s \o t)] = IF Len(t) = 0 THEN s[Len(s)] ELSE t[Len(t)]
<1> DEFINE u == s \o t
<1>1. /\ Len(u) = Len(s) + Len(t)
      /\ \A i \in 1..(Len(s) + Len(t)) : u[i] = IF i <= Len(s) THEN s[i] ELSE t[i - Len(s)]
      /\ u \in Seq(StepNames)
  BY ConcatProperties
<1>2. Len(s) \in Nat \ {0} /\ Len(t) \in Nat
  BY LenProperties
<1> HIDE DEF u
<1>3. ASSUME NEW i \in 1..(Len(u) - 1)
      PROVE  Follows(n, u[i], u[i + 1])
  <2>1. CASE i < Len(s)
    <3>1. u[i] = s[i] /\ u[i + 1] = s[i + 1] /\ i \in 1..(Len(s) - 1)
      BY <1>1, <1>2, <2>1
    <3> QED BY <3>1 DEF Chain
  <2>2. CASE i = Len(s)
    <3>1. u[i] = s[Len(s)] /\ u[i + 1] = t[1] /\ Len(t) # 0
      BY <1>1, <1>2, <2>2
    <3> QED BY <3>1
  <2>3. CASE i > Len(s)
    <3> DEFINE j == i - Len(s)
    <3>1. u[i] = t[j] /\ u[i + 1] = t[j + 1] /\ j \in 1..(Len(t) - 1)
      BY <1>1, <1>2, <2>3
    <3> QED BY <3>1 DEF Chain
  <2> QED BY <1>1, <1>2, <2>1, <2>2, <2>3
<1>4. Len(u) # 0 /\ u[Len(u)] = IF Len(t) = 0 THEN s[Len(s)] ELSE t[Len(t)]
  BY <1>1, <1>2
<1> QED BY <1>1, <1>3, <1>4 DEF Chain, u

\* What is left after a step is in order, and its first step may follow that one.
LEMMA TailChain ==
  ASSUME NEW n, NEW s \in Seq(StepNames), Len(s) \notin {0, 1}, Chain(n, s)
  PROVE  /\ Chain(n, Tail(s))
         /\ Follows(n, Head(s), Head(Tail(s)))
<1>1. Len(s) \in Nat /\ Len(s) >= 2
  <2>1. \A k \in Nat : k \notin {0, 1} => k >= 2
    OBVIOUS
  <2>2. Len(s) \in Nat
    BY LenProperties
  <2> QED BY <2>1, <2>2, Zenon
<1>2. /\ Tail(s) \in Seq(StepNames) /\ Len(Tail(s)) = Len(s) - 1
      /\ \A i \in 1..Len(Tail(s)) : Tail(s)[i] = s[i + 1]
  BY <1>1, NotEmpty, HeadTailProperties
<1>3. Head(s) = s[1] /\ Head(Tail(s)) = s[2]
  BY <1>1, <1>2
<1>4. Follows(n, s[1], s[2])
  BY <1>1 DEF Chain
<1>5. Chain(n, Tail(s))
  BY <1>1, <1>2 DEF Chain
<1> QED BY <1>3, <1>4, <1>5

\* Chains written out.
LEMMA ChainOf2 ==
  ASSUME NEW n, NEW a, NEW b,
         Follows(n, a, b)
  PROVE  Chain(n, <<a, b>>)
<1> DEFINE t == <<a, b>>
<1>1. Len(t) = 2 /\ t[1] = a /\ t[2] = b
  OBVIOUS
<1> HIDE DEF t
<1>2. ASSUME NEW i \in 1..(Len(t) - 1)
      PROVE  Follows(n, t[i], t[i + 1])
  <2>1. i \in {1}
    BY <1>1
  <2> QED BY <1>1, <2>1
<1> QED BY <1>2 DEF Chain, t

\* Three steps in order, as the trees write them out ...
LEMMA ChainOf3 ==
  ASSUME NEW n, NEW a, NEW b, NEW c,
         Follows(n, a, b), Follows(n, b, c)
  PROVE  Chain(n, <<a, b, c>>)
<1> DEFINE t == <<a, b, c>>
<1>1. Len(t) = 3 /\ t[1] = a /\ t[2] = b /\ t[3] = c
  OBVIOUS
<1> HIDE DEF t
<1>2. ASSUME NEW i \in 1..(Len(t) - 1)
      PROVE  Follows(n, t[i], t[i + 1])
  <2>1. i \in {1, 2}
    BY <1>1
  <2> QED BY <1>1, <2>1
<1> QED BY <1>2 DEF Chain, t

\* ... four ...
LEMMA ChainOf4 ==
  ASSUME NEW n, NEW a, NEW b, NEW c, NEW d,
         Follows(n, a, b), Follows(n, b, c), Follows(n, c, d)
  PROVE  Chain(n, <<a, b, c, d>>)
<1> DEFINE t == <<a, b, c, d>>
<1>1. Len(t) = 4 /\ t[1] = a /\ t[2] = b /\ t[3] = c /\ t[4] = d
  OBVIOUS
<1> HIDE DEF t
<1>2. ASSUME NEW i \in 1..(Len(t) - 1)
      PROVE  Follows(n, t[i], t[i + 1])
  <2>1. i \in {1, 2, 3}
    BY <1>1
  <2> QED BY <1>1, <2>1
<1> QED BY <1>2 DEF Chain, t

\* ... and five.
LEMMA ChainOf5 ==
  ASSUME NEW n, NEW a, NEW b, NEW c, NEW d, NEW e,
         Follows(n, a, b), Follows(n, b, c), Follows(n, c, d), Follows(n, d, e)
  PROVE  Chain(n, <<a, b, c, d, e>>)
<1> DEFINE t == <<a, b, c, d, e>>
<1>1. Len(t) = 5 /\ t[1] = a /\ t[2] = b /\ t[3] = c /\ t[4] = d /\ t[5] = e
  OBVIOUS
<1> HIDE DEF t
<1>2. ASSUME NEW i \in 1..(Len(t) - 1)
      PROVE  Follows(n, t[i], t[i + 1])
  <2>1. i \in {1, 2, 3, 4}
    BY <1>1
  <2> QED BY <1>1, <2>1
<1> QED BY <1>2 DEF Chain, t

\* The pieces mission_steps puts together.
LEMMA Pieces ==
  ASSUME NEW n
  PROVE  /\ ~n => Chain(n, <<"Home arm", "Ready", "Pick">>)
         /\ n => Chain(n, <<"Home arm", "Ready", "Home head", "Choose location", "Go there">>)
         /\ n => Chain(n, <<"Home arm", "Ready", "Home head", "Find target">>)
         /\ Chain(n, <<"Park", "Pause Nav2">>)
<1>1. /\ Follows(n, "Home arm", "Ready")
      /\ ~n => Follows(n, "Ready", "Pick")
      /\ n => Follows(n, "Ready", "Home head")
      /\ Follows(n, "Home head", "Choose location") /\ Follows(n, "Choose location", "Go there")
      /\ Follows(n, "Home head", "Find target")
      /\ Follows(n, "Park", "Pause Nav2")
  BY DEF Follows
<1>2. ~n => Chain(n, <<"Home arm", "Ready", "Pick">>)
  BY <1>1, ChainOf3
<1>3. n => Chain(n, <<"Home arm", "Ready", "Home head", "Choose location", "Go there">>)
  BY <1>1, ChainOf5
<1>4. n => Chain(n, <<"Home arm", "Ready", "Home head", "Find target">>)
  BY <1>1, ChainOf4
<1>5. Chain(n, <<"Park", "Pause Nav2">>)
  BY <1>1, ChainOf2
<1> QED BY <1>2, <1>3, <1>4, <1>5

\* A piece that a flag adds.
LEMMA OptionalPiece ==
  ASSUME NEW n, NEW b \in BOOLEAN, NEW s \in StepNames
  PROVE  LET o == IF b THEN <<s>> ELSE <<>>
         IN  /\ Chain(n, o) /\ o \in Seq(StepNames)
             /\ Len(o) # 0 => Len(o) = 1 /\ o[1] = s
<1>1. Chain(n, <<s>>) /\ <<s>> \in Seq(StepNames) /\ Len(<<s>>) = 1 /\ <<s>>[1] = s
  BY DEF Chain
<1>2. Len(<<>>) = 0 /\ <<>> \in Seq(StepNames)
  BY EmptySeq
<1>3. Chain(n, <<>>)
  BY <1>2, SMT DEF Chain
<1> QED BY <1>1, <1>2, <1>3

\* The first step of a joined tree is that of its first stretch.
LEMMA ConcatHead ==
  ASSUME NEW s \in Seq(StepNames), NEW t \in Seq(StepNames), Len(s) # 0
  PROVE  s \o t \in Seq(StepNames) /\ Len(s \o t) # 0 /\ (s \o t)[1] = s[1]
<1>1. Len(s) \in Nat /\ Len(t) \in Nat
  BY LenProperties
<1>2. /\ s \o t \in Seq(StepNames) /\ Len(s \o t) = Len(s) + Len(t)
      /\ \A i \in 1..(Len(s) + Len(t)) : (s \o t)[i] = IF i <= Len(s) THEN s[i] ELSE t[i - Len(s)]
  BY ConcatProperties
<1> QED BY <1>1, <1>2

\* The head of a sequence is its first element.
LEMMA HeadIsFirst == \A s \in Seq(StepNames) : Head(s) = s[1]
OBVIOUS

\* Every tree begins with Home arm, before anything drives.
LEMMA TreeHead == \A f \in Flags : Head(Tree(f)) = "Home arm"
<1> SUFFICES ASSUME NEW f \in Flags
             PROVE  Head(Tree(f)) = "Home arm"
  OBVIOUS
<1> DEFINE s == <<"Home arm", "Ready", "Home head", "Find target">>
           e == IF f.active_perception THEN <<"Explore views">> ELSE <<>>
           p == <<"Park", "Pause Nav2">>
           g == IF f.grasp THEN <<"Pick">> ELSE <<>>
<1>1. CASE ~f.nav \/ f.navigate_only
  BY <1>1 DEF Tree
<1>2. CASE f.nav /\ ~f.navigate_only
  <2>1. s \in Seq(StepNames) /\ Len(s) # 0 /\ s[1] = "Home arm"
    BY DEF StepNames
  <2>2. f.active_perception \in BOOLEAN /\ f.grasp \in BOOLEAN
    BY DEF Flags
  <2>3. e \in Seq(StepNames) /\ g \in Seq(StepNames)
    BY <2>2, OptionalPiece DEF StepNames
  <2>4. p \in Seq(StepNames)
    BY DEF StepNames
  <2>5. Tree(f) = s \o e \o p \o g
    BY <1>2 DEF Tree
  <2> HIDE DEF s, e, p, g
  <2>6. s \o e \in Seq(StepNames) /\ Len(s \o e) # 0 /\ (s \o e)[1] = "Home arm"
    BY <2>1, <2>3, ConcatHead
  <2>7. /\ s \o e \o p \in Seq(StepNames) /\ Len(s \o e \o p) # 0
        /\ (s \o e \o p)[1] = "Home arm"
    BY <2>4, <2>6, ConcatHead
  <2>8. s \o e \o p \o g \in Seq(StepNames) /\ (s \o e \o p \o g)[1] = "Home arm"
    BY <2>3, <2>7, ConcatHead
  <2>9. Head(s \o e \o p \o g) = (s \o e \o p \o g)[1]
    BY <2>8, HeadIsFirst, Zenon
  <2> QED BY <2>5, <2>8, <2>9, Zenon
<1> QED BY <1>1, <1>2

\* In every tree mission_steps builds, a step that drives comes after Ready, with no
\* step between them that pauses Nav2.
LEMMA TreeChain == \A f \in Flags : Chain(f.nav, Tree(f))
<1> SUFFICES ASSUME NEW f \in Flags
             PROVE  Chain(f.nav, Tree(f))
  OBVIOUS
<1> DEFINE n == f.nav
           s == <<"Home arm", "Ready", "Home head", "Find target">>
           e == IF f.active_perception THEN <<"Explore views">> ELSE <<>>
           p == <<"Park", "Pause Nav2">>
           g == IF f.grasp THEN <<"Pick">> ELSE <<>>
<1>1. CASE ~f.nav
  BY <1>1, Pieces DEF Tree
<1>2. CASE f.nav /\ f.navigate_only
  BY <1>2, Pieces DEF Tree
<1>3. CASE f.nav /\ ~f.navigate_only
  <2>1. Chain(n, s) /\ Chain(n, p)
    BY <1>3, Pieces
  <2>2. s \in Seq(StepNames) /\ Len(s) # 0 /\ s[Len(s)] = "Find target"
    BY DEF StepNames
  <2>3. p \in Seq(StepNames) /\ Len(p) # 0 /\ p[1] = "Park" /\ p[Len(p)] = "Pause Nav2"
    BY DEF StepNames
  <2>4. f.active_perception \in BOOLEAN /\ f.grasp \in BOOLEAN
    BY DEF Flags
  <2>5. /\ Chain(n, e) /\ e \in Seq(StepNames)
        /\ Len(e) # 0 => Len(e) = 1 /\ e[1] = "Explore views"
    BY <2>4, OptionalPiece DEF StepNames
  <2>6. /\ Chain(n, g) /\ g \in Seq(StepNames)
        /\ Len(g) # 0 => Len(g) = 1 /\ g[1] = "Pick"
    BY <2>4, OptionalPiece DEF StepNames
  <2>7. Tree(f) = s \o e \o p \o g
    BY <1>3 DEF Tree
  <2> HIDE DEF n, s, e, p, g
  <2>8. /\ Follows(n, "Find target", "Explore views") /\ Follows(n, "Find target", "Park")
        /\ Follows(n, "Explore views", "Park") /\ Follows(n, "Pause Nav2", "Pick")
    BY DEF Follows
  <2>9. /\ Chain(n, s \o e) /\ s \o e \in Seq(StepNames) /\ Len(s \o e) # 0
        /\ (s \o e)[Len(s \o e)] \in {"Find target", "Explore views"}
    <3>1. Len(s) # 0 /\ (Len(e) # 0 => Follows(n, s[Len(s)], e[1]))
      <4>1. Len(s) # 0
        BY <2>2
      <4>2. s[Len(s)] = "Find target"
        BY <2>2
      <4>3. Len(e) # 0 => e[1] = "Explore views"
        BY <2>5
      <4> QED BY <4>1, <4>2, <4>3, <2>8, Zenon
    <3>2. /\ Chain(n, s \o e) /\ s \o e \in Seq(StepNames) /\ Len(s \o e) # 0
          /\ (s \o e)[Len(s \o e)] = IF Len(e) = 0 THEN s[Len(s)] ELSE e[Len(e)]
      BY <2>1, <2>2, <2>5, <3>1, ConcatChain
    <3> QED BY <2>2, <2>5, <3>2
  <2>10. /\ Chain(n, s \o e \o p) /\ s \o e \o p \in Seq(StepNames) /\ Len(s \o e \o p) # 0
         /\ (s \o e \o p)[Len(s \o e \o p)] = "Pause Nav2"
    <3> DEFINE u == s \o e
    <3>1. Follows(n, u[Len(u)], p[1])
      BY <2>3, <2>8, <2>9
    <3>2. Chain(n, u) /\ u \in Seq(StepNames) /\ Len(u) # 0
      BY <2>9
    <3> HIDE DEF u
    <3>3. /\ Chain(n, u \o p) /\ u \o p \in Seq(StepNames) /\ Len(u \o p) # 0
          /\ (u \o p)[Len(u \o p)] = IF Len(p) = 0 THEN u[Len(u)] ELSE p[Len(p)]
      BY <2>1, <2>3, <3>1, <3>2, ConcatChain
    <3>4. (u \o p)[Len(u \o p)] = "Pause Nav2"
      BY <2>3, <3>3, Zenon
    <3> QED BY <3>3, <3>4, Zenon DEF u
  <2>11. Chain(n, s \o e \o p \o g)
    BY <2>6, <2>8, <2>10, ConcatChain
  <2> QED BY <2>7, <2>11 DEF n
<1> QED BY <1>1, <1>2, <1>3

----------------------------------------------------------------------------
\* Whose requests are at the manager.

\* Every end of a run leaves it idle.
LEMMA EndsIdle ==
  ASSUME Fail \/ Raise \/ HandoffFails \/ \E v : Finish(v)
  PROVE  at' = "idle"
BY DEF Fail, Raise, HandoffFails, Finish

\* Whatever waits at the manager is a request.
LEMMA InQueue == \A s \in Seq(Requests) : \A i \in DOMAIN s : s[i] \in Requests
<1> SUFFICES ASSUME NEW s \in Seq(Requests), NEW i \in DOMAIN s
             PROVE  s[i] \in Requests
  OBVIOUS
<1>1. DOMAIN s = 1..Len(s)
  BY LenProperties
<1> QED BY <1>1, ElementOfSeq

\* A run that asks has one request, if it had none.
LEMMA AskingMine ==
  ASSUME TypeOK, NoneMine, NEW c \in Commands, Request("run", c)
  PROVE  OneMine(c)'
<1>1. answer'["run"] = "none" /\ cur' = cur
  BY MissionAssumption DEF Request, TypeOK, Nav2TypeOK
<1> DEFINE r == [cmd |-> c, by |-> "run"]
<1>2. r \in Requests /\ cmds \in Seq(Requests)
  BY MissionAssumption DEF Requests, Callers, TypeOK, Nav2TypeOK
<1>3. cmds' = Append(cmds, r)
  BY DEF Request
<1> HIDE DEF r
<1>4. /\ Len(cmds') = Len(cmds) + 1 /\ Len(cmds) \in Nat
      /\ \A i \in 1..Len(cmds) : cmds'[i] = cmds[i]
      /\ cmds'[Len(cmds) + 1] = r
      /\ DOMAIN cmds' = 1..(Len(cmds) + 1) /\ DOMAIN cmds = 1..Len(cmds)
  BY <1>2, <1>3, AppendProperties, LenProperties
<1>5. \A j \in DOMAIN cmds' \ {Len(cmds) + 1} : cmds'[j].by # "run"
  BY <1>4 DEF NoneMine
<1>6. Len(cmds) + 1 \in DOMAIN cmds' /\ cmds'[Len(cmds) + 1] = [cmd |-> c, by |-> "run"]
  BY <1>4 DEF r
<1>7. cur'.by # "run"
  BY <1>1 DEF NoneMine
<1> QED BY <1>1, <1>5, <1>6, <1>7 DEF OneMine

\* A run that stops waiting has none.
LEMMA AbandonedMine ==
  ASSUME TypeOK, Abandon("run")
  PROVE  NoneMine'
<1>1. "nobody" # "run"
  BY MissionAssumption, NodesAssumption
<1>2. \A r \in Requests : Orphan(r, "run").by # "run"
  BY <1>1 DEF Orphan, Requests
<1>3. cur'.by # "run"
  BY <1>1 DEF Abandon, Orphan, TypeOK, Nav2TypeOK
<1>4. DOMAIN cmds' = DOMAIN cmds /\ \A i \in DOMAIN cmds : cmds'[i] = Orphan(cmds[i], "run")
  BY DEF Abandon
<1>5. \A i \in DOMAIN cmds : cmds[i] \in Requests
  BY InQueue DEF TypeOK, Nav2TypeOK
<1> QED BY <1>2, <1>3, <1>4, <1>5 DEF NoneMine

\* A client's request is its own: the button's asking and giving up leave the
\* run's requests as they are.
LEMMA ButtonMine ==
  ASSUME TypeOK, \/ \E c \in Commands : Request("button", c)
                 \/ Abandon("button")
  PROVE  /\ NoneMine => NoneMine'
         /\ \A c \in Commands : OneMine(c) => OneMine(c)'
<1>1. answer'["run"] = answer["run"]
  BY MissionAssumption DEF Request, Abandon, TypeOK, Nav2TypeOK
<1>2. /\ cur'.cmd = cur.cmd
      /\ cur'.by = "run" <=> cur.by = "run"
  BY MissionAssumption, NodesAssumption DEF Request, Abandon, Orphan, TypeOK, Nav2TypeOK
<1>3. /\ DOMAIN cmds \subseteq DOMAIN cmds'
      /\ \A i \in DOMAIN cmds : cmds[i].by = "run" => cmds'[i] = cmds[i]
      /\ \A i \in DOMAIN cmds' : cmds'[i].by = "run" => i \in DOMAIN cmds /\ cmds[i].by = "run"
  <2>1. ASSUME NEW c \in Commands, Request("button", c)
        PROVE  /\ DOMAIN cmds \subseteq DOMAIN cmds'
               /\ \A i \in DOMAIN cmds : cmds[i].by = "run" => cmds'[i] = cmds[i]
               /\ \A i \in DOMAIN cmds' :
                    cmds'[i].by = "run" => i \in DOMAIN cmds /\ cmds[i].by = "run"
    <3> DEFINE r == [cmd |-> c, by |-> "button"]
    <3>1. r \in Requests /\ cmds \in Seq(Requests) /\ r.by # "run"
      BY MissionAssumption DEF Requests, Callers, TypeOK, Nav2TypeOK
    <3>2. cmds' = Append(cmds, r)
      BY <2>1 DEF Request
    <3> HIDE DEF r
    <3>3. /\ \A i \in 1..Len(cmds) : cmds'[i] = cmds[i]
          /\ cmds'[Len(cmds) + 1] = r /\ Len(cmds) \in Nat
          /\ DOMAIN cmds' = 1..(Len(cmds) + 1) /\ DOMAIN cmds = 1..Len(cmds)
      BY <3>1, <3>2, AppendProperties, LenProperties
    <3> QED BY <3>1, <3>3
  <2>2. CASE Abandon("button")
    <3>1. DOMAIN cmds' = DOMAIN cmds /\ \A i \in DOMAIN cmds : cmds'[i] = Orphan(cmds[i], "button")
      BY <2>2 DEF Abandon
    <3>2. \A i \in DOMAIN cmds : cmds[i] \in Requests
      BY InQueue DEF TypeOK, Nav2TypeOK
    <3>3. "nobody" # "run"
      BY MissionAssumption, NodesAssumption
    <3> QED BY <3>1, <3>2, <3>3 DEF Orphan, Requests
  <2> QED BY <2>1, <2>2
<1>4. NoneMine => NoneMine'
  BY <1>2, <1>3 DEF NoneMine
<1>5. ASSUME NEW c \in Commands, OneMine(c)
      PROVE  OneMine(c)'
  <2>1. CASE cur.by = "run"
    BY <1>1, <1>2, <1>3, <1>5, <2>1 DEF OneMine
  <2>2. CASE cur.by # "run"
    <3>1. PICK i \in DOMAIN cmds : /\ cmds[i] = [cmd |-> c, by |-> "run"]
                                   /\ \A j \in DOMAIN cmds \ {i} : cmds[j].by # "run"
      BY <1>5, <2>2 DEF OneMine
    <3>2. i \in DOMAIN cmds' /\ cmds'[i] = [cmd |-> c, by |-> "run"]
      BY <3>1, <1>3
    <3>3. \A j \in DOMAIN cmds' \ {i} : cmds'[j].by # "run"
      BY <3>1, <1>3
    <3> QED BY <1>1, <1>2, <1>5, <2>2, <3>2, <3>3 DEF OneMine
  <2> QED BY <2>1, <2>2
<1> QED BY <1>4, <1>5

\* What each step of a run does to its own requests.
LEMMA RunMine ==
  ASSUME TypeOK, MineInOrder, RunAction
  PROVE  \/ NoneMine'
         \/ at' = "resuming" /\ Request("run", "RESUME") /\ OneMine("RESUME")'
         \/ at' = "pausing" /\ Request("run", "PAUSE") /\ OneMine("PAUSE")'
<1>1. ASSUME UNCHANGED <<cmds, cur>>, at \notin {"resuming", "pausing"} \/ answer["run"] # "none"
      PROVE  NoneMine'
  BY <1>1 DEF MineInOrder, NoneMine, OneMine
<1>2. ASSUME NEW c \in Commands, Request("run", c), at \notin {"resuming", "pausing"}
      PROVE  OneMine(c)'
  BY <1>2, AskingMine DEF MineInOrder
<1>3. CASE Interrupt \/ HandoffTimesOut
  BY <1>3, AbandonedMine DEF Interrupt, HandoffTimesOut
<1>4. CASE Resumed \/ Paused \/ HandoffRefused
  BY <1>4, <1>1 DEF Resumed, Paused, HandoffRefused, nav2
<1>5. CASE SimpleStep \/ WaitActive \/ WorkEnds \/ PickEnds \/ RecoverStarts
  BY <1>5, <1>1 DEF SimpleStep, WaitActive, WorkEnds, PickEnds, RecoverStarts, AtStep, nav2
<1>6. CASE Drive \/ DriveReturns
  BY <1>6, <1>1 DEF Drive, DriveReturns
<1>7. CASE Ready \/ EnterDriveStep \/ RecoverFolds
  <2>1. at \notin {"resuming", "pausing"}
    BY <1>7 DEF Ready, EnterDriveStep, RecoverFolds, AtStep
  <2>2. \/ UNCHANGED nav2
        \/ Request("run", "RESUME") /\ at' = "resuming"
    BY <1>7 DEF Ready, EnterDriveStep, RecoverFolds, ResumeIfPaused, GoTo
  <2> QED BY <2>1, <2>2, <1>1, <1>2 DEF nav2, Commands
<1>8. CASE PauseNav2 \/ HoldNav2
  <2>1. at \notin {"resuming", "pausing"}
    BY <1>8 DEF PauseNav2, HoldNav2, AtStep
  <2>2. \/ UNCHANGED nav2
        \/ Request("run", "PAUSE") /\ at' = "pausing"
    BY <1>8 DEF PauseNav2, HoldNav2, GoTo
  <2> QED BY <2>1, <2>2, <1>1, <1>2 DEF nav2, Commands
<1> QED BY <1>3, <1>4, <1>5, <1>6, <1>7, <1>8 DEF RunAction

\* The manager takes the requests up one by one and answers them.
LEMMA ManagerMine ==
  ASSUME TypeOK, Nav2Next
  PROVE  /\ NoneMine => NoneMine'
         /\ \A c \in Commands : OneMine(c) => NoneMine' \/ OneMine(c)'
<1>1. CASE Begin
  <2>1. /\ Head(cmds) = cmds[1] /\ Len(cmds) \in Nat \ {0}
        /\ cmds' = Tail(cmds) /\ Len(Tail(cmds)) = Len(cmds) - 1
        /\ \A i \in 1..Len(Tail(cmds)) : Tail(cmds)[i] = cmds[i + 1]
        /\ DOMAIN cmds = 1..Len(cmds) /\ DOMAIN Tail(cmds) = 1..(Len(cmds) - 1)
    <3>1. cmds \in Seq(Requests) /\ cmds # <<>>
      BY <1>1 DEF Begin, TypeOK, Nav2TypeOK
    <3>2. /\ Tail(cmds) \in Seq(Requests) /\ Len(Tail(cmds)) = Len(cmds) - 1
          /\ \A i \in 1..Len(Tail(cmds)) : Tail(cmds)[i] = cmds[i + 1]
      BY <3>1, HeadTailProperties
    <3>3. Len(cmds) \in Nat \ {0} /\ DOMAIN cmds = 1..Len(cmds) /\ Head(cmds) = cmds[1]
      BY <3>1, EmptySeq, LenProperties
    <3>4. DOMAIN Tail(cmds) = 1..Len(Tail(cmds))
      BY <3>2, LenProperties
    <3> QED BY <1>1, <3>2, <3>3, <3>4 DEF Begin
  <2>2. /\ \A i \in DOMAIN cmds' : i + 1 \in DOMAIN cmds /\ cmds'[i] = cmds[i + 1]
        /\ 1 \in DOMAIN cmds
        /\ cur'.by = cmds[1].by /\ cur'.cmd = cmds[1].cmd /\ answer' = answer
    BY <1>1, <2>1 DEF Begin
  <2>3. NoneMine => NoneMine'
    BY <2>2 DEF NoneMine
  <2>4. ASSUME NEW c \in Commands, OneMine(c)
        PROVE  OneMine(c)' \/ NoneMine'
    <3>1. CASE cur.by = "run"
      <4>1. \A i \in DOMAIN cmds : cmds[i].by # "run"
        BY <2>4, <3>1 DEF OneMine
      <4> QED BY <2>2, <4>1 DEF NoneMine
    <3>2. CASE cur.by # "run"
      <4>1. PICK i \in DOMAIN cmds : /\ cmds[i] = [cmd |-> c, by |-> "run"]
                                     /\ \A j \in DOMAIN cmds \ {i} : cmds[j].by # "run"
        BY <2>4, <3>2 DEF OneMine
      <4>2. CASE i = 1
        <5>1. cur'.by = "run" /\ cur'.cmd = c
          BY <2>2, <4>1, <4>2
        <5>2. \A j \in DOMAIN cmds' : cmds'[j].by # "run"
          <6> TAKE j \in DOMAIN cmds'
          <6>1. j + 1 \in DOMAIN cmds \ {i} /\ cmds'[j] = cmds[j + 1]
            BY <2>1, <2>2, <4>2
          <6> QED BY <4>1, <6>1
        <5> QED BY <2>2, <2>4, <5>1, <5>2 DEF OneMine
      <4>3. CASE i # 1
        <5>1. i - 1 \in DOMAIN cmds' /\ cmds'[i - 1] = cmds[i]
          BY <2>1, <4>3
        <5>2. \A j \in DOMAIN cmds' \ {i - 1} : cmds'[j].by # "run"
          <6> TAKE j \in DOMAIN cmds' \ {i - 1}
          <6>1. j + 1 \in DOMAIN cmds \ {i} /\ cmds'[j] = cmds[j + 1]
            BY <2>1, <2>2
          <6> QED BY <4>1, <6>1
        <5>3. cur'.by # "run"
          BY <2>2, <4>1, <4>3
        <5> QED BY <2>2, <2>4, <4>1, <5>1, <5>2, <5>3 DEF OneMine
      <4> QED BY <4>2, <4>3
    <3> QED BY <3>1, <3>2
  <2> QED BY <2>3, <2>4
<1>2. ASSUME NEW n \in Nodes, ChangeNode(n)
      PROVE  /\ NoneMine => NoneMine'
             /\ \A c \in Commands : OneMine(c) => NoneMine' \/ OneMine(c)'
  <2>1. cur'.cmd = cur.cmd /\ cur'.by = cur.by /\ UNCHANGED <<cmds, answer>>
    BY <1>2 DEF ChangeNode, TypeOK, Nav2TypeOK
  <2> QED BY <2>1 DEF NoneMine, OneMine
<1>3. ASSUME NEW v, Reply(v)
      PROVE  /\ NoneMine => NoneMine'
             /\ \A c \in Commands : OneMine(c) => NoneMine' \/ OneMine(c)'
  <2>1. cur'.by # "run" /\ UNCHANGED cmds
    BY <1>3, MissionAssumption, NodesAssumption DEF Reply, NoCmd
  <2>2. cur.by # "run" => answer'["run"] = answer["run"]
    BY <1>3, MissionAssumption DEF Reply, TypeOK, Nav2TypeOK
  <2> QED BY <2>1, <2>2 DEF NoneMine, OneMine
<1>4. CASE StrayGoal \/ GoalEnds
  BY <1>4 DEF StrayGoal, GoalEnds, NoneMine, OneMine
<1> QED BY <1>1, <1>2, <1>3, <1>4 DEF Nav2Next, Manager, Refuse, Complete

\* Every step keeps the run's requests in order.
LEMMA MineStep ==
  ASSUME TypeOK, MineInOrder, [Next]_vars
  PROVE  MineInOrder'
<1>1. ASSUME NoneMine => NoneMine',
             \A c \in Commands : OneMine(c) => NoneMine' \/ OneMine(c)',
             at' = at
      PROVE  MineInOrder'
  BY <1>1 DEF MineInOrder, Commands
<1>2. CASE RunStep
  BY <1>2, RunMine DEF RunStep, MineInOrder
<1>3. ASSUME UNCHANGED nav2
      PROVE  NoneMine' = NoneMine /\ \A c \in Commands : OneMine(c)' = OneMine(c)
  BY <1>3 DEF nav2, NoneMine, OneMine
<1>4. CASE ButtonStep
  <2>1. at' = at
    BY <1>4 DEF ButtonStep, RunGone, ButtonRefused, Answered, AskTimesOut, AskNav2, run
  <2>2. \/ UNCHANGED nav2
        \/ \E c \in Commands : Request("button", c)
        \/ Abandon("button")
    BY <1>4 DEF ButtonStep, RunGone, ButtonRefused, Answered, AskTimesOut, AskNav2
  <2> QED BY <2>1, <2>2, <1>1, <1>3, ButtonMine
<1>5. CASE StartMission \/ StartRecover
  <2>1. at = "idle" /\ at' = "enter" /\ UNCHANGED nav2
    BY <1>5 DEF StartMission, StartRecover, BeginRun
  <2> QED BY <2>1, <1>3 DEF MineInOrder
<1>6. CASE Stop \/ ButtonPressed
  <2>1. UNCHANGED <<at, nav2>>
    BY <1>6 DEF Stop, ButtonPressed
  <2> QED BY <2>1, <1>1, <1>3
<1>7. CASE Nav2Step
  BY <1>7, <1>1, ManagerMine DEF Nav2Step, run
<1>8. CASE UNCHANGED vars
  <2>1. UNCHANGED <<at, nav2>>
    BY <1>8 DEF vars, run
  <2> QED BY <2>1, <1>1, <1>3
<1> QED BY <1>2, <1>4, <1>5, <1>6, <1>7, <1>8 DEF Next, Operator

\* A run that nobody's command preceded has the manager to itself.
LEMMA AloneStep ==
  ASSUME TypeOK, Alone, [Next]_vars
  PROVE  Alone'
<1>1. CASE RunStep
  <2> SUFFICES ASSUME at' # "idle", others' = "none"
               PROVE  /\ button' \in {"idle", "stopping"}
                      /\ Idle' \/ cur'.by = "run"
                      /\ \A i \in DOMAIN cmds' : cmds'[i].by = "run"
    BY DEF Alone
  <2>1. others = "none" /\ at # "idle"
    BY <1>1 DEF RunStep, RunAction, Interrupt, Resumed, Paused, HandoffRefused, HandoffTimesOut,
                SimpleStep, Ready, WaitActive, EnterDriveStep, Drive, DriveReturns, WorkEnds,
                PauseNav2, HoldNav2, PickEnds, RecoverStarts, RecoverFolds, AtStep
  <2>2. UNCHANGED button
    BY <1>1 DEF RunStep, RunAction, Interrupt, Resumed, Paused, HandoffRefused, HandoffTimesOut,
                SimpleStep, Ready, WaitActive, EnterDriveStep, Drive, DriveReturns, WorkEnds,
                PauseNav2, HoldNav2, PickEnds, RecoverStarts, RecoverFolds
  <2>3. UNCHANGED <<cmds, cur>> \/ \E c \in Commands : Request("run", c)
    <3>1. ~Interrupt /\ ~HandoffTimesOut
      BY EndsIdle DEF Interrupt, HandoffTimesOut
    <3> QED BY <1>1, <3>1 DEF RunStep, RunAction, Resumed, Paused, HandoffRefused, SimpleStep, Ready,
                WaitActive, EnterDriveStep, Drive, DriveReturns, WorkEnds, PauseNav2, HoldNav2,
                PickEnds, RecoverStarts, RecoverFolds, ResumeIfPaused, nav2, Commands
  <2>4. CASE UNCHANGED <<cmds, cur>>
    BY <2>1, <2>2, <2>4 DEF Alone, Idle
  <2>5. ASSUME NEW c \in Commands, Request("run", c)
        PROVE  /\ Idle' \/ cur'.by = "run"
               /\ \A i \in DOMAIN cmds' : cmds'[i].by = "run"
    <3> DEFINE r == [cmd |-> c, by |-> "run"]
    <3>1. r \in Requests /\ cmds \in Seq(Requests) /\ r.by = "run"
      BY MissionAssumption DEF Requests, Callers, TypeOK, Nav2TypeOK
    <3>2. cmds' = Append(cmds, r) /\ cur' = cur
      BY <2>5 DEF Request
    <3> HIDE DEF r
    <3>3. /\ \A i \in 1..Len(cmds) : cmds'[i] = cmds[i]
          /\ cmds'[Len(cmds) + 1] = r /\ Len(cmds) \in Nat
          /\ DOMAIN cmds' = 1..(Len(cmds) + 1) /\ DOMAIN cmds = 1..Len(cmds)
      BY <3>1, <3>2, AppendProperties, LenProperties
    <3>4. \A i \in DOMAIN cmds : cmds[i].by = "run"
      BY <2>1 DEF Alone
    <3>5. \A i \in DOMAIN cmds' : cmds'[i].by = "run"
      BY <3>1, <3>3, <3>4
    <3> QED BY <2>1, <3>2, <3>5 DEF Alone, Idle
  <2> QED BY <2>1, <2>2, <2>3, <2>4, <2>5 DEF Alone
<1>2. CASE ButtonStep
  <2>1. UNCHANGED <<at, others>>
    BY <1>2 DEF ButtonStep, RunGone, ButtonRefused, Answered, AskTimesOut, AskNav2, run
  <2>2. CASE at # "idle" /\ others = "none"
    <3>1. button \in {"idle", "stopping"}
      BY <2>2 DEF Alone
    <3>2. button' = "idle" /\ UNCHANGED nav2
      BY <1>2, <2>2, <3>1 DEF ButtonStep, RunGone, ButtonRefused, Answered, AskTimesOut, AskNav2
    <3> QED BY <2>1, <3>2 DEF nav2, Alone, Idle
  <2>3. CASE ~(at # "idle" /\ others = "none")
    BY <2>1, <2>3 DEF Alone
  <2> QED BY <2>2, <2>3
<1>3. CASE StartMission \/ StartRecover
  <2>1. /\ UNCHANGED nav2
        /\ others' = "none" => Quiet /\ button = "idle"
        /\ button' = IF button = "stopping" THEN "taken over" ELSE button
    BY <1>3 DEF StartMission, StartRecover, BeginRun
  <2>2. others' = "none" => Idle' /\ cmds' = <<>> /\ button' = "idle"
    BY <2>1 DEF Quiet, Idle, nav2
  <2>3. cmds' = <<>> => \A i \in DOMAIN cmds' : cmds'[i].by = "run"
    OBVIOUS
  <2> QED BY <2>2, <2>3 DEF Alone
<1>4. CASE Stop \/ ButtonPressed
  <2>1. UNCHANGED <<at, others, nav2>> /\ (at # "idle" => button' \in {button, "stopping"})
    BY <1>4 DEF Stop, ButtonPressed
  <2> QED BY <2>1 DEF nav2, Alone, Idle
<1>5. CASE Nav2Step
  <2>1. UNCHANGED <<at, button>> /\ (others' = "none" => others = "none")
    BY <1>5 DEF Nav2Step, run
  <2> SUFFICES ASSUME at # "idle", others = "none"
               PROVE  /\ Idle' \/ cur'.by = "run"
                      /\ \A i \in DOMAIN cmds' : cmds'[i].by = "run"
    BY <2>1 DEF Alone
  <2>2. /\ Idle \/ cur.by = "run"
        /\ \A i \in DOMAIN cmds : cmds[i].by = "run"
    BY DEF Alone
  <2>3. CASE Begin
    <3>1. /\ Head(cmds) = cmds[1] /\ 1 \in DOMAIN cmds
          /\ \A i \in DOMAIN Tail(cmds) : i + 1 \in DOMAIN cmds /\ Tail(cmds)[i] = cmds[i + 1]
      <4>1. cmds \in Seq(Requests) /\ cmds # <<>>
        BY <2>3 DEF Begin, TypeOK, Nav2TypeOK
      <4>2. /\ Tail(cmds) \in Seq(Requests) /\ Len(Tail(cmds)) = Len(cmds) - 1
            /\ \A i \in 1..Len(Tail(cmds)) : Tail(cmds)[i] = cmds[i + 1]
        BY <4>1, HeadTailProperties
      <4>3. Len(cmds) \in Nat \ {0} /\ DOMAIN cmds = 1..Len(cmds) /\ Head(cmds) = cmds[1]
        BY <4>1, EmptySeq, LenProperties
      <4>4. DOMAIN Tail(cmds) = 1..Len(Tail(cmds))
        BY <4>2, LenProperties
      <4> QED BY <4>2, <4>3, <4>4
    <3> QED BY <2>2, <2>3, <3>1 DEF Begin
  <2>4. ASSUME NEW n \in Nodes, ChangeNode(n)
        PROVE  cur'.by = "run" /\ UNCHANGED cmds
    BY <2>2, <2>4 DEF ChangeNode, TypeOK, Nav2TypeOK
  <2>5. ASSUME NEW v, Reply(v)
        PROVE  Idle' /\ UNCHANGED cmds
    BY <2>5 DEF Reply, NoCmd, Idle
  <2>6. CASE StrayGoal \/ GoalEnds
    BY <2>2, <2>6 DEF StrayGoal, GoalEnds, Idle
  <2> QED BY <1>5, <2>2, <2>3, <2>4, <2>5, <2>6 DEF Nav2Step, Nav2Next, Manager, Refuse, Complete
<1>6. CASE UNCHANGED vars
  BY <1>6 DEF vars, run, nav2, Alone, Idle
<1> QED BY <1>1, <1>2, <1>3, <1>4, <1>5, <1>6 DEF Next, Operator

\* While a run has nothing at the manager, no node changes without its mark.
LEMMA Still ==
  ASSUME TypeOK, Alone, NoneMine, at # "idle", Nav2Step, Undisturbed'
  PROVE  Undisturbed /\ lc' = lc
<1>1. Undisturbed
  BY DEF Nav2Step, Undisturbed
<1>2. CASE lc' # lc
  <2>1. ~Idle
    BY <1>2 DEF Nav2Step, Nav2Next, Manager, Begin, Refuse, Complete, Reply, ChangeNode, StrayGoal,
                GoalEnds
  <2>2. cur.by # "run"
    BY DEF NoneMine
  <2>3. others # "none"
    BY <2>1, <2>2 DEF Alone
  <2>4. others' = "carried out"
    BY <1>1, <1>2, <2>2, <2>3 DEF Nav2Step, ForOthers, Undisturbed, TypeOK
  <2> QED BY <2>4 DEF Undisturbed
<1> QED BY <1>1, <1>2

----------------------------------------------------------------------------
\* What the steps leave of Nav2 for one another.

\* Where each step can be, it stays.
LEMMA PlaceStep ==
  ASSUME StepInPlace, [Next]_vars
  PROVE  StepInPlace'
<1> USE DEF StepInPlace
<1>1. ASSUME UNCHANGED <<at, left>>
      PROVE  StepInPlace'
  BY <1>1 DEF Step
<1>2. ASSUME at' \in {"idle", "enter"}
      PROVE  StepInPlace'
  BY <1>2
<1>3. CASE RunStep
  <2>1. CASE Succeed \/ Fail \/ Raise \/ HandoffFails \/ \E v : Finish(v)
    <3>1. at' \in {"idle", "enter"}
      BY <2>1, EndsIdle DEF Succeed, Finish
    <3> QED BY <3>1, <1>2
  <2>2. ASSUME NEW p \in Places, GoTo(p)
        PROVE  at' = p /\ Step' = Step
    BY <2>2 DEF GoTo, Step
  <2>3. CASE \E p \in Places : GoTo(p)
    <3>1. PICK p \in Places : GoTo(p)
      BY <2>3
    <3>2. at' = p /\ Step' = Step
      BY <2>2, <3>1
    <3>3. CASE Resumed \/ Paused
      BY <1>3, <2>1, <3>2, <3>3 DEF Resumed, Paused, AfterResume, AfterPause, GoTo, DriveSteps
    <3>4. CASE Ready \/ EnterDriveStep \/ DriveReturns \/ PauseNav2 \/ HoldNav2 \/ RecoverStarts
               \/ RecoverFolds
      BY <1>3, <2>1, <3>2, <3>4 DEF Ready, EnterDriveStep, DriveReturns, PauseNav2, HoldNav2,
               RecoverStarts, RecoverFolds, AtStep, ResumeIfPaused, GoTo, DriveSteps
    <3>5. CASE \/ Interrupt \/ HandoffRefused \/ HandoffTimesOut \/ SimpleStep \/ WaitActive
               \/ WorkEnds \/ PickEnds
      BY <2>1, <3>5 DEF Interrupt, HandoffRefused, HandoffTimesOut, SimpleStep, WaitActive,
               WorkEnds, PickEnds
    <3>6. CASE Drive
      BY <3>6 DEF Drive, Step
    <3> QED BY <1>3, <3>3, <3>4, <3>5, <3>6 DEF RunStep, RunAction
  <2>4. CASE Drive
    BY <2>4 DEF Drive, Step
  <2>5. \/ Succeed \/ Fail \/ Raise \/ HandoffFails \/ \E v : Finish(v)
        \/ \E p \in Places : GoTo(p)
        \/ Drive
    BY <1>3 DEF RunStep, RunAction, Interrupt, Resumed, Paused, HandoffRefused, HandoffTimesOut,
           AfterResume, AfterPause, SimpleStep, Ready, WaitActive, EnterDriveStep, DriveReturns,
           WorkEnds, PauseNav2, HoldNav2, PickEnds, RecoverStarts, RecoverFolds, ResumeIfPaused,
           Places
  <2> QED BY <2>1, <2>3, <2>4, <2>5
<1>4. CASE ButtonStep
  BY <1>4, <1>1 DEF ButtonStep, RunGone, ButtonRefused, Answered, AskTimesOut, AskNav2, run
<1>5. CASE StartMission \/ StartRecover
  BY <1>5, <1>2 DEF StartMission, StartRecover, BeginRun
<1>6. CASE Stop \/ ButtonPressed
  BY <1>6, <1>1 DEF Stop, ButtonPressed
<1>7. CASE Nav2Step
  BY <1>7, <1>1 DEF Nav2Step, run
<1>8. CASE UNCHANGED vars
  BY <1>8, <1>1 DEF vars, run
<1> QED BY <1>3, <1>4, <1>5, <1>6, <1>7, <1>8 DEF Next, Operator

\* A PAUSE that was answered was carried out to the last node.
LEMMA PauseStep ==
  ASSUME TypeOK, Nav2InOrder, MineInOrder, Alone, PauseHolds, [Next]_vars
  PROVE  PauseHolds'
<1> SUFFICES ASSUME at' = "pausing", answer'["run"] = "ok", Undisturbed'
             PROVE  MotionPaused'
  BY DEF PauseHolds
<1>1. ASSUME UNCHANGED <<at, lc, others>>, answer'["run"] = answer["run"]
      PROVE  MotionPaused'
  BY <1>1 DEF PauseHolds, MotionPaused, Undisturbed
<1>2. ~RunStep
  <2> SUFFICES ASSUME RunAction PROVE FALSE
    BY DEF RunStep
  <2>1. ~Succeed /\ ~Fail /\ ~Raise /\ ~HandoffFails /\ \A v : ~Finish(v)
    BY EndsIdle DEF Succeed
  <2>2. ~Request("run", "PAUSE")
    BY MissionAssumption DEF Request, TypeOK, Nav2TypeOK
  <2>3. ~PauseNav2 /\ ~HoldNav2
    BY <2>1, <2>2 DEF PauseNav2, HoldNav2, GoTo
  <2>4. ~Interrupt /\ ~HandoffTimesOut /\ ~HandoffRefused /\ ~SimpleStep /\ ~WaitActive
        /\ ~WorkEnds /\ ~PickEnds /\ ~Drive /\ ~DriveReturns
    BY <2>1 DEF Interrupt, HandoffTimesOut, HandoffRefused, SimpleStep, WaitActive, WorkEnds,
                PickEnds, Drive, DriveReturns, GoTo
  <2>5. ~Resumed /\ ~Paused
    BY <2>1 DEF Resumed, Paused, AfterResume, AfterPause, GoTo
  <2>6. ~Ready /\ ~EnterDriveStep /\ ~RecoverStarts /\ ~RecoverFolds
    BY <2>1 DEF Ready, EnterDriveStep, RecoverStarts, RecoverFolds, ResumeIfPaused, GoTo
  <2> QED BY <2>3, <2>4, <2>5, <2>6 DEF RunAction
<1>3. CASE ButtonStep
  <2>1. UNCHANGED <<at, lc, others>>
    BY <1>3 DEF ButtonStep, RunGone, ButtonRefused, Answered, AskTimesOut, AskNav2, Request, run,
                nav2
  <2>2. answer'["run"] = answer["run"]
    BY <1>3, MissionAssumption DEF ButtonStep, RunGone, ButtonRefused, Answered, AskTimesOut,
                AskNav2, Request, Abandon, nav2, TypeOK, Nav2TypeOK
  <2> QED BY <2>1, <2>2, <1>1
<1>4. CASE Operator
  BY <1>4, <1>1 DEF Operator, StartMission, StartRecover, BeginRun, Stop, ButtonPressed, nav2
<1>5. CASE Nav2Step
  <2>1. UNCHANGED at
    BY <1>5 DEF Nav2Step, run
  <2>2. CASE answer["run"] = "ok"
    <3>1. NoneMine
      BY <2>1, <2>2 DEF MineInOrder, OneMine
    <3>2. Undisturbed /\ lc' = lc
      BY <1>5, <2>1, <3>1, Still
    <3> QED BY <2>1, <2>2, <3>2 DEF PauseHolds, MotionPaused
  <2>3. CASE answer["run"] # "ok"
    <3>1. Complete /\ cur.by = "run"
      BY <1>5, <2>3, MissionAssumption DEF Nav2Step, Nav2Next, Manager, Begin, Refuse, Complete,
                Reply, ChangeNode, StrayGoal, GoalEnds, TypeOK, Nav2TypeOK
    <3>2. cur.cmd = "PAUSE"
      BY <2>1, <3>1 DEF MineInOrder, NoneMine, OneMine
    <3>3. \A n \in Nodes : lc[n] = "inactive"
      BY <3>1, <3>2 DEF Complete, Nav2InOrder, CommandInOrder
    <3> QED BY <3>1, <3>3, NodesAssumption DEF Complete, Reply, MotionPaused
  <2> QED BY <2>2, <2>3
<1>6. CASE UNCHANGED vars
  BY <1>6, <1>1 DEF vars, run, nav2
<1> QED BY <1>2, <1>3, <1>4, <1>5, <1>6 DEF Next

\* A step ends well: the next one needs Nav2 only where this one did, or was
\* the wait for it, and a pick with Nav2 follows the pause.
LEMMA NextStep ==
  ASSUME TypeOK, StackReady, at # "idle", Succeed, UNCHANGED lc, Undisturbed' => Undisturbed,
         Undisturbed => \/ AllActive
                        \/ Step \in {"Home arm", "Pause Nav2", "Pick", "Recover"}
                        \/ Step = "Ready" /\ ~nav,
         Undisturbed /\ Step = "Pause Nav2" => MotionPaused
  PROVE  StackReady'
<1>1. CASE Len(left) = 1
  BY <1>1 DEF Succeed, Finish, StackReady
<1>2. CASE Len(left) # 1
  <2>1. left \in Seq(StepNames) /\ left # <<>>
    BY DEF TypeOK, RunTypeOK
  <2>2. Len(left) \notin {0, 1}
    BY <1>2, <2>1, NotEmpty, Zenon
  <2>3. Chain(nav, left)
    BY DEF StackReady
  <2>4. Chain(nav, Tail(left)) /\ Follows(nav, Head(left), Head(Tail(left)))
    BY <2>1, <2>2, <2>3, TailChain
  <2>5. left' = Tail(left) /\ at' = "enter" /\ nav' = nav
    BY <1>2 DEF Succeed
  <2>6. Chain(nav, left)'
    BY <2>4, <2>5
  <2>7. Follows(nav, Step, Step')
    BY <2>4, <2>5 DEF Step
  <2>8. Undisturbed' /\ Step' \in NeedsNav2 => AllActive
    BY <2>7 DEF Follows, NeedsNav2, DriveSteps
  <2>9. Undisturbed' /\ Step' = "Pick" /\ nav' => MotionPaused
    BY <2>5, <2>7 DEF Follows
  <2> QED BY <2>5, <2>6, <2>8, <2>9 DEF StackReady, AllActive, MotionPaused
<1> QED BY <1>1, <1>2

\* A step goes on at another place.
LEMMA SameStep ==
  ASSUME StackReady, at # "idle", UNCHANGED <<left, nav, lc>>, Undisturbed' => Undisturbed,
         Step \in NeedsNav2 /\ Undisturbed' => at' # "resuming" /\ (at = "pausing" => at' = "pausing")
  PROVE  StackReady'
<1>1. /\ Chain(nav, left)' /\ Step' = Step /\ AllActive' = AllActive
      /\ MotionPaused' = MotionPaused
  BY DEF StackReady, Chain, Step, AllActive, MotionPaused
<1> QED BY <1>1 DEF StackReady

\* Nothing is asked of the stack between runs.
LEMMA StackOver == ASSUME at' = "idle" PROVE StackReady'
BY DEF StackReady

\* Every step of a run keeps the stack ready for the steps that drive or pick.
LEMMA RunStepStack ==
  ASSUME TypeOK, StepInPlace, MineInOrder, PauseHolds, StackReady, RunStep
  PROVE  StackReady'
<1> USE DEF NeedsNav2, DriveSteps
<1>1. CASE at' = "idle"
  BY <1>1, StackOver
<1>2. CASE at' # "idle"
  <2>1. Undisturbed' => Undisturbed
    BY <1>2 DEF RunStep, Undisturbed
  <2>2. ~Fail /\ ~Raise /\ ~HandoffFails /\ \A v : ~Finish(v)
    BY <1>2, EndsIdle
  <2>3. RunAction
    BY DEF RunStep
  <2>4. ~Interrupt /\ ~HandoffRefused /\ ~HandoffTimesOut
    BY <2>2 DEF Interrupt, HandoffRefused, HandoffTimesOut
  <2>5. CASE Resumed
    BY <2>1, <2>2, <2>5, SameStep DEF Resumed, AfterResume, GoTo, nav2
  <2>6. CASE Paused
    <3>1. at = "pausing" /\ answer["run"] = "ok" /\ UNCHANGED lc /\ AfterPause
      BY <2>2, <2>6 DEF Paused, nav2
    <3>2. CASE Step = "Pick"
      BY <2>1, <3>1, <3>2, SameStep DEF AfterPause, GoTo
    <3>3. CASE Step = "Pause Nav2"
      BY <2>1, <3>1, <3>3, NextStep DEF AfterPause, PauseHolds
    <3> QED BY <3>1, <3>2, <3>3 DEF StepInPlace
  <2>7. CASE SimpleStep \/ WaitActive \/ WorkEnds \/ PickEnds
    <3>1. UNCHANGED lc /\ at \notin {"idle", "pausing"} /\ Succeed
      BY <2>2, <2>7 DEF SimpleStep, WaitActive, WorkEnds, PickEnds, nav2
    <3>2. Undisturbed /\ Step \in NeedsNav2 => AllActive
      BY <3>1 DEF StackReady
    <3>3. Step # "Pause Nav2"
      BY <2>7 DEF SimpleStep, WaitActive, WorkEnds, PickEnds, StepInPlace
    <3>4. Undisturbed => \/ AllActive
                         \/ Step \in {"Home arm", "Pause Nav2", "Pick", "Recover"}
                         \/ Step = "Ready" /\ ~nav
      <4>1. CASE WaitActive
        BY <2>2, <4>1 DEF WaitActive
      <4>2. CASE SimpleStep \/ WorkEnds \/ PickEnds
        BY <3>2, <4>2 DEF SimpleStep, WorkEnds, PickEnds, StepInPlace
      <4> QED BY <2>7, <4>1, <4>2
    <3> QED BY <2>1, <3>1, <3>3, <3>4, NextStep
  <2>8. CASE Ready
    BY <2>1, <2>2, <2>8, SameStep DEF Ready, AtStep, ResumeIfPaused, Request, GoTo, nav2
  <2>9. CASE EnterDriveStep
    <3>1. Undisturbed => AllActive
      BY <2>9 DEF EnterDriveStep, StackReady
    <3>2. Undisturbed => lc[Controller] = "active"
      BY <3>1, NodesAssumption DEF AllActive
    <3> QED BY <2>1, <2>2, <2>9, <3>2, SameStep DEF EnterDriveStep, ResumeIfPaused, Request, GoTo,
                                                    nav2
  <2>10. CASE Drive
    BY <2>1, <2>10, SameStep DEF Drive
  <2>11. CASE DriveReturns
    BY <2>1, <2>2, <2>11, SameStep DEF DriveReturns, GoTo
  <2>12. CASE PauseNav2
    BY <2>1, <2>12, SameStep DEF PauseNav2, AtStep, Request, GoTo
  <2>13. CASE HoldNav2
    BY <2>1, <2>2, <2>13, SameStep DEF HoldNav2, AtStep, Request, GoTo, nav2
  <2>14. CASE RecoverStarts
    BY <2>1, <2>2, <2>14, SameStep DEF RecoverStarts, AtStep, GoTo, nav2
  <2>15. CASE RecoverFolds
    <3>1. Step = "Recover" /\ at = "retreating"
      BY <2>15 DEF RecoverFolds, StepInPlace
    <3> QED BY <2>1, <2>2, <2>15, <3>1, SameStep DEF RecoverFolds, ResumeIfPaused, Request, GoTo
  <2> QED BY <2>3, <2>4, <2>5, <2>6, <2>7, <2>8, <2>9, <2>10, <2>11, <2>12, <2>13, <2>14, <2>15
          DEF RunAction
<1> QED BY <1>1, <1>2

\* And so does every other step: the buttons wait for the run to be gone, and the
\* manager has no command of the run's to carry out while it drives.
LEMMA StackStep ==
  ASSUME TypeOK, StepInPlace, MineInOrder, Alone, PauseHolds, StackReady, [Next]_vars
  PROVE  StackReady'
<1>1. ASSUME UNCHANGED <<left, nav, at, lc, others>>
      PROVE  StackReady'
  BY <1>1 DEF StackReady, Chain, Step, AllActive, MotionPaused, Undisturbed
<1>2. CASE RunStep
  BY <1>2, RunStepStack
<1>3. CASE ButtonStep
  BY <1>3, <1>1 DEF ButtonStep, RunGone, ButtonRefused, AskNav2, Answered, AskTimesOut, Request,
                    run, nav2
<1>4. CASE StartMission
  <2>1. PICK f \in Flags : left' = Tree(f) /\ nav' = f.nav
    BY <1>4 DEF StartMission
  <2>2. Chain(nav, left)'
    BY <2>1, TreeChain
  <2>3. Step' = "Home arm"
    <3>1. Head(Tree(f)) = "Home arm"
      BY TreeHead
    <3> QED BY <2>1, <3>1 DEF Step
  <2> QED BY <2>2, <2>3 DEF StackReady, NeedsNav2, DriveSteps
<1>5. CASE StartRecover
  <2>1. left' = <<"Recover">>
    BY <1>5 DEF StartRecover
  <2>2. Chain(nav, left)'
    BY <2>1 DEF Chain
  <2>3. Step' = "Recover"
    BY <2>1 DEF Step
  <2> QED BY <2>2, <2>3 DEF StackReady, NeedsNav2, DriveSteps
<1>6. CASE Stop \/ ButtonPressed
  BY <1>6, <1>1 DEF Stop, ButtonPressed, nav2
<1>7. CASE Nav2Step
  <2>1. UNCHANGED <<left, nav, at>> /\ Step' = Step /\ Chain(nav, left)' = Chain(nav, left)
    BY <1>7 DEF Nav2Step, run, Step, Chain
  <2>2. Undisturbed' => Undisturbed
    BY <1>7 DEF Nav2Step, Undisturbed
  <2>3. CASE UNCHANGED lc
    BY <2>1, <2>2, <2>3 DEF StackReady, AllActive, MotionPaused
  <2>4. CASE lc' # lc /\ at # "idle" /\ Undisturbed'
    <3>1. ~NoneMine
      BY <1>7, <2>4, Still
    <3>2. CASE at = "resuming"
      <4>1. Step \in {"Ready", "Find target", "Recover"}
        BY <3>2 DEF StepInPlace
      <4>2. Step \notin NeedsNav2
        BY <2>2, <2>4, <3>2 DEF StackReady
      <4> QED BY <2>1, <2>4, <4>1, <4>2 DEF StackReady
    <3>3. CASE at = "pausing"
      <4>1. OneMine("PAUSE") /\ ~NoneMine
        BY <3>1, <3>3 DEF MineInOrder
      <4>2. PICK n \in Nodes : ChangeNode(n)
        BY <1>7, <2>4 DEF Nav2Step, Nav2Next, Manager, Begin, Refuse, Complete, Reply, StrayGoal,
                          GoalEnds
      <4>3. cur.by = "run"
        BY <1>7, <2>4, <4>2, <2>2 DEF Nav2Step, ForOthers, Undisturbed, Alone, TypeOK, ChangeNode
      <4>4. cur.cmd = "PAUSE"
        BY <4>1, <4>3 DEF OneMine
      <4>5. lc' = [lc EXCEPT ![n] = "inactive"]
        BY <4>2, <4>4 DEF ChangeNode, To
      <4>6. MotionPaused => MotionPaused'
        BY <4>5, NodesAssumption DEF MotionPaused, TypeOK, Nav2TypeOK
      <4> QED BY <2>1, <2>2, <2>4, <3>3, <4>6 DEF StackReady
    <3> QED BY <3>1, <3>2, <3>3 DEF MineInOrder
  <2>5. CASE at = "idle" \/ ~Undisturbed'
    BY <2>1, <2>5 DEF StackReady
  <2> QED BY <2>3, <2>4, <2>5
<1>8. CASE UNCHANGED vars
  BY <1>8, <1>1 DEF vars, run, nav2
<1> QED BY <1>2, <1>3, <1>4, <1>5, <1>6, <1>7, <1>8 DEF Next, Operator

----------------------------------------------------------------------------
\* Who moves the base.

\* A motion node that is inactive cannot be the controller of a goal.
LEMMA NoGoal ==
  ASSUME Nav2InOrder', MotionPaused'
  PROVE  ~driving'
<1>1. lc'[Controller] = "inactive"
  BY NodesAssumption DEF MotionPaused
<1> QED BY <1>1 DEF Nav2InOrder, GoalNeedsController

\* The pick begins only over a stack that the run has paused or found paused, and
\* nothing wakes it then.
LEMMA OwnershipStep ==
  ASSUME TypeOK, OwnershipInv, Nav2InOrder', [Next]_vars
  PROVE  BaseOwnership'
<1> SUFFICES ASSUME Owning', Undisturbed'
             PROVE  MotionPaused' /\ ~driving'
  BY DEF BaseOwnership
<1> USE DEF OwnershipInv
<1>1. ASSUME UNCHANGED <<at, nav, lc, driving, others>>
      PROVE  MotionPaused' /\ ~driving'
  BY <1>1 DEF BaseOwnership, Owning, MotionPaused, Undisturbed
<1>2. CASE RunStep
  <2>1. at' \in {"reaching", "reaching blind"} /\ RunAction /\ Undisturbed
    BY <1>2 DEF Owning, RunStep, Undisturbed
  <2>2. ~Succeed /\ ~Fail /\ ~Raise /\ ~HandoffFails /\ \A v : ~Finish(v)
    BY <2>1, EndsIdle DEF Succeed
  <2>3. Paused \/ HoldNav2
    <3>1. ~Interrupt /\ ~HandoffTimesOut /\ ~HandoffRefused /\ ~SimpleStep /\ ~WaitActive
          /\ ~WorkEnds /\ ~PickEnds /\ ~Drive /\ ~DriveReturns
      BY <2>1, <2>2 DEF Interrupt, HandoffTimesOut, HandoffRefused, SimpleStep, WaitActive,
                  WorkEnds, PickEnds, Drive, DriveReturns, GoTo
    <3>2. ~Resumed /\ ~Ready /\ ~EnterDriveStep /\ ~RecoverStarts /\ ~RecoverFolds /\ ~PauseNav2
      BY <2>1, <2>2 DEF Resumed, AfterResume, Ready, EnterDriveStep, RecoverStarts, RecoverFolds,
                  PauseNav2, ResumeIfPaused, GoTo
    <3> QED BY <2>1, <3>1, <3>2 DEF RunAction
  <2>4. MotionPaused
    <3>1. CASE Paused
      BY <2>1, <3>1 DEF Paused, PauseHolds
    <3>2. CASE HoldNav2 /\ lc[Controller] = "inactive"
      BY <3>2, NodesAssumption DEF Nav2InOrder, ControllerTells, MotionPaused
    <3>3. CASE HoldNav2 /\ GoTo("reaching blind")
      <4>1. at' = "reaching blind" /\ nav' = nav /\ Step = "Pick" /\ at # "idle"
        BY <3>3 DEF HoldNav2, GoTo, AtStep
      <4>2. nav
        BY <4>1 DEF Owning
      <4> QED BY <2>1, <4>1, <4>2 DEF StackReady
    <3>4. ~GoTo("pausing")
      BY <2>1 DEF GoTo
    <3> QED BY <2>2, <2>3, <3>1, <3>2, <3>3, <3>4 DEF HoldNav2
  <2>5. UNCHANGED lc
    BY <2>3 DEF Paused, HoldNav2, Request, nav2
  <2> QED BY <2>4, <2>5, NoGoal DEF MotionPaused
<1>3. CASE ButtonStep
  BY <1>3, <1>1 DEF ButtonStep, RunGone, ButtonRefused, AskNav2, Answered, AskTimesOut, Request,
                    run, nav2
<1>4. CASE Operator
  BY <1>4, <1>1 DEF Operator, StartMission, StartRecover, BeginRun, Stop, ButtonPressed, nav2,
                    Owning
<1>5. CASE Nav2Step
  <2>1. UNCHANGED <<at, nav>>
    BY <1>5 DEF Nav2Step, run
  <2>2. NoneMine /\ at # "idle"
    BY <2>1 DEF MineInOrder, Owning
  <2>3. Undisturbed /\ lc' = lc
    BY <1>5, <2>2, Still
  <2>4. MotionPaused
    BY <2>1, <2>3 DEF BaseOwnership, Owning
  <2> QED BY <2>3, <2>4, NoGoal DEF MotionPaused
<1>6. CASE UNCHANGED vars
  BY <1>6, <1>1 DEF vars, run, nav2
<1> QED BY <1>2, <1>3, <1>4, <1>5, <1>6 DEF Next

\* Every step keeps every part of the invariant.
LEMMA InvStep ==
  ASSUME TypeOK, OwnershipInv, [Next]_vars
  PROVE  OwnershipInv'
<1> USE DEF OwnershipInv
<1>1. Nav2InOrder'
  BY StepInOrder
<1>2. StepInPlace' /\ MineInOrder' /\ Alone'
  BY PlaceStep, MineStep, AloneStep
<1>3. PauseHolds' /\ StackReady'
  BY PauseStep, StackStep
<1>4. BaseOwnership'
  BY <1>1, OwnershipStep
<1> QED BY <1>1, <1>2, <1>3, <1>4

\* Whatever is asked of the lifecycle manager, by whom and when, and whatever of
\* it a client's discovery misses: the run's requests are in order, its PAUSE
\* holds, and each step leaves Nav2 as the next one needs it - until a command
\* that was under way when the run began changes a node.
THEOREM OwnershipHolds == Spec => []OwnershipInv
<1>1. Init => TypeOK /\ OwnershipInv
  <2> SUFFICES ASSUME Init PROVE OwnershipInv
    BY InitType
  <2>1. Nav2InOrder
    BY NodesAssumption DEF Init, Nav2Init, NoCmd, Idle, Nav2InOrder, ControllerTells,
                           CommandInOrder, GoalNeedsController
  <2>2. StepInPlace /\ Alone /\ PauseHolds /\ StackReady /\ BaseOwnership
    BY DEF Init, StepInPlace, Alone, PauseHolds, StackReady, BaseOwnership, Owning
  <2>3. MineInOrder
    <3>1. cmds = <<>> /\ cur.by = "nobody" /\ at = "idle"
      BY DEF Init, Nav2Init, NoCmd
    <3>2. NoneMine
      BY <3>1, MissionAssumption, NodesAssumption DEF NoneMine
    <3> QED BY <3>1, <3>2 DEF MineInOrder
  <2> QED BY <2>1, <2>2, <2>3 DEF OwnershipInv
<1>2. TypeOK /\ OwnershipInv /\ [Next]_vars => TypeOK' /\ OwnershipInv'
  BY TypeStep, InvStep
<1> QED BY <1>1, <1>2, PTL DEF Spec

\* While a pick moves the base through MoveIt no Nav2 node that could move it is
\* active and no goal does (pick.hold_nav2, Pause Nav2, server.take_over).  A
\* mission's pick need not find Nav2 for that: its Pause Nav2 has.
THEOREM BaseIsOwned == Spec => []BaseOwnership
<1>1. OwnershipInv => BaseOwnership
  BY DEF OwnershipInv
<1> QED BY <1>1, OwnershipHolds, PTL

\* No failure has the exit code of success.
LEMMA CodesDiffer == \A v \in {3, 4, 130} : v # 0
OBVIOUS

\* A run that ends well on Pause Nav2 or on a pick that knew of Nav2 leaves it
\* paused, also when nobody could read its nodes back: the PAUSE was answered.
THEOREM HandoffHolds == Spec => HandoffOnSuccess
<1> DEFINE Handoff == at # "idle" /\ at' = "idle" /\ code' = 0 /\ Undisturbed
                        /\ (Step = "Pause Nav2" \/ Owning) => MotionPaused'
<1>1. OwnershipInv /\ [Next]_vars => [Handoff]_vars
  <2> SUFFICES ASSUME OwnershipInv, Next, at # "idle", at' = "idle", code' = 0, Undisturbed,
                      Step = "Pause Nav2" \/ Owning
               PROVE  MotionPaused'
    OBVIOUS
  <2>1. StepInPlace /\ BaseOwnership /\ PauseHolds
    BY DEF OwnershipInv
  <2>2. Step \in {"Pause Nav2", "Pick"}
    BY <2>1 DEF StepInPlace, Owning
  <2>3. RunAction
    BY DEF Next, RunStep, ButtonStep, RunGone, ButtonRefused, AskNav2, Answered, AskTimesOut, run,
           Operator, StartMission, StartRecover, BeginRun, Stop, ButtonPressed, Nav2Step
  <2>4. ~Fail /\ ~Raise /\ ~HandoffFails
    <3>1. ExitCode(Step) \in {3, 4}
      BY <2>2 DEF ExitCode
    <3>2. ASSUME NEW v \in {3, 4, 130}, Finish(v)
          PROVE  FALSE
      <4>1. code' = v
        BY <3>2 DEF Finish
      <4> QED BY <4>1, CodesDiffer, Zenon
    <3> QED BY <2>2, <3>1, <3>2 DEF Fail, Raise, HandoffFails
  <2>5. ~Interrupt /\ ~HandoffRefused /\ ~HandoffTimesOut
    <3>1. ASSUME Finish(Interrupted)
          PROVE  FALSE
      <4>1. code' = 130
        BY <3>1 DEF Finish, Interrupted
      <4> QED BY <4>1, CodesDiffer, Zenon
    <3> QED BY <2>4, <3>1 DEF Interrupt, HandoffRefused, HandoffTimesOut
  <2>6. CASE Paused
    BY <2>1, <2>6 DEF Paused, PauseHolds, MotionPaused, nav2
  <2>7. CASE PickEnds
    <3>1. Owning
      BY <2>1, <2>7 DEF PickEnds, StepInPlace
    <3> QED BY <2>1, <2>7, <3>1 DEF PickEnds, BaseOwnership, MotionPaused, nav2
  <2>8. ~Resumed /\ ~WaitActive /\ ~WorkEnds /\ ~DriveReturns /\ ~RecoverFolds
    BY <2>1, <2>2 DEF Resumed, WaitActive, WorkEnds, DriveReturns, RecoverFolds, StepInPlace, DriveSteps
  <2>9. ~SimpleStep /\ ~Ready /\ ~EnterDriveStep /\ ~Drive /\ ~RecoverStarts
    BY <2>2 DEF SimpleStep, Ready, EnterDriveStep, Drive, RecoverStarts, AtStep, DriveSteps
  <2>10. ~PauseNav2 /\ ~HoldNav2
    BY <2>4 DEF PauseNav2, HoldNav2, GoTo
  <2> QED BY <2>3, <2>5, <2>6, <2>7, <2>8, <2>9, <2>10 DEF RunAction
<1>2. Spec => []OwnershipInv
  BY OwnershipHolds
<1> QED BY <1>1, <1>2, PTL DEF Spec, HandoffOnSuccess

\* Every step that drives does so over a stack that is all active: get_ready's
\* wait holds to the end of the last drive, whatever the buttons are pressed for.
THEOREM DrivesOverActiveStack == Spec => []DriveNeedsNav2
<1>1. OwnershipInv => DriveNeedsNav2
  BY DEF OwnershipInv, StackReady, StepInPlace, NeedsNav2, DriveNeedsNav2
<1> QED BY <1>1, OwnershipHolds, PTL
=============================================================================
