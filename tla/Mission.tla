------------------------------ MODULE Mission ------------------------------
(***************************************************************************)
(* One run of the robot - the mission tree with its pick, or the arm's     *)
(* recovery - and who owns the base meanwhile: Nav2, while it drives, or   *)
(* MoveIt, while the pick reaches.  The dashboard starts the runs, stops   *)
(* them (SIGINT) and has two buttons of its own for Nav2.                  *)
(*                                                                         *)
(* Sources: core/pipeline/mission_tree.py, core/pipeline/actions.py,       *)
(* core/navigation/nav2_client.py, core/grasping/pick.py (hold_nav2 and    *)
(* the outcome), realrobot/live/recover_home.py, web/server.py.            *)
(***************************************************************************)
EXTENDS Nav2Lifecycle

CONSTANTS
  MaxDrives,  \* bound: drives of one step
  MaxPending  \* bound: requests waiting when a run begins or a button asks

ASSUME MissionAssumption ==
  /\ Clients = {"run", "button"}
  /\ MaxDrives \in Nat
  /\ MaxPending \in Nat

VARIABLES
  left,    \* the run's steps still to do, the one being done first
  nav,     \* FALSE for the pick alone
  at,      \* where in that step the run is; "idle" without a run
  code,    \* what the last run exited with, 0 while one is on
  drives,  \* drives the current step has made
  sigint,  \* the run has been sent SIGINT
  button,  \* the dashboard thread of a Nav2 button
  others   \* history: what became, during this run, of commands at the manager
           \* that were asked for, or about to be, when it began: there were
           \* "none", they are "waiting", or one has been "carried out" in part

run  == <<left, nav, at, code, drives, sigint>>
vars == <<nav2, run, button, others>>

----------------------------------------------------------------------------
\* The tree of mission_tree.build, for the flags that mission_tree.run accepts.

StepNames == {"Home arm", "Ready", "Home head", "Choose location", "Go there",
              "Find target", "Explore views", "Park", "Pause Nav2", "Pick", "Recover"}

DriveSteps == {"Go there", "Find target", "Explore views", "Park"}

Flags == {f \in [nav : BOOLEAN, navigate_only : BOOLEAN, active_perception : BOOLEAN,
                 grasp : BOOLEAN] :
            f.nav \/ (f.grasp /\ ~f.navigate_only /\ ~f.active_perception)}

Tree(f) ==
  IF ~f.nav THEN <<"Home arm", "Ready", "Pick">>
  ELSE IF f.navigate_only
    THEN <<"Home arm", "Ready", "Home head", "Choose location", "Go there">>
  ELSE <<"Home arm", "Ready", "Home head", "Find target">>
       \o (IF f.active_perception THEN <<"Explore views">> ELSE <<>>)
       \o <<"Park", "Pause Nav2">>
       \o (IF f.grasp THEN <<"Pick">> ELSE <<>>)

Step == Head(left)

ExitCode(s) ==
  IF s \in {"Choose location", "Find target"} THEN 1
  ELSE IF s \in {"Go there", "Park"} THEN 2
  ELSE IF s = "Pick" THEN 4
  ELSE 3

Interrupted == 130

----------------------------------------------------------------------------
\* How a run goes on and how it ends.

GoTo(place) == at' = place /\ UNCHANGED <<left, nav, code, drives, sigint>>

Finish(v) ==
  /\ at' = "idle"
  /\ code' = v
  /\ left' = <<>>
  /\ drives' = 0
  /\ sigint' = FALSE
  /\ UNCHANGED nav

Succeed ==
  IF Len(left) = 1 THEN Finish(0)
  ELSE /\ left' = Tail(left)
       /\ at' = "enter"
       /\ drives' = 0
       /\ UNCHANGED <<nav, code, sigint>>

Fail  == Finish(ExitCode(Step))  \* the action returned False
Raise == Finish(3)               \* the action raised: main's except clause

\* A RuntimeError raised during a handoff.  recover_home.resume_nav swallows
\* it; the pick's process prints it and exits 1, which is NOT_PICKED.
HandoffFails ==
  IF Step = "Recover" THEN Finish(0) ELSE IF Step = "Pick" THEN Fail ELSE Raise

----------------------------------------------------------------------------
\* Starting and stopping.

\* begin looks at the page's run only: Nav2 may still be carrying out what an
\* earlier run or a button asked for.  A button that waits for the run before
\* this one has its wait over and goes on.
BeginRun ==
  /\ at = "idle"
  /\ Len(cmds) < MaxPending
  /\ at' = "enter"
  /\ button' = IF button = "stopping" THEN "taken over" ELSE button
  /\ others' = IF Quiet /\ button = "idle" THEN "none" ELSE "waiting"
  /\ code' = 0
  /\ UNCHANGED <<drives, sigint, nav2>>

StartMission == BeginRun /\ \E f \in Flags : left' = Tree(f) /\ nav' = f.nav

StartRecover == BeginRun /\ left' = <<"Recover">> /\ nav' = TRUE

Stop ==
  /\ at # "idle"
  /\ sigint' = TRUE
  /\ UNCHANGED <<left, nav, at, code, drives, button, nav2, others>>

\* The KeyboardInterrupt comes out of whatever the run is blocked in.  A drive
\* goal is cancelled first; if that is not confirmed, the goal may still be
\* running and the RuntimeError that says so takes the interrupt's place.
Interrupt ==
  /\ sigint
  /\ at # "idle"
  /\ Finish(Interrupted) \/ (at = "driving" /\ Raise)
  /\ Abandon("run")
  /\ driving' \in {FALSE, driving}
  /\ UNCHANGED <<lc, button>>

----------------------------------------------------------------------------
\* Pausing and resuming Nav2.

\* Navigator.resume_navigation_if_paused: only the controller is looked at.
ResumeIfPaused(next) ==
  IF lc[Controller] = "inactive"
  THEN Request("run", "RESUME") /\ GoTo("resuming")
  ELSE next /\ UNCHANGED nav2

\* What follows the resume, in the step that asked for it.
AfterResume ==
  CASE Step = "Ready"       -> GoTo("wait active")
    [] Step = "Find target" -> GoTo("work")
    [] OTHER                -> Finish(0)

Resumed ==
  /\ at = "resuming"
  /\ answer["run"] = "ok"
  /\ AfterResume
  /\ UNCHANGED <<nav2, button>>

\* Navigator.pause_navigation reads the motion nodes back after the PAUSE, one
\* after another, and passes over any that its discovery does not find in 2 s.
AfterPause == IF Step = "Pick" THEN GoTo("reaching") ELSE Succeed

\* Variant: the manager's answer is not looked at.
PausedUnchecked ==
  /\ at = "pausing"
  /\ answer["run"] # "none"
  /\ AfterPause
  /\ UNCHANGED <<nav2, button>>

Paused ==
  /\ at = "pausing"
  /\ answer["run"] = "ok"
  /\ \E found \in SUBSET MotionNodes :
       IF \A n \in found : lc[n] = "inactive" THEN AfterPause ELSE HandoffFails
  /\ UNCHANGED <<nav2, button>>

HandoffRefused ==
  /\ at \in {"resuming", "pausing"}
  /\ answer["run"] = "refused"
  /\ HandoffFails
  /\ UNCHANGED <<nav2, button>>

\* _lifecycle_call gives up after 30 s; what it asked for may still happen.
\* Variant: it waits for as long as it takes.
WaitForever == FALSE

HandoffTimesOut ==
  /\ at \in {"resuming", "pausing"}
  /\ HandoffFails
  /\ Abandon("run")
  /\ UNCHANGED <<lc, driving, button>>

----------------------------------------------------------------------------
\* The steps.

AtStep(s) == at = "enter" /\ Step = s

\* Their effect on the arm, the head and the graph is left to other modules.
SimpleStep ==
  /\ at = "enter"
  /\ \/ Step \in {"Home arm", "Choose location"} /\ (Succeed \/ Raise)
     \/ Step = "Choose location" /\ Fail
     \/ Step = "Home head" /\ Succeed  \* _move_head swallows its errors
     \/ Step = "Ready" /\ ~nav /\ (Succeed \/ Raise)
  /\ UNCHANGED <<nav2, button>>

\* get_ready with Nav2: resume it, then wait for its nodes until the deadline.
Ready ==
  /\ AtStep("Ready")
  /\ nav
  /\ \/ ResumeIfPaused(GoTo("wait active"))
     \/ Raise /\ UNCHANGED nav2
  /\ UNCHANGED button

\* Variant: only the controller is waited for.
WaitController ==
  /\ at = "wait active"
  /\ (lc[Controller] = "active" /\ Succeed) \/ Raise
  /\ UNCHANGED <<nav2, button>>

WaitActive ==
  /\ at = "wait active"
  /\ (AllActive /\ Succeed) \/ Raise
  /\ UNCHANGED <<nav2, button>>

EnterDriveStep ==
  /\ at = "enter"
  /\ Step \in DriveSteps
  /\ IF Step = "Find target"
     THEN ResumeIfPaused(GoTo("work")) \/ (Raise /\ UNCHANGED nav2)
     ELSE GoTo("work") /\ UNCHANGED nav2
  /\ UNCHANGED button

\* A goal is accepted by an active stack only; rejected, drive_to is False.
Drive ==
  /\ at = "work"
  /\ drives < MaxDrives
  /\ drives' = drives + 1
  /\ IF AllActive THEN at' = "driving" /\ driving' = TRUE ELSE UNCHANGED <<at, driving>>
  /\ UNCHANGED <<lc, cmds, cur, answer, left, nav, code, sigint, button>>

\* The result, or a timeout whose cancellation was confirmed; unconfirmed, it
\* raises and the goal may still be running.
DriveReturns ==
  /\ at = "driving"
  /\ \/ driving' = FALSE /\ GoTo("work")
     \/ UNCHANGED driving /\ Raise
  /\ UNCHANGED <<lc, cmds, cur, answer, button>>

WorkEnds ==
  /\ at = "work"
  /\ Succeed \/ Fail \/ Raise
  /\ UNCHANGED <<nav2, button>>

PauseNav2 ==
  /\ AtStep("Pause Nav2")
  /\ Request("run", "PAUSE")
  /\ GoTo("pausing")
  /\ UNCHANGED button

\* pick.hold_nav2: only the controller is looked at, and only an active one is
\* paused.  One that discovery does not find is taken for no Nav2 at all.
HoldNav2 ==
  /\ AtStep("Pick")
  /\ \/ lc[Controller] = "active" /\ Request("run", "PAUSE") /\ GoTo("pausing")
     \/ lc[Controller] = "inactive" /\ GoTo("reaching") /\ UNCHANGED nav2
     \/ GoTo("reaching blind") /\ UNCHANGED nav2
     \/ Fail /\ UNCHANGED nav2
  /\ UNCHANGED button

\* From here to the pick's outcome MoveIt moves the whole body.
PickEnds ==
  /\ at \in {"reaching", "reaching blind"}
  /\ Succeed \/ Fail
  /\ UNCHANGED <<nav2, button>>

\* recover_home: the retreat and the fold, then the head and Nav2.
RecoverStarts ==
  /\ AtStep("Recover")
  /\ GoTo("retreating") \/ Finish(1)
  /\ UNCHANGED <<nav2, button>>

\* resume_nav passes over a controller that is not found or does not answer.
RecoverFolds ==
  /\ at = "retreating"
  /\ \/ ResumeIfPaused(Finish(0))
     \/ (Finish(0) \/ Finish(1)) /\ UNCHANGED nav2
  /\ UNCHANGED button

RunAction ==
  \/ Interrupt \/ Resumed \/ Paused \/ HandoffRefused \/ HandoffTimesOut
  \/ SimpleStep \/ Ready \/ WaitActive \/ EnterDriveStep \/ Drive \/ DriveReturns
  \/ WorkEnds \/ PauseNav2 \/ HoldNav2 \/ PickEnds \/ RecoverStarts \/ RecoverFolds

RunStep == RunAction /\ others' = IF at' = "idle" THEN "none" ELSE others

----------------------------------------------------------------------------
\* The dashboard's Nav2 buttons: web/server.py switch_nav2.

\* Variant: the button does not take the run over.
ButtonAlone ==
  /\ button = "idle"
  /\ button' = "taken over"
  /\ UNCHANGED <<run, nav2, others>>

\* take_over: a running run is told to stop ...
ButtonPressed ==
  /\ button = "idle"
  /\ IF at = "idle" THEN button' = "taken over" /\ UNCHANGED sigint
                    ELSE button' = "stopping" /\ sigint' = TRUE
  /\ UNCHANGED <<left, nav, at, code, drives, nav2, others>>

\* ... and waited for, up to STOP_TIMEOUT.
RunGone ==
  /\ button = "stopping"
  /\ at = "idle"
  /\ button' = "taken over"
  /\ UNCHANGED <<run, nav2>>

\* The run would not stop in time, or the manager's service is absent.
ButtonRefused ==
  /\ button \in {"stopping", "taken over"}
  /\ button' = "idle"
  /\ UNCHANGED <<run, nav2>>

AskNav2(c) ==
  /\ button = "taken over"
  /\ Len(cmds) < MaxPending
  /\ Request("button", c)
  /\ button' = "asking"
  /\ UNCHANGED run

Answered ==
  /\ button = "asking"
  /\ answer["button"] # "none"
  /\ button' = "idle"
  /\ UNCHANGED <<run, nav2>>

AskTimesOut ==
  /\ button = "asking"
  /\ button' = "idle"
  /\ Abandon("button")
  /\ UNCHANGED <<lc, driving, run>>

ButtonStep ==
  /\ \/ RunGone \/ ButtonRefused \/ Answered \/ AskTimesOut
     \/ \E c \in Commands : AskNav2(c)
  /\ UNCHANGED others

Operator == StartMission \/ StartRecover \/ Stop \/ ButtonPressed

----------------------------------------------------------------------------

Init ==
  /\ Nav2Init
  /\ left = <<>>
  /\ nav = TRUE
  /\ at = "idle"
  /\ code = 0
  /\ drives = 0
  /\ sigint = FALSE
  /\ button = "idle"
  /\ others = "none"

\* Nav2 changes a node, and not because this run asked for it.
ForOthers == lc' # lc /\ cur.by # "run"

Nav2Step ==
  /\ Nav2Next
  /\ others' = IF others = "waiting" /\ ForOthers THEN "carried out" ELSE others
  /\ UNCHANGED <<run, button>>

Next == RunStep \/ ButtonStep \/ Operator \/ Nav2Step

\* Every wait of a run is bounded (30 s for a handoff, the deadline of
\* get_ready, 300 s for a drive), and so is every wait of a button.  The
\* lifecycle manager need never answer.
Fairness == WF_vars(RunStep) /\ WF_vars(ButtonStep)

Spec == Init /\ [][Next]_vars /\ Fairness

----------------------------------------------------------------------------
\* Properties.

Places == {"idle", "enter", "resuming", "pausing", "wait active", "work", "driving",
           "reaching", "reaching blind", "retreating"}

RunTypeOK ==
  /\ left \in Seq(StepNames)
  /\ left = <<>> <=> at = "idle"
  /\ nav \in BOOLEAN
  /\ at \in Places
  /\ code \in {0, 1, 2, 3, 4, Interrupted}
  /\ drives \in 0..MaxDrives
  /\ sigint \in BOOLEAN

TypeOK ==
  /\ Nav2TypeOK
  /\ RunTypeOK
  /\ button \in {"idle", "stopping", "taken over", "asking"}
  /\ others \in {"none", "waiting", "carried out"}

\* The run's own waits, checks and take-overs are all there is to rely on: no
\* command that was at the manager or on its way when the run began has changed
\* a node since.  begin does not see to that (OwnedAlways).
Undisturbed == others # "carried out"

\* MoveIt moves the base, and hold_nav2 or the Pause Nav2 step before it has
\* found Nav2.  Only a pick without that step relies on hold_nav2's discovery.
Owning == at = "reaching" \/ (at = "reaching blind" /\ nav)

\* While the pick moves the base through MoveIt, no Nav2 motion node is active
\* and no navigation goal moves the base: what the Pause Nav2 step, hold_nav2
\* and the dashboard's take_over are for.
BaseOwnership == Owning /\ Undisturbed => MotionPaused /\ ~driving

\* What hold_nav2 and switch_nav2 say, whatever was asked before the run began
\* and however slow discovery is (does not hold).
OwnedAlways == at \in {"reaching", "reaching blind"} => MotionPaused /\ ~driving

\* The same of the recovery, whose retreat plans for the whole body too.
RecoverOwnership == at = "retreating" => MotionPaused /\ ~driving

\* No step that drives is under way over a stack that is paused or only partly
\* active: get_ready waited for every node, and no button pauses Nav2 before
\* it has taken the run over.
DriveNeedsNav2 == at \in {"work", "driving"} /\ Undisturbed => AllActive

\* A mission that parks and exits 0 leaves Nav2 paused, whether or not it also
\* picks: a pick started from a terminal afterwards relies on it.
HandoffOnSuccess ==
  [][at # "idle" /\ at' = "idle" /\ code' = 0 /\ Undisturbed
       /\ (Step = "Pause Nav2" \/ Owning) => MotionPaused']_vars

\* A run ends, even when the lifecycle manager never answers.
RunEnds == at # "idle" ~> at = "idle"
----------------------------------------------------------------------------
\* Why BaseOwnership holds, as an inductive invariant (MissionProofs).

\* The controller is first to wake and last to sleep, so an inactive one means
\* that every node is inactive: what hold_nav2 takes for granted.
ControllerTells == lc[Controller] = "inactive" => \A n \in Nodes : lc[n] = "inactive"

CommandInOrder ==
  /\ Idle => cur = NoCmd
  /\ cur.cmd = "PAUSE"  => /\ \A n \in Nodes \ cur.todo : lc[n] = "inactive"
                           /\ Controller \in cur.todo \/ cur.todo = {}
  /\ cur.cmd = "RESUME" => /\ \A n \in Nodes \ cur.todo : lc[n] = "active"
                           /\ cur.todo = Nodes \/ Controller \notin cur.todo

GoalNeedsController == driving => lc[Controller] = "active"

\* The run has a request at the manager, for command c, or it has none.
NoneMine == cur.by # "run" /\ \A i \in DOMAIN cmds : cmds[i].by # "run"

OneMine(c) ==
  /\ answer["run"] = "none"
  /\ \/ /\ cur.by # "run"
        /\ \E i \in DOMAIN cmds : /\ cmds[i] = [cmd |-> c, by |-> "run"]
                                 /\ \A j \in DOMAIN cmds \ {i} : cmds[j].by # "run"
     \/ /\ cur.by = "run" /\ cur.cmd = c
        /\ \A i \in DOMAIN cmds : cmds[i].by # "run"

\* It has one only while it waits for the answer: every other way out of the
\* wait gives the request up.
MineInOrder ==
  /\ at = "resuming" => NoneMine \/ OneMine("RESUME")
  /\ at = "pausing"  => NoneMine \/ OneMine("PAUSE")
  /\ at \notin {"resuming", "pausing"} => NoneMine

\* A button waits for the run to be gone: where nothing was asked when the run
\* began, nobody else asks during it.
Alone ==
  at # "idle" /\ others = "none" =>
    /\ button \in {"idle", "stopping"}
    /\ Idle \/ cur.by = "run"
    /\ \A i \in DOMAIN cmds : cmds[i].by = "run"

\* The PAUSE that was answered is in force until somebody else's command.
PauseHolds ==
  at = "pausing" /\ answer["run"] = "ok" /\ Undisturbed => MotionPaused

\* Where each step can be.
StepInPlace ==
  /\ at = "resuming"            => Step \in {"Ready", "Find target", "Recover"}
  /\ at = "pausing"             => Step \in {"Pause Nav2", "Pick"}
  /\ at = "wait active"         => Step = "Ready"
  /\ at \in {"work", "driving"} => Step \in DriveSteps
  /\ at \in {"reaching", "reaching blind"} => Step = "Pick"
  /\ at = "retreating"          => Step = "Recover"

Nav2InOrder == ControllerTells /\ CommandInOrder /\ GoalNeedsController

\* What mission_steps puts after a step: nothing that needs Nav2 comes before
\* Ready has waited for it, and with Nav2 only its pause comes before the pick.
Follows(n, s, t) ==
  /\ s \notin {"Pick", "Recover"}
  /\ s = "Home arm" => t = "Ready"
  /\ s = "Ready" /\ ~n => t = "Pick"
  /\ s = "Pause Nav2" => t = "Pick"
  /\ n /\ t = "Pick" => s = "Pause Nav2"

Chain(n, seq) == \A i \in 1..(Len(seq) - 1) : Follows(n, seq[i], seq[i + 1])

NeedsNav2 == DriveSteps \cup {"Home head", "Choose location", "Pause Nav2"}

\* What one step leaves of Nav2 for the next.
StackReady ==
  at # "idle" =>
    /\ Chain(nav, left)
    /\ Undisturbed /\ Step \in NeedsNav2 /\ at # "pausing" => AllActive /\ at # "resuming"
    /\ Undisturbed /\ Step = "Pick" /\ nav => MotionPaused

OwnershipInv ==
  /\ Nav2InOrder
  /\ StepInPlace
  /\ MineInOrder /\ Alone
  /\ PauseHolds /\ StackReady
  /\ BaseOwnership
=============================================================================
