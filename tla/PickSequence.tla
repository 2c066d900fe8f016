---------------------------- MODULE PickSequence ----------------------------
(***************************************************************************)
(* One pick or arm recovery after another over one running move_group      *)
(* (core/grasping/pick.py pick, realrobot/live/recover_home.py main): what *)
(* a run leaves in move_group's planning scene, its collision exemptions   *)
(* and its depth map, the next one starts from.  A run is killed at any    *)
(* point, or ends by an exception.  The goals of its motions are PickGoal. *)
(***************************************************************************)
EXTENDS Naturals

CONSTANTS
    MaxRuns,        \* bound: runs of the pick and the recovery
    MapTries        \* how often a depth map that overlaps the robot is rebuilt

ASSUME PickSequenceAssumption == MaxRuns \in Nat /\ MapTries \in Nat \ {0}

(* Pairs whose collisions move_group may be told to ignore. *)
Pairs == {"target*fingers", "map*fingers", "map*target", "map*head"}
Modes == {"auto", "pickup", "grasp"}

VARIABLES
    box,            \* the target's collision box: none, an earlier run's, this run's
    attached,       \* the box hangs on the palm
    exempt,         \* the pairs of Pairs that are ignored
    map,            \* the depth map: none, built without this run's box, built with it
    relay,          \* the depth relay feeds the map
    nav,            \* Nav2: absent, paused or active
    palm,           \* the palm, to the chosen grasp: away, off, near, at
    hand,           \* "open" or "shut"
    high,           \* the torso is above the lift margin of a grasp
    object,         \* on the table, held, or lifted off it
    proc,           \* the process that runs: none, pick, recover
    at,             \* where it is, or "idle"
    lifting,        \* pick: this one test-lifts
    fused,          \* pick: the first look is active perception's cloud
    again,          \* pick: the second attempt of what is tried twice
    missed,         \* pick: discovery did not show an active Nav2
    tries,          \* pick: depth maps built for this box
    runs,           \* processes so far
    outcome         \* how the last pick or recovery ended

scene == <<box, attached, exempt, map>>
robot == <<palm, hand, high, object>>
local == <<lifting, fused, again, missed, tries, runs>>
vars  == <<scene, relay, nav, robot, proc, at, local, outcome>>

Init ==
    /\ box = "none" /\ attached = FALSE /\ exempt = {} /\ map = "none"
    /\ relay = TRUE                         \* the relay's parameter defaults to true
    /\ nav \in {"absent", "paused", "active"}
    /\ palm = "away" /\ hand \in {"open", "shut"} /\ high \in BOOLEAN /\ object = "table"
    /\ proc = "none" /\ at = "idle" /\ outcome = "none"
    /\ lifting = FALSE /\ fused = FALSE /\ again = FALSE /\ missed = FALSE
    /\ tries = 0 /\ runs = 0

Goto(p) == at' = p /\ UNCHANGED <<proc, outcome>>
Return(how) == at' = "idle" /\ proc' = "none" /\ outcome' = how

(***************************************************************************)
(* The world beside the process.                                           *)
(***************************************************************************)
(* A depth frame reaches move_group, which keeps the box's own points out. *)
Frame ==
    /\ relay /\ map = "none"
    /\ map' = IF box = "new" THEN "new" ELSE "old"
    /\ UNCHANGED <<box, attached, exempt, relay, nav, robot, proc, at, local, outcome>>

(* A leftover goal, a recovery or an RViz click moves the base. *)
Nav2Drives ==
    /\ nav = "active" /\ palm # "away"
    /\ palm' = "off"
    /\ UNCHANGED <<scene, relay, nav, hand, high, object, proc, at, local, outcome>>

(* Between two runs the mission drives on, with the arm at any height. *)
Mission ==
    /\ proc = "none" /\ nav # "absent"
    /\ nav' \in {"active", "paused"} /\ high' \in BOOLEAN /\ palm' = "away"
    /\ UNCHANGED <<scene, relay, hand, object, proc, at, local, outcome>>

Slip ==
    /\ object # "table"
    /\ object' = "table"
    /\ UNCHANGED <<scene, relay, nav, palm, hand, high, proc, at, local, outcome>>

(***************************************************************************)
(* What both programs do.                                                  *)
(***************************************************************************)
Start(p, first) ==
    /\ proc = "none" /\ runs < MaxRuns
    /\ proc' = p /\ at' = first /\ outcome' = "none" /\ runs' = runs + 1
    /\ box' = IF box = "new" THEN "old" ELSE box
    /\ map' = IF map = "new" THEN "old" ELSE map
    /\ UNCHANGED <<attached, exempt, relay, nav, robot>>

(* SIGKILL, or a crash: no `finally' runs. *)
Killed ==
    /\ proc # "none"
    /\ Return("killed")
    /\ UNCHANGED <<scene, relay, nav, robot, local>>

(* open_hand: what the hand held falls. *)
OpenHand ==
    /\ hand' = "open" /\ object' = "table"
    /\ UNCHANGED <<palm, high>>

(* execute(clear_view): arm to the observation pose. *)
Fold == palm' = "away" /\ high' = FALSE /\ UNCHANGED <<hand, object>>

(***************************************************************************)
(* pick.                                                                   *)
(***************************************************************************)
StartPick ==
    /\ Start("pick", "hold")
    /\ lifting' = FALSE /\ again' = FALSE /\ missed' = FALSE /\ tries' = 0
    /\ fused' \in BOOLEAN

(* hold_nav2: a Nav2 that discovery does not show in 2 s counts as absent. *)
HoldNav2 ==
    /\ at = "hold"
    /\ \/ nav = "active" /\ nav' = "paused" /\ missed' = missed
       \/ nav = "active" /\ nav' = nav /\ missed' = TRUE
       \/ nav # "active" /\ UNCHANGED <<nav, missed>>
    /\ Goto("margin")
    /\ UNCHANGED <<scene, relay, robot, lifting, fused, again, tries, runs>>

(* A torso too high for a grasp is brought down by a fold first. *)
Margin ==
    /\ at = "margin"
    /\ Goto(IF high THEN "clear" ELSE "perceive")
    /\ UNCHANGED <<scene, relay, nav, robot, local>>

(* clear_observation_pose: the relay off, the fold, the relay on again, and *)
(* that also when the fold raises; then reframe_target.                    *)
FreezeForFold ==
    /\ at = "clear"
    /\ relay' = FALSE /\ Goto("folding")
    /\ UNCHANGED <<scene, nav, robot, local>>

FoldForView ==
    /\ at = "folding"
    /\ \/ Fold /\ Goto("thaw")
       \/ UNCHANGED robot /\ Goto("thaw and raise")
    /\ UNCHANGED <<scene, relay, nav, local>>

Thaw ==
    /\ at \in {"thaw", "thaw and raise"}
    /\ relay' = TRUE /\ Goto(IF at = "thaw" THEN "perceive" ELSE "finally")
    /\ UNCHANGED <<scene, nav, robot, local>>

(* observe_geometry: a first view and one tilted up and down; a view is    *)
(* kept when it found the target at an overlapping place.                  *)
View == [clipped : BOOLEAN, occluded : BOOLEAN]
Scans == UNION {[1..n -> View] : n \in 2..3}
Usable(views) ==
    /\ \E k \in DOMAIN views : ~views[k].clipped
    /\ \A k \in DOMAIN views : ~views[k].occluded

(* contact_candidates: what the measured points are fitted as. *)
Kinds == {"cylinder", "box", "sphere", "front section"}

(* perceive, and the modes: only a cylinder is lifted unasked.  A scan that *)
(* is occluded is repeated once, after a fold; a fused cloud needs none.   *)
Perceive ==
    /\ at = "perceive"
    /\ \/ /\ fused \/ \E views \in Scans : Usable(views)
          /\ \E mode \in Modes, kind \in Kinds :
                lifting' = (mode = "pickup" \/ (mode = "auto" /\ kind = "cylinder"))
          /\ Goto(IF hand = "shut" THEN "open" ELSE "box") /\ again' = FALSE
       \/ /\ ~fused /\ ~again /\ \E views \in Scans : ~Usable(views)
          /\ again' = TRUE /\ Goto("clear") /\ UNCHANGED lifting
    /\ UNCHANGED <<scene, relay, nav, robot, fused, missed, tries, runs>>

OpenForGrasp ==
    /\ at = "open"
    /\ OpenHand /\ Goto("box")
    /\ UNCHANGED <<scene, relay, nav, local>>

(* model_target: the map cleared, the box put in and whatever was attached *)
(* detached; the map cleared again with the relay on, until one is there   *)
(* that does not overlap the robot; the relay off.                         *)
ClearForBox ==
    /\ at = "box"
    /\ map' = "none" /\ Goto("apply")
    /\ UNCHANGED <<box, attached, exempt, relay, nav, robot, local>>

ApplyBox ==
    /\ at = "apply"
    /\ box' = "new" /\ attached' = FALSE /\ Goto("watch")
    /\ UNCHANGED <<exempt, map, relay, nav, robot, local>>

Watch ==
    /\ at = "watch"
    /\ relay' = TRUE /\ Goto("rebuild")
    /\ UNCHANGED <<scene, nav, robot, local>>

(* Variant: the attempts are not counted. *)
Endlessly ==
    /\ at = "rebuild"
    /\ map' = "none" /\ Goto("check")
    /\ UNCHANGED <<box, attached, exempt, relay, nav, robot, local>>

Rebuild ==
    /\ at = "rebuild" /\ tries < MapTries
    /\ map' = "none" /\ tries' = tries + 1 /\ Goto("check")
    /\ UNCHANGED <<box, attached, exempt, relay, nav, robot, lifting, fused, again, missed, runs>>

CheckMap ==
    /\ at = "check" /\ map # "none"
    /\ at' \in {"freeze", "rebuild"} /\ UNCHANGED <<proc, outcome>>
    /\ UNCHANGED <<scene, relay, nav, robot, local>>

(* Variant: the map stays live. *)
StaysLive ==
    /\ at = "freeze"
    /\ Goto("plan")
    /\ UNCHANGED <<scene, relay, nav, robot, local>>

Freeze ==
    /\ at = "freeze"
    /\ relay' = FALSE /\ Goto("plan")
    /\ UNCHANGED <<scene, nav, robot, local>>

(* reach, as one plan whose stages are carried out in turn: checks on, the *)
(* hand open, to the pregrasp; the fingers' contact allowed, straight in.  *)
Checked == {"target*fingers", "map*fingers", "map*target"}
(* Variant: what the last lift exempted outlives it. *)
Outlived == (exempt \ {"target*fingers"}) \cup {"map*head"}
Protected == (exempt \ Checked) \cup {"map*head"}

ReachPregrasp ==
    /\ at = "plan"
    /\ exempt' = Protected /\ OpenHand /\ Goto("pregrasp")
    /\ UNCHANGED <<box, attached, map, relay, nav, local>>

(* Where the controllers really stop is measured. *)
MoveIn ==
    /\ at = "pregrasp"
    /\ exempt' = exempt \cup {"target*fingers"}
    /\ palm' \in {"at", "near", "off"} /\ Goto("palm")
    /\ UNCHANGED <<box, attached, map, relay, nav, hand, high, object, local>>

(* A small error is corrected once, and measured again. *)
PalmThere ==
    /\ at = "palm" /\ palm = "at"
    /\ Goto("close")
    /\ UNCHANGED <<scene, relay, nav, robot, local>>

(* Variant: a correction is taken to have worked. *)
CorrectOnly ==
    /\ at = "palm" /\ palm = "near" /\ ~again
    /\ again' = TRUE /\ palm' \in {"at", "near", "off"} /\ Goto("close")
    /\ UNCHANGED <<scene, relay, nav, hand, high, object, lifting, fused, missed, tries, runs>>

Correct ==
    /\ at = "palm" /\ palm = "near" /\ ~again
    /\ again' = TRUE /\ palm' \in {"at", "near", "off"} /\ Goto("palm")
    /\ UNCHANGED <<scene, relay, nav, hand, high, object, lifting, fused, missed, tries, runs>>

(* Both springs loaded, then, on the robot, the torque grasp; the hand may *)
(* also have closed on nothing, which the fingertips' gap shows.           *)
Close ==
    /\ at = "close"
    /\ hand' = "shut" /\ object' \in {"held", "table"} /\ Goto("gap")
    /\ UNCHANGED <<scene, relay, nav, palm, high, local>>

Finish(how) == at' = "finally" /\ outcome' = how /\ UNCHANGED proc

Gap ==
    /\ at = "gap" /\ object = "held"
    /\ IF lifting THEN Goto("lift") ELSE Finish("grasped")
    /\ UNCHANGED <<scene, relay, nav, robot, local>>

Lift ==
    /\ at = "lift"
    /\ exempt' = exempt \cup {"map*fingers", "map*target"} /\ attached' = TRUE
    /\ object' = IF object = "held" THEN "lifted" ELSE object
    /\ high' \in BOOLEAN /\ palm' = "off"
    /\ Goto("look")
    /\ UNCHANGED <<box, map, relay, nav, hand, local>>

(* wait_for_hold and the last contact_state read the springs. *)
(* Variant: the last reading is skipped. *)
Unread == TRUE
Contact == object # "table"

(* verify_object_lift: the points rose as the palm did. *)
Risen == object = "lifted"

(* observe_lifted: not seen in the camera's blind range. *)
LookLifted ==
    /\ at = "look"
    /\ \/ Risen /\ Goto("dwell")
       \/ Goto("dwell unseen")
    /\ UNCHANGED <<scene, relay, nav, robot, local>>

Dwell ==
    /\ at \in {"dwell", "dwell unseen"} /\ object # "table"
    /\ IF at = "dwell" THEN Goto("look again") ELSE Finish("grasped")
    /\ UNCHANGED <<scene, relay, nav, robot, local>>

LookAgain ==
    /\ at = "look again" /\ Risen
    /\ Goto("last")
    /\ UNCHANGED <<scene, relay, nav, robot, local>>

LastContact ==
    /\ at = "last" /\ Contact
    /\ Finish("picked")
    /\ UNCHANGED <<scene, relay, nav, robot, local>>

(* Any call may raise, whether or not what it asked for was done. *)
Raise ==
    /\ proc = "pick" /\ at \notin {"finally", "folding", "thaw and raise"}
    /\ Finish("failed")
    /\ UNCHANGED <<scene, relay, nav, robot, local>>

(* The `finally' of pick; its own failure is only printed. *)
StopRelay ==
    /\ at = "finally"
    /\ relay' \in {FALSE, relay}
    /\ Return(outcome)
    /\ UNCHANGED <<scene, nav, robot, local>>

PickStep ==
    \/ HoldNav2 \/ Margin \/ FreezeForFold \/ FoldForView \/ Thaw \/ Perceive
    \/ OpenForGrasp \/ ClearForBox \/ ApplyBox \/ Watch \/ Rebuild \/ CheckMap \/ Freeze
    \/ ReachPregrasp \/ MoveIn \/ PalmThere \/ Correct \/ Close \/ Gap \/ Lift
    \/ LookLifted \/ Dwell \/ LookAgain \/ LastContact \/ StopRelay

(***************************************************************************)
(* recover_home.                                                           *)
(***************************************************************************)
StartRecovery ==
    /\ Start("recover", "recover hand")
    /\ UNCHANGED <<lifting, fused, again, missed, tries>>

(* --keep-hand, --direct. *)
RecoverHand ==
    /\ at = "recover hand"
    /\ OpenHand \/ UNCHANGED robot
    /\ at' \in {"forget", "direct"} /\ UNCHANGED <<proc, outcome>>
    /\ UNCHANGED <<scene, relay, nav, local>>

(* forget_the_scene; whether move_group took the scene is not looked at. *)
Forget ==
    /\ at = "forget"
    /\ \/ box' = "none" /\ attached' = FALSE
       \/ UNCHANGED <<box, attached>>
    /\ map' = "none" /\ Goto("retreat")
    /\ UNCHANGED <<exempt, relay, nav, robot, local>>

(* A retreat that fails is not worth forcing: one that does not plan        *)
(* changes nothing, one that is aborted on its way has been exempted.       *)
Retreat ==
    /\ at = "retreat"
    /\ \/ UNCHANGED <<exempt, palm>>
       \/ /\ exempt' = exempt \cup {"target*fingers", "map*head"}
          /\ palm' \in {palm, "off", "away"}
    /\ Goto("home")
    /\ UNCHANGED <<box, attached, map, relay, nav, hand, high, object, local>>

Home ==
    /\ at = "home"
    /\ Fold /\ Goto("resume")
    /\ UNCHANGED <<scene, relay, nav, local>>

(* fold_directly does not look at the controller's result. *)
Direct ==
    /\ at = "direct"
    /\ Fold \/ UNCHANGED robot
    /\ Goto("resume")
    /\ UNCHANGED <<scene, relay, nav, local>>

(* centre_head, resume_nav: what fails there is only said. *)
Resume ==
    /\ at = "resume"
    /\ nav' \in {nav} \cup (IF nav = "paused" THEN {"active"} ELSE {})
    /\ Return("recovered")
    /\ UNCHANGED <<scene, relay, robot, local>>

NotStowed ==
    /\ proc = "recover"
    /\ Return("not stowed")
    /\ UNCHANGED <<scene, relay, nav, robot, local>>

RecoverStep == RecoverHand \/ Forget \/ Retreat \/ Home \/ Direct \/ Resume

World == Frame \/ Nav2Drives \/ Mission \/ Slip
Next ==
    \/ World \/ StartPick \/ StartRecovery \/ Killed
    \/ PickStep \/ Raise \/ RecoverStep \/ NotStowed

(* Every call of the programs has a timeout. *)
Spec ==
    /\ Init /\ [][Next]_vars
    /\ WF_vars(PickStep \/ Raise) /\ WF_vars(RecoverStep \/ NotStowed)

(***************************************************************************)
(* Properties.                                                             *)
(***************************************************************************)
(* The type of the state; the map was rebuilt at most MapTries times. *)
TypeOK ==
    /\ box \in {"none", "old", "new"} /\ attached \in BOOLEAN /\ exempt \subseteq Pairs
    /\ map \in {"none", "old", "new"} /\ relay \in BOOLEAN
    /\ nav \in {"absent", "paused", "active"}
    /\ palm \in {"away", "off", "near", "at"} /\ hand \in {"open", "shut"}
    /\ high \in BOOLEAN /\ object \in {"table", "held", "lifted"}
    /\ proc \in {"none", "pick", "recover"} /\ (at = "idle" <=> proc = "none")
    /\ lifting \in BOOLEAN /\ fused \in BOOLEAN /\ again \in BOOLEAN /\ missed \in BOOLEAN
    /\ tries \in 0..MapTries /\ runs \in 0..MaxRuns
    /\ outcome \in {"none", "killed", "failed", "grasped", "picked", "recovered", "not stowed"}

(* The palm goes to a pregrasp past a map built with this target's box in  *)
(* place, with every check on that an earlier pick, lift or recovery, also *)
(* a killed one, may have turned off, and with nothing of theirs attached  *)
(* (reach's protect stage, model_target).                                  *)
ReachIsChecked ==
    at = "pregrasp" => exempt = {"map*head"} /\ ~attached /\ box = "new" /\ map = "new"

(* "Freeze the map so new depth voxels do not interrupt the planned        *)
(* motion" (pick.py:1348): no frame reaches it while the pick moves.       *)
FrozenWhileMoving ==
    at \in {"folding", "plan", "pregrasp", "palm", "close", "gap", "lift", "look"} => ~relay

(* The hand closes only with the palm at the grasp, also when a leftover   *)
(* goal of Nav2 would move the base after it was measured; but for a Nav2  *)
(* that discovery hid from hold_nav2.                                      *)
ClosesAtTheGrasp == at = "close" /\ ~missed => palm = "at"

(* 'picked' only with the object off the table and in the hand when the    *)
(* pick says so, whenever it may have slipped since it was last seen, and  *)
(* with the scene knowing that the hand holds it.                          *)
PickedMeansLifted ==
    [][outcome' = "picked" /\ outcome # "picked" => object' = "lifted" /\ attached']_vars

(* A pick ends, also when no depth map comes or none is clear of the robot. *)
PickEnds == proc = "pick" ~> proc = "none"

(* What recover_home's printed "arm home" and its comments say ("The arm   *)
(* is already home by now", recover_home.py:104).  The code breaks it: the *)
(* unplanned fold does not look at the controller's result.                *)
RecoveredMeansHome ==
    [][outcome' = "recovered" /\ outcome # "recovered" => palm' = "away"]_vars

(* "the fold below is collision-aware too" (recover_home.py:182).  The     *)
(* code breaks it as far as the map goes: forget_the_scene empties it, and *)
(* the relay is off after a pick that ended by itself.                     *)
FoldSeesTheMap == at = "home" => map # "none"

(* What "check target during pregrasp" asks of a reach, asked of the fold  *)
(* that may come before it.  The code breaks it: clear_view has no protect *)
(* stage, and the fingers' exemptions of the last lift still hold.         *)
FoldIsChecked == at = "folding" => exempt \cap Checked = {} /\ ~attached
=============================================================================
