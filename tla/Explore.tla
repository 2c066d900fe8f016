------------------------------- MODULE Explore -------------------------------
(***************************************************************************)
(* The next-best-view loop around a target (core/active_perception:        *)
(* explore.explore, nbv.NextBestView, views.ViewHalfSphere): fuse a        *)
(* capture, predict grasps on the fused surface, pick the view that        *)
(* reveals most, drive under it, capture again.  Positions are on a line;  *)
(* what a view would reveal, what the grasp model answers, where the       *)
(* detector puts the target and whether a drive succeeds is any.           *)
(***************************************************************************)
EXTENDS Integers, FiniteSets

CONSTANTS
    MaxSteps,       \* explore's max_steps
    ViewBudget,     \* NextBestView's max_views
    Window,         \* window_size, the slots of the grasp history
    MinGain,        \* the gain below which a late view is not worth it
    Thresh,         \* the mean score of a stable grasp
    Offsets,        \* the sphere's view positions, relative to its centre
    Centres,        \* where the target's box may be centred
    Gains,          \* what a view may reveal
    Scores,         \* what a grasp may score, above qual_thresh
    Voxels          \* where a grasp may be

ASSUME ExploreAssumption ==
    /\ MaxSteps \in Nat /\ ViewBudget \in Nat /\ Window \in Nat \ {0} /\ MinGain \in Nat
    /\ Thresh \in Nat /\ Offsets \subseteq Int /\ Centres \subseteq Int /\ IsFiniteSet(Offsets)
    /\ Gains \subseteq Nat /\ 0 \in Gains /\ Scores \subseteq Nat \ {0}

VARIABLES
    at,             \* where the loop is: update, move, capture, save, saved, raised
    step,           \* passes of the loop
    centre,         \* the centre of the view sphere
    rejected,       \* eyes Nav2 refused to drive under
    views,          \* captures fused so far
    latest,         \* whether the last capture is among them
    hist,           \* a score per slot and voxel; 0 for none
    best,           \* the best grasp on the fused surface: its voxel, or "none"
    gain,           \* what each candidate would reveal, by eye
    eye,            \* the view chosen
    why,            \* what stopped the loop
    scored,         \* history: for each of the last Window views, the voxels scored
    refused         \* history: the views refused, relative to the sphere's centre

vars == <<at, step, centre, rejected, views, latest, hist, best, gain, eye, why, scored,
          refused>>
policy == <<hist, best, gain, eye, scored, views>>
sphere == <<centre, rejected, refused>>
Slots == 0..Window - 1

Init ==
    /\ at = "update" /\ step = 1 /\ why = "none"
    /\ centre \in Centres /\ rejected = {} /\ refused = {}
    /\ views = 0 /\ latest = FALSE
    /\ hist = [t \in Slots |-> [v \in Voxels |-> 0]]
    /\ best = "none" /\ eye = 0
    /\ gain = [e \in {} |-> 0]
    /\ scored = [n \in 1..Window |-> {}]

(* candidates: the views of the sphere as it is centred now that the robot *)
(* can take and Nav2 has not refused.                                      *)
Candidates(takeable) == {e \in {centre + o : o \in takeable} : e \notin rejected}

(* information_gain: what each of them may reveal. *)
Revealed(takeable) == [Candidates(takeable) -> Gains]

(* best_grasp_prediction_is_stable.                                        *)
Total(v) ==
    LET sum[n \in 0..Window] == IF n = 0 THEN 0 ELSE sum[n - 1] + hist[n - 1][v]
    IN  sum[Window]
(* Variant: the mean over the slots that hold a score. *)
OnAverage ==
    /\ best # "none"
    /\ LET full == {t \in Slots : hist[t][best] # 0}
       IN  full # {} /\ Total(best) > Thresh * Cardinality(full)
Stable ==
    /\ best # "none"
    /\ \A t \in Slots : hist[t][best] # 0
    /\ Total(best) > Thresh * Window

Stop(reason) == at' = "save" /\ why' = reason

(* update before it fuses: the budget of views, or a stable grasp.         *)
BudgetSpent == views > ViewBudget
StopEarly ==
    /\ at = "update" /\ (BudgetSpent \/ Stable)
    /\ Stop(IF Stable THEN "stable" ELSE "budget")
    /\ gain' = [e \in {} |-> 0] /\ eye' = 0
    /\ UNCHANGED <<step, sphere, views, latest, hist, best, scored>>

(* predict_grasps: the slot of this view is written only when the surface  *)
(* in the box has the 50 points a prediction takes.                        *)
Predict ==
    \/ best' = "none" /\ hist' = hist
       /\ scored' = [n \in 1..Window |-> IF n = 1 THEN {} ELSE scored[n - 1]]
    \/ \E found \in [Voxels -> Scores \cup {0}] :
        /\ hist' = [hist EXCEPT ![views % Window] = found]
        /\ scored' = [n \in 1..Window |->
                        IF n = 1 THEN {v \in Voxels : found[v] # 0} ELSE scored[n - 1]]
        /\ IF \A v \in Voxels : found[v] = 0 THEN best' = "none"
           ELSE best' \in {v \in Voxels : \A w \in Voxels : found[v] >= found[w]}

Worthwhile(gains) == \E e \in DOMAIN gains : gains[e] > 0
(* The cost of all views is the same: the utilities order them by gain. *)
MostGain(gains) == {e \in DOMAIN gains : \A f \in DOMAIN gains : gains[e] >= gains[f]}

Update ==
    /\ at = "update" /\ ~BudgetSpent /\ ~Stable
    /\ views' = views + 1 /\ latest' = TRUE
    /\ Predict
    /\ \E takeable \in SUBSET Offsets : \E gains \in Revealed(takeable) :
        IF ~Worthwhile(gains)
        THEN Stop("nothing to gain") /\ gain' = [e \in {} |-> 0] /\ eye' = 0
        ELSE /\ gain' = gains /\ eye' \in MostGain(gains)
             /\ IF gains[eye'] < MinGain /\ views' > Window
                THEN Stop("too little") ELSE at' = "move" /\ UNCHANGED why
    /\ UNCHANGED <<step, sphere>>

(* go_to_view: torso, drive, head.  Only the drive's result counts. *)
Reached == at' = "capture" /\ UNCHANGED <<rejected, refused>>
Refused ==
    /\ at' = "capture"
    /\ rejected' = rejected \cup {eye} /\ refused' = refused \cup {eye - centre}
Move ==
    /\ at = "move"
    /\ Reached \/ Refused
    /\ UNCHANGED <<step, centre, policy, latest, why>>

(* A new capture; when the target is seen in it, the box and the sphere    *)
(* follow.  The loop goes on for max_steps passes.                         *)
NextStep ==
    IF step < MaxSteps THEN at' = "update" /\ step' = step + 1 /\ UNCHANGED why
    ELSE Stop("steps") /\ UNCHANGED step
Capture ==
    /\ at = "capture"
    /\ latest' = FALSE
    /\ centre' \in Centres
    /\ NextStep
    /\ UNCHANGED <<rejected, refused, policy>>

(* save_target, and the log. *)
Save ==
    /\ at = "save" /\ at' = "saved"
    /\ UNCHANGED <<step, sphere, policy, latest, why>>

(* No camera, no transform, no head controller, no answer of a service. *)
Raise ==
    /\ at \in {"update", "move", "capture"} /\ at' = "raised"
    /\ UNCHANGED <<step, sphere, policy, latest, why>>

Loop == StopEarly \/ Update \/ Move \/ Capture \/ Save
Next == Loop \/ Raise

Spec == Init /\ [][Next]_vars

(***************************************************************************)
(* Properties.                                                             *)
(***************************************************************************)
(* The type of the state; a capture is fused at most once in a pass. *)
TypeOK ==
    /\ at \in {"update", "move", "capture", "save", "saved", "raised"}
    /\ step \in 1..MaxSteps /\ views \in 0..step /\ latest \in BOOLEAN
    /\ centre \in Centres /\ rejected \subseteq {c + o : c \in Centres, o \in Offsets}
    /\ refused \subseteq Offsets
    /\ hist \in [Slots -> [Voxels -> Scores \cup {0}]] /\ best \in Voxels \cup {"none"}
    /\ scored \in [1..Window -> SUBSET Voxels]
    /\ why \in {"none", "budget", "stable", "nothing to gain", "too little", "steps"}

(* A grasp counts as stable only after a full window of views, each slot   *)
(* of the ring written at least once, and never on a grasp that the last   *)
(* fused surface did not give (nbv.best_grasp_prediction_is_stable).       *)
StableAfterAWindow == why = "stable" => views >= Window /\ best \in scored[1]

(* "Stop before taking another view if the budget ... is satisfied"        *)
(* (nbv.py, update).  The code breaks it: `>' lets one view more in.       *)
BudgetKept == views <= ViewBudget

(* "stops early once the best grasp's quality has stayed above a threshold *)
(* for a window of views" (nbv.py, the module's text).  The code breaks    *)
(* it: a view with too few points leaves an older view's score in its slot.*)
StableForAWindow == why = "stable" => \A n \in 1..Window : best \in scored[n]

(* "eyes Nav2 refused to drive under; not offered again" (views.py), which *)
(* retarget keeps the radii for: changing them "would silently invalidate  *)
(* the views already refused".  The code breaks it: they are kept as       *)
(* positions, so that moving the centre offers the same views again.       *)
RefusedNotOffered == at = "move" => eye - centre \notin refused

(* "the camera is the last view's, the side pick's contact fit calls seen" *)
(* (explore.save_target).  The code breaks it: after the last pass, and on *)
(* a stable grasp, the last capture was never fused into the cloud.        *)
CameraIsFused == at = "saved" => latest
=============================================================================
