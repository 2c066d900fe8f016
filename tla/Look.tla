-------------------------------- MODULE Look --------------------------------
(***************************************************************************)
(* A search at one place (the inner loop of actions.search): the current   *)
(* view, then the observation poses in their order, each driven to, looked *)
(* from, and counted against the view budget, until the object is found or *)
(* the place is left.                                                      *)
(*                                                                         *)
(* A pose is what matters of it: the samples of the surface within range   *)
(* of it.  Every order and every coverage of at most MaxPoses poses is     *)
(* tried, also those standoff.order would not return.                      *)
(***************************************************************************)
EXTENDS Naturals, Sequences, FiniteSets, FiniteSetsExt

CONSTANTS
    Samples,        \* the samples of the surface
    MaxPoses,       \* bound: observation poses
    Limits,         \* the view budgets: max(views, needed)
    FailedDrives    \* FAILED_DRIVES

ASSUME LookAssumption ==
    /\ IsFiniteSet(Samples)
    /\ MaxPoses \in Nat
    /\ Limits \subseteq Nat \ {0}
    /\ FailedDrives \in Nat \ {0}

VARIABLES
    here,           \* the samples within range of where the robot stands
    poses,          \* the samples within range of each pose
    limit,          \* the view budget
    i,              \* the pose at hand; 0 is the current view
    stage,          \* "pose": deciding on it, "look": standing at it, or an end
    seen,           \* the samples counted as seen
    observations,   \* the poses visited
    failed,         \* the drives that failed
    viewed,         \* history: the samples that were in a view
    assumed,        \* history: those counted as seen from a pose that did not show them
    lost,           \* history: the poses with no view at all
    visited,        \* history: the poses driven to
    oversized       \* history: whether the last view was discarded

look == <<here, poses, limit, i, stage, seen, observations, failed, viewed, assumed,
          lost, visited, oversized>>
place == <<here, poses, limit>>

Within == IF i = 0 THEN here ELSE poses[i]
Ended == {"found", "left", "raised"}

LookInit ==
    /\ here \in SUBSET Samples
    /\ poses \in UNION { [1..n -> SUBSET Samples] : n \in 0..MaxPoses }
    /\ limit \in Limits
    /\ i = 0
    /\ stage = "pose"
    /\ seen = {}
    /\ observations = 0
    /\ failed = 0
    /\ viewed = {}
    /\ assumed = {}
    /\ lost = {}
    /\ visited = {}
    /\ oversized = FALSE

(* The next pose; the place is left when there is none. *)
NextPose ==
    /\ i' = IF i < Len(poses) THEN i + 1 ELSE i
    /\ stage' = IF i < Len(poses) THEN "pose" ELSE "left"

Leave == i' = i /\ stage' = "left"

(***************************************************************************)
(* Whether a pose is worth it.                                             *)
(***************************************************************************)
(* Variant: the budget is all that counts. *)
BudgetOnly == i > 0 /\ observations < limit

(* The current view is worth it when the place is in range; past the       *)
(* budget, a pose is when surface that is not seen yet is in range of it.  *)
Worth ==
    \/ i = 0 /\ here # {}
    \/ i > 0 /\ (observations < limit \/ ~ (Within \subseteq seen))

Skip ==
    /\ stage = "pose" /\ ~Worth
    /\ NextPose
    /\ UNCHANGED <<place, seen, observations, failed, viewed, assumed, lost, visited, oversized>>

LookFromHere ==
    /\ stage = "pose" /\ i = 0 /\ Worth
    /\ stage' = "look"
    /\ UNCHANGED <<place, i, seen, observations, failed, viewed, assumed, lost, visited, oversized>>

NoPath ==
    /\ stage = "pose" /\ i > 0 /\ Worth
    /\ lost' = lost \cup {i}
    /\ NextPose
    /\ UNCHANGED <<place, seen, observations, failed, viewed, assumed, visited, oversized>>

DriveFails ==
    /\ stage = "pose" /\ i > 0 /\ Worth
    /\ failed' = failed + 1
    /\ lost' = lost \cup {i}
    /\ IF failed' >= FailedDrives THEN Leave ELSE NextPose
    /\ UNCHANGED <<place, seen, observations, viewed, assumed, visited, oversized>>

Arrive ==
    /\ stage = "pose" /\ i > 0 /\ Worth
    /\ stage' = "look"
    /\ observations' = observations + 1
    /\ visited' = visited \cup {i}
    /\ UNCHANGED <<place, i, seen, failed, viewed, assumed, lost, oversized>>

(***************************************************************************)
(* Looking.  A pose's aims sweep all that is in range of it; one the head  *)
(* cannot take is skipped, the rest still count, and the sweep stops at a  *)
(* detection.                                                              *)
(***************************************************************************)
(* The place is left when its budget is used and no surface is unseen. *)
AfterView ==
    IF observations >= limit /\ seen' = Samples THEN Leave ELSE NextPose

CannotAim ==
    /\ stage = "look"
    /\ seen' = seen
    /\ lost' = lost \cup {i}
    /\ oversized' = FALSE
    /\ AfterView
    /\ UNCHANGED <<place, observations, failed, viewed, assumed, visited>>

(* What the aims that were taken show of what is in range; all of it counts *)
(* as seen.                                                                 *)
View ==
    \E shown \in SUBSET Within :
        /\ seen' = seen \cup Within
        /\ viewed' = viewed \cup shown
        /\ assumed' = assumed \cup (Within \ shown)

NotDetected ==
    /\ stage = "look"
    /\ View
    /\ oversized' = FALSE
    /\ AfterView
    /\ UNCHANGED <<place, observations, failed, lost, visited>>

(* A detection too large to be graspable is discarded; at the budget, that *)
(* is the end of this place whatever is unseen.                            *)
Oversized ==
    /\ stage = "look"
    /\ View
    /\ oversized' = TRUE
    /\ IF observations >= limit THEN Leave ELSE NextPose
    /\ UNCHANGED <<place, observations, failed, lost, visited>>

(* A detection may come at the first aim, before the rest is swept. *)
Detected ==
    /\ stage = "look"
    /\ stage' = "found"
    /\ seen' = seen \cup Within
    /\ UNCHANGED <<place, i, observations, failed, viewed, assumed, lost, visited, oversized>>

(* Perception, TF and the server's failures end the whole search. *)
Raise ==
    /\ stage \in {"pose", "look"}
    /\ stage' = "raised"
    /\ UNCHANGED <<place, i, seen, observations, failed, viewed, assumed, lost, visited, oversized>>

(* The search goes on elsewhere. *)
Done == stage \in Ended /\ UNCHANGED look

LookNext ==
    \/ Skip \/ LookFromHere \/ NoPath \/ DriveFails \/ Arrive
    \/ CannotAim \/ NotDetected \/ Oversized \/ Detected \/ Raise \/ Done

LookSpec == LookInit /\ [][LookNext]_look
-----------------------------------------------------------------------------
LookTypeOK ==
    /\ here \subseteq Samples
    /\ poses \in Seq(SUBSET Samples)
    /\ limit \in Limits
    /\ i \in 0..Len(poses)
    /\ stage \in {"pose", "look"} \cup Ended
    /\ seen \subseteq Samples
    /\ observations \in 0..Len(poses)
    /\ failed \in 0..FailedDrives
    /\ viewed \subseteq Samples
    /\ assumed \subseteq Samples
    /\ lost \subseteq 0..Len(poses)
    /\ visited \subseteq 1..Len(poses)
    /\ oversized \in BOOLEAN

(* Unless drives keep failing or the last view was discarded, a pose is     *)
(* left out only when all it would have shown was in the view of another,   *)
(* or was counted as seen from one, at which the head could not take an     *)
(* aim or the sweep stopped short (actions.py:557-567, 621-624).            *)
LeavesNothing ==
    (stage = "left" /\ failed < FailedDrives /\ ~oversized) =>
        \A j \in (1..Len(poses)) \ (visited \cup lost) : poses[j] \subseteq viewed \cup assumed

(* "Move to the next search location once its view budget is used and no   *)
(* surface is left unseen" (actions.py:621), as it says.                   *)
LeftWhenSeen ==
    (stage = "left" /\ failed < FailedDrives) =>
        \A j \in (1..Len(poses)) \ (visited \cup lost) : poses[j] \subseteq viewed
=============================================================================
