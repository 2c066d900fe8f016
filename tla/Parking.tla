------------------------------- MODULE Parking -------------------------------
(***************************************************************************)
(* Parking for a grasp (actions.make_graspable, graspable.reposition):     *)
(* base poses certified by the IK service are tried one after another,     *)
(* each drive with Nav2's goal tolerances tightened and restored around    *)
(* it, by parameter requests that may be refused in part, time out and     *)
(* still be carried out, or find nobody.  One mission follows another over *)
(* the same Nav2.                                                          *)
(***************************************************************************)
EXTENDS Naturals, Sequences, FiniteSets

CONSTANTS
    MaxBases,       \* bound: certified base poses of one attempt
    MaxRuns         \* bound: calls of make_graspable

ASSUME ParkingAssumption == MaxBases \in Nat /\ MaxRuns \in Nat

(* general_goal_checker's two tolerances and FollowPath.vx_min. *)
Params == {"xy_goal_tolerance", "yaw_goal_tolerance", "vx_min"}
Values == {"normal", "tight"}

VARIABLES
    tol,            \* the controller's parameters
    requests,       \* parameter requests it has not carried out yet
    answer,         \* its answer to the request that is waited for
    runs,           \* calls of make_graspable so far
    at,             \* where the call is, or how it ended
    alternate,      \* the sphere's side grasps are left to try
    bases,          \* the base poses of this attempt, best first
    i,              \* the one at hand
    parked,         \* the base pose the robot stands at, within the limits; 0 for none
    failing,        \* an exception is on its way while _approach restores
    tightened       \* history: this call asked for tight tolerances

parking == <<tol, requests, answer, runs, at, alternate, bases, i, parked, failing, tightened>>
params == <<tol, requests, answer>>
choice == <<alternate, bases, i>>

All(v) == [p \in Params |-> v]
Base == [blocked : BOOLEAN]
Returned == {"idle", "ready", "not_graspable", "raised"}

ParkingInit ==
    /\ tol = All("normal")
    /\ requests = <<>>
    /\ answer = "none"
    /\ runs = 0
    /\ at = "idle"
    /\ alternate = FALSE
    /\ bases = <<>>
    /\ i = 0
    /\ parked = 0
    /\ failing = FALSE
    /\ tightened = FALSE

(***************************************************************************)
(* The controller: one request after another, each parameter for itself.   *)
(***************************************************************************)
Wanted(accepted, v) == [p \in Params |-> IF p \in accepted THEN v ELSE tol[p]]

Apply ==
    /\ requests # <<>>
    /\ \E accepted \in SUBSET Params :
        /\ tol' = Wanted(accepted, Head(requests).v)
        /\ answer' = IF Head(requests).awaited
                     THEN IF accepted = Params THEN "set" ELSE "rejected"
                     ELSE answer
    /\ requests' = Tail(requests)
    /\ UNCHANGED <<runs, at, choice, parked, failing, tightened>>

(* set_goal_tolerance: send the request, then wait for its answer. *)
Ask(v) ==
    /\ requests' = Append(requests, [v |-> v, awaited |-> TRUE])
    /\ answer' = "none"
    /\ UNCHANGED tol

(* The wait gave up; the request is carried out all the same. *)
Abandon ==
    /\ answer = "none"
    /\ requests' = [k \in DOMAIN requests |-> [requests[k] EXCEPT !.awaited = FALSE]]
    /\ UNCHANGED <<tol, answer>>

(* Variant: only whether there was an answer is looked at. *)
AnyAnswer == answer # "none"
IsSet == answer = "set"
IsRejected == answer = "rejected"

(***************************************************************************)
(* make_graspable.                                                         *)
(***************************************************************************)
(* A new call, in this mission or the next; parking with measured grasps   *)
(* of a sphere has a second set of hand poses.                             *)
MakeGraspable ==
    /\ at \in Returned /\ runs < MaxRuns
    /\ runs' = runs + 1
    /\ at' = "solve"
    /\ alternate' \in BOOLEAN
    /\ bases' = <<>> /\ i' = 0 /\ failing' = FALSE /\ tightened' = FALSE
    /\ UNCHANGED <<params, parked>>

Raise == at' = "raised" /\ UNCHANGED <<runs, choice, parked, tightened>>

(* The hand poses are solved one by one; one that times out or has no      *)
(* service raises, for reachability is then unknown.  What is found is     *)
(* ranked, and what stands in furniture dropped: the rest is in its order. *)
InOrder(S) ==
    { order \in [1..Cardinality(S) -> S] :
        \A j, k \in 1..Cardinality(S) : j < k => order[j] < order[k] }
Offered(found) ==
    { [k \in DOMAIN order |-> found[order[k]]] :
        order \in InOrder({ k \in DOMAIN found : ~found[k].blocked }) }

Solve ==
    /\ at = "solve"
    /\ \/ /\ \E n \in 0..MaxBases : \E found \in [1..n -> Base] : bases' \in Offered(found)
          /\ i' = 1 /\ at' = "option"
          /\ UNCHANGED <<alternate, runs, parked, tightened>>
       \/ Raise
    /\ UNCHANGED <<params, failing>>

(* The next base pose: an unreachable one, also after the costmap was      *)
(* cleared, is passed over.                                                *)
Reachable ==
    /\ at = "option" /\ i <= Len(bases)
    /\ \/ at' = "tighten" /\ UNCHANGED <<choice, runs, parked, tightened>>
       \/ at' = at /\ i' = i + 1 /\ UNCHANGED <<alternate, bases, runs, parked, tightened>>
       \/ Raise
    /\ UNCHANGED <<params, failing>>

NoneLeft ==
    /\ at = "option" /\ i > Len(bases)
    /\ at' = IF alternate THEN "solve" ELSE "not_graspable"
    /\ alternate' = FALSE
    /\ UNCHANGED <<params, runs, bases, i, parked, failing, tightened>>

Tighten ==
    /\ at = "tighten"
    /\ \/ /\ Ask("tight")
          /\ at' = "tightening" /\ tightened' = TRUE
          /\ UNCHANGED <<runs, choice, parked>>
       \/ Raise /\ UNCHANGED params
    /\ UNCHANGED failing

Tightened ==
    /\ at = "tightening"
    /\ \/ IsSet /\ at' = "drive" /\ UNCHANGED <<params, runs, choice, parked, tightened>>
       \/ IsRejected /\ Raise /\ UNCHANGED params
       \/ Abandon /\ Raise
    /\ UNCHANGED failing

(* drive_to returns or raises; where the base is says the measurement. *)
DriveThere ==
    /\ at = "drive"
    /\ parked' \in {0, i}
    /\ failing' \in BOOLEAN
    /\ at' = "restore"
    /\ UNCHANGED <<params, runs, choice, tightened>>

(* Variant: no `finally'. *)
NotRestored ==
    /\ at = "restore"
    /\ IF failing THEN Raise ELSE at' = "measure" /\ UNCHANGED <<runs, choice, parked, tightened>>
    /\ UNCHANGED <<params, failing>>

(* The `finally' of _approach; its own failure replaces the drive's. *)
Restore ==
    /\ at = "restore"
    /\ \/ Ask("normal") /\ at' = "restoring" /\ UNCHANGED <<runs, choice, parked, tightened>>
       \/ Raise /\ UNCHANGED params
    /\ UNCHANGED failing

Restored ==
    /\ at = "restoring"
    /\ \/ IsSet /\ ~failing /\ at' = "measure" /\ UNCHANGED <<params, runs, choice, parked, tightened>>
       \/ (IsRejected \/ (IsSet /\ failing)) /\ Raise /\ UNCHANGED params
       \/ Abandon /\ Raise
    /\ UNCHANGED failing

WithinLimits == parked = i

Measure ==
    /\ at = "measure"
    /\ \/ WithinLimits /\ at' = "aim" /\ UNCHANGED <<choice, runs, parked, tightened>>
       \/ /\ ~WithinLimits /\ at' = "option" /\ i' = i + 1
          /\ UNCHANGED <<alternate, bases, runs, parked, tightened>>
       \/ Raise
    /\ UNCHANGED <<params, failing>>

Aim ==
    /\ at = "aim"
    /\ \/ at' \in {"ready", "not_graspable"} /\ UNCHANGED <<runs, choice, parked, tightened>>
       \/ Raise
    /\ UNCHANGED <<params, failing>>

(* Ctrl+C: only a drive has something to restore on the way out. *)
Interrupt ==
    /\ at \notin Returned
    /\ IF at = "drive"
       THEN at' = "restore" /\ failing' = TRUE /\ UNCHANGED <<params, runs, choice, parked, tightened>>
       ELSE /\ Raise /\ UNCHANGED <<tol, answer, failing>>
            /\ requests' = [k \in DOMAIN requests |-> [requests[k] EXCEPT !.awaited = FALSE]]

(* Between the calls the robot drives elsewhere. *)
DriveAway ==
    /\ at \in Returned
    /\ parked' = 0 /\ at' = "idle"
    /\ UNCHANGED <<params, runs, choice, failing, tightened>>

Step ==
    \/ Solve \/ Reachable \/ NoneLeft \/ Tighten \/ Tightened \/ DriveThere
    \/ Restore \/ Restored \/ Measure \/ Aim

ParkingNext == Apply \/ MakeGraspable \/ Step \/ Interrupt \/ DriveAway

ParkingSpec == ParkingInit /\ [][ParkingNext]_parking

(***************************************************************************)
(* Properties.                                                             *)
(***************************************************************************)
(* The type of the state; at most one request is waited for, the last.     *)
ParkingTypeOK ==
    /\ tol \in [Params -> Values] /\ answer \in {"none", "set", "rejected"}
    /\ \A k \in DOMAIN requests :
        /\ requests[k] \in [v : Values, awaited : BOOLEAN]
        /\ requests[k].awaited => k = Len(requests) /\ at \in {"tightening", "restoring"}
    /\ runs \in 0..MaxRuns /\ alternate \in BOOLEAN /\ failing \in BOOLEAN
    /\ tightened \in BOOLEAN /\ parked \in 0..MaxBases
    /\ Len(bases) <= MaxBases /\ i \in 0..Len(bases) + 1
    /\ at \in Returned \cup {"solve", "option", "tighten", "tightening", "drive", "restore",
                          "restoring", "measure", "aim"}

(* No precise drive under tolerances that are not all tight, whatever      *)
(* earlier calls left behind: a restoration that timed out and comes into  *)
(* effect late, a request refused in part ("Driving on with an unknown     *)
(* tolerance would make arrival meaningless", nav2_client.py:291).         *)
DriveIsPrecise == at = "drive" => tol = All("tight") /\ requests = <<>>

(* A call that returns, rather than raises, leaves Nav2 with its normal    *)
(* tolerances when it changed them, and nothing under way that would       *)
(* tighten them again (graspable._approach).                               *)
NormalOnReturn ==
    at \in {"ready", "not_graspable"} /\ tightened => tol = All("normal") /\ requests = <<>>

(* READY only while the base stands within the limits of the pose tried    *)
(* last, which is clear of furniture, under normal tolerances: never on    *)
(* the word of a drive or of an earlier pose (make_graspable).             *)
ReadyMeansParked ==
    at = "ready" => /\ i \in 1..Len(bases) /\ parked = i /\ ~bases[i].blocked
                    /\ tol = All("normal")

(* What graspable._approach says it does ("Temporarily tighten parking     *)
(* tolerances, restore them afterward", graspable.py:126).  The code       *)
(* breaks it: what raises out of the tightening restores nothing.          *)
RestoredAfterward == at = "raised" /\ tightened /\ requests = <<>> => tol = All("normal")
=============================================================================
