------------------------------ MODULE Approach ------------------------------
(***************************************************************************)
(* One Navigator for everything a mission drives for: graspable._approach  *)
(* calls drive_to between its two requests for tolerances, and what comes  *)
(* between the calls of make_graspable (a search, a handoff) calls it too. *)
(* A call of drive_to that raises ends the mission; where make_graspable   *)
(* raises by itself, the next mission's Navigator goes on over the same    *)
(* Nav2.                                                                   *)
(***************************************************************************)
EXTENDS NavGoal, Parking

VARIABLE forGrasp   \* the call of drive_to is _approach's

approach == <<vars, parking, forGrasp>>
Calling == {"sent", "late", "waiting", "cancelling"}

ApproachInit == Init /\ ParkingInit /\ forGrasp = FALSE

(* What happens beside the mission: a request for tolerances is carried    *)
(* out, a goal arrives, ends or is cancelled.                              *)
Nav2Step ==
    \/ Apply /\ UNCHANGED <<vars, forGrasp>>
    \/ ServerStep /\ UNCHANGED <<client, parking, forGrasp>>

DriveForGrasp ==
    /\ at = "drive" /\ ~forGrasp
    /\ Drive
    /\ forGrasp' = TRUE
    /\ UNCHANGED parking

(* drive_to has returned or raised; _approach's `finally' comes next. *)
Driven ==
    /\ forGrasp /\ pc \notin Calling
    /\ DriveThere /\ failing' = (pc = "ended")
    /\ forGrasp' = FALSE
    /\ UNCHANGED vars

DriveElsewhere ==
    /\ DriveAway /\ Drive
    /\ UNCHANGED forGrasp

(* A drive goes on: the mission waits for it, whatever it is for. *)
DriveGoesOn == ClientStep /\ UNCHANGED <<parking, forGrasp>>

(* The rest of make_graspable.  An interrupt during a drive is the drive's *)
(* own (InterruptedEarly, GiveUp).                                         *)
ParkingGoesOn ==
    /\ pc \notin Calling /\ ~forGrasp
    /\ \/ MakeGraspable /\ pc = "free"
       \/ Solve \/ Reachable \/ NoneLeft \/ Tighten \/ Tightened
       \/ Restore \/ Restored \/ Measure \/ Aim
       \/ Interrupt
    /\ UNCHANGED <<vars, forGrasp>>

ApproachNext ==
    Nav2Step \/ DriveForGrasp \/ Driven \/ DriveElsewhere \/ DriveGoesOn \/ ParkingGoesOn

(* As in NavGoal: a call's waits have timeouts, and what a server is asked *)
(* to cancel it cancels in the end.                                        *)
ApproachFairness ==
    /\ WF_approach(DriveGoesOn)
    /\ \A g \in Goals : WF_approach(CancelTakesEffect(g) /\ UNCHANGED <<client, parking, forGrasp>>)

ApproachSpec == ApproachInit /\ [][ApproachNext]_approach /\ ApproachFairness

(***************************************************************************)
(* Properties.                                                             *)
(***************************************************************************)
(* make_graspable says READY, after which the pick plans for where the     *)
(* base stands, only while no goal moves the base or still may: neither    *)
(* the last drive's, however it ended, nor an earlier one's.               *)
ReadyStandsStill == at = "ready" => \A g \in Goals : ~MayMove(g)
=============================================================================
