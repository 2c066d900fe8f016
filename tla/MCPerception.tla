---------------------------- MODULE MCPerception ----------------------------
(* Three programs of perception that share nothing: the view loop, the     *)
(* localizer and the capture of a pair of images.  A behaviour is of one   *)
(* of them, and the two others rest where they begin.                      *)
EXTENDS Explore, Localizer, Capture

VARIABLE program

(* A window of two views, so that the ring of slots wraps within the steps. *)
MCOffsets == {-1, 1}
MCCentres == {0, 2}
MCGains == 0..2
MCScores == {9, 10}
MCVoxels == {"a", "b"}

(* Nine cells, three of them on the grid, each with a better pose beside   *)
(* it or not: two places of the three are refined, by steps of two and     *)
(* one, and only the outer two are apart.                                  *)
GridCells == {1, 4, 7}
Halving == <<2, 1>>
Either == {-1, 0, 1}

PerceptionInit ==
    /\ program \in {"exploration", "localization", "capture"}
    /\ Init /\ (program # "exploration" => centre = 0)
    /\ LocalizerInit /\ (program # "localization" => cost = [c \in Cells |-> 0] /\ free = {})
    /\ CaptureInit /\ (program # "capture" => ~sim)

PerceptionNext ==
    \/ program = "exploration" /\ Next /\ UNCHANGED <<program, localizing, grabbing>>
    \/ program = "localization" /\ LocalizerNext /\ UNCHANGED <<program, vars, grabbing>>
    \/ program = "capture" /\ CaptureNext /\ UNCHANGED <<program, vars, localizing>>

PerceptionSpec == PerceptionInit /\ [][PerceptionNext]_<<program, vars, localizing, grabbing>>
=============================================================================
