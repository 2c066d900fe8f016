----------------------------- MODULE Localizer -----------------------------
(***************************************************************************)
(* realrobot/live/localize.py: one laser scan is matched against the map   *)
(* and the pose found is published to the robot's localizers, unless the   *)
(* match is poor.  Positions are cells of a line, each with the cost of    *)
(* its best heading; a pose that throws most of the scan off the map has   *)
(* the cost Off.                                                           *)
(***************************************************************************)
EXTENDS Integers, FiniteSets, SequencesExt

CONSTANTS
    LastCell,       \* the cells are 0..LastCell, and 0 is the map's origin
    Coarse,         \* the cells on the coarse grid
    Off,            \* the cost of a pose off the map: above every other
    Keep,           \* the places that locate refines
    Apart,          \* and how far apart they are
    Spans,          \* refine's steps, each half of the one before
    Multiples,      \* the multiples of a step that refine tries
    Topics          \* the topics that the pose is published on

ASSUME LocalizerAssumption ==
    /\ LastCell \in Nat /\ Coarse \subseteq 0..LastCell
    /\ Off \in Nat \ {0} /\ Keep \in Nat \ {0} /\ Apart \in Nat
    /\ Spans \in Seq(Nat) /\ Spans # <<>>
    /\ 0 \in Multiples

VARIABLES
    cost,           \* what score gives each cell for the scan
    free,           \* the coarse cells with free floor, within --near
    stage,          \* how far main is
    match,          \* what locate returned
    matched,        \* the topics that a subscriber is known on
    late,           \* whether the wait for subscribers ran out
    heard           \* the topics on which somebody got the pose

localizing == <<cost, free, stage, match, matched, late, heard>>

Cells == 0..LastCell
Origin == 0
NoMatch == [cost |-> Off, cell |-> Origin]

LocalizerInit ==
    /\ cost \in [Cells -> 0..Off]
    /\ free \in SUBSET Coarse
    /\ stage = "scan" /\ match = NoMatch
    /\ matched = {} /\ late = FALSE /\ heard = {}

(***************************************************************************)
(* The match.                                                              *)
(***************************************************************************)
Before(c, d) == cost[c] < cost[d] \/ (cost[c] = cost[d] /\ c < d)
Around(c, span) == { c + k * span : k \in Multiples } \cap Cells

(* The first of the cheapest, or the origin where all are off the map. *)
Search(cells) ==
    IF \A c \in cells : cost[c] = Off THEN NoMatch
    ELSE LET best == CHOOSE c \in cells : \A d \in cells \ {c} : Before(c, d)
         IN [cost |-> cost[best], cell |-> best]

Closer(found, span) ==
    LET next == Search(Around(found.cell, span))
    IN IF next.cost <= found.cost THEN next ELSE found
Refine(c) == FoldLeft(Closer, [cost |-> cost[c], cell |-> c], Spans)

(* Each heading gives its best cells, so the best of all are among them. *)
BestCells == { c \in free : Cardinality({ d \in free : Before(d, c) }) < Keep }

(* Variant: only the cheapest cell is refined. *)
WinnerOnly(found) == { c \in found : \A d \in found \ {c} : Before(c, d) }

(* The cheapest cells that lie apart from every cheaper one kept. *)
Places(found) ==
    FoldLeft(LAMBDA kept, c :
                 IF Cardinality(kept) < Keep /\ \A d \in kept : c - d > Apart \/ d - c > Apart
                 THEN kept \cup {c} ELSE kept,
             {}, SetToSortSeq(found, Before))

Cheapest(matches) ==
    CHOOSE m \in matches : \A n \in matches : m.cost < n.cost \/ (m.cost = n.cost /\ m.cell <= n.cell)
Locate(found) == Cheapest({ Refine(c) : c \in Places(found) })

(***************************************************************************)
(* main.                                                                   *)
(***************************************************************************)
Exit == stage' = "ended" /\ UNCHANGED <<cost, free, match, matched, late, heard>>

(* A scan and the laser's transform come in time, or it gives up. *)
Scan ==
    /\ stage = "scan"
    /\ \/ Exit
       \/ stage' = "search" /\ UNCHANGED <<cost, free, match, matched, late, heard>>

SearchMap ==
    /\ stage = "search"
    /\ \/ free = {} /\ Exit
       \/ /\ free # {}
          /\ \E found \in SUBSET free : BestCells \subseteq found /\ match' = Locate(found)
          /\ stage' = "judge"
          /\ UNCHANGED <<cost, free, matched, late, heard>>

(* How far the median beam ends from a wall; it is no number where none of *)
(* the beams ends on the map.                                              *)
Medians == IF match.cost = Off THEN {"close", "far", "none"} ELSE {"close", "far"}

(* No comparison with what is no number holds, so that is not rejected.    *)
(* With --dry-run nothing is published either.                             *)
Judge ==
    /\ stage = "judge"
    /\ \/ Exit
       \/ \E median \in Medians \ {"far"} :
              /\ stage' = IF median = "close" THEN "wait" ELSE "wait, unjudged"
              /\ UNCHANGED <<cost, free, match, matched, late, heard>>

Waiting == stage \in {"wait", "wait, unjudged"}

(* A subscriber on a topic becomes known. *)
Matched(t) ==
    /\ stage # "ended" /\ t \notin matched
    /\ matched' = matched \cup {t}
    /\ UNCHANGED <<cost, free, stage, match, late, heard>>

(* Variant: the wait ends with the first subscriber. *)
SomeMatched == matched # {}

AllMatched == matched = Topics

WaitEnds ==
    /\ Waiting /\ ~late /\ ~AllMatched
    /\ late' = TRUE
    /\ UNCHANGED <<cost, free, stage, match, matched, heard>>

Publish ==
    /\ Waiting /\ (AllMatched \/ late)
    /\ heard' = matched
    /\ stage' = IF stage = "wait" THEN "published" ELSE "published unjudged"
    /\ UNCHANGED <<cost, free, match, matched, late>>

LocalizerNext ==
    \/ Scan \/ SearchMap \/ Judge \/ WaitEnds \/ Publish
    \/ \E t \in Topics : Matched(t)

LocalizerSpec == LocalizerInit /\ [][LocalizerNext]_localizing

(***************************************************************************)
(* Properties.                                                             *)
(***************************************************************************)
Located == stage \notin {"scan", "search", "ended"}
OwnPlace(c) == \A d \in free : Before(d, c) => (c - d > Apart \/ d - c > Apart)

(* locate keeps several places because a true pose between two grid cells  *)
(* may cost more on the grid than a false match elsewhere: no pose that a  *)
(* refinement of one of the best cells meets at once is cheaper than the   *)
(* match, unless a cheaper cell stands for that place.                     *)
NoneBetterNearTheBest ==
    Located => \A c \in BestCells : OwnPlace(c) =>
                   \A d \in Around(c, Spans[1]) : match.cost <= cost[d]

(* A pose published before its subscriber is known is silently lost: a     *)
(* localizer misses it only when it was not known within the whole wait.   *)
HeardUnlessLate ==
    stage \in {"published", "published unjudged"} => heard = Topics \/ late

(* The text of the script promises to publish nothing when the match is    *)
(* poor; what has no median at all is published.                           *)
PoorIsNotPublished == stage # "published unjudged"
=============================================================================
