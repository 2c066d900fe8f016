-------------------------------- MODULE Views --------------------------------
(***************************************************************************)
(* The observation poses of one place: actions.plan filters the ring of    *)
(* poses around it by the costmap once per mission (VIEWS), and            *)
(* standoff.order orders what is left afresh each time and says how many   *)
(* views are needed.  goto.py drives to the first that can be reached.     *)
(*                                                                         *)
(* The ring is unrolled to a line: a pose is its number, and its distance  *)
(* to another the difference.  Coverage is counted in samples.             *)
(***************************************************************************)
EXTENDS Integers, Sequences, FiniteSets, FiniteSetsExt

CONSTANTS
    Ring,           \* the poses of standoff.candidates: 1..n
    Points,         \* the cells a line of sight crosses outside the place
    Samples,        \* the surface samples of the place
    Coverages,      \* the sets of samples that a pose may see
    GainStep,       \* the number of samples that GAIN_STEP of the surface is
    MinViews,       \* MIN_VIEWS
    MaxViews,       \* MAX_VIEWS
    SpotKinds,      \* the kinds of floor tried: records of Spot
    Starts,         \* where the robot may be
    MaxPlans        \* bound: calls of plan in one mission

(* What the saved map and Nav2's costmap say of a cell.  A wall of the     *)
(* saved map is lethal in the costmap for good: its static layer.          *)
Unknown == -1
Inscribed == 99
Lethal == 100
Cost == {Unknown, 0, Inscribed, Lethal}
Cell == { c \in [saved : {Unknown, 0, Lethal}, cost : Cost] :
            c.saved = Lethal => c.cost = Lethal }
(* A pose's own cell, the cells between it and what it looks at, and       *)
(* whether it stands in furniture.                                         *)
Spot == [floor : Cell, line : [Points -> Cell], furniture : BOOLEAN]

ASSUME ViewsAssumption ==
    /\ Ring \subseteq Nat /\ IsFiniteSet(Ring) /\ IsFiniteSet(Samples)
    /\ Coverages \subseteq SUBSET Samples
    /\ GainStep \in Nat \ {0} /\ MinViews \in Nat /\ MaxViews \in Nat /\ MinViews <= MaxViews
    /\ SpotKinds \subseteq Spot /\ Starts \subseteq Nat /\ MaxPlans \in Nat

VARIABLES
    spot,           \* the floor at each pose
    visible,        \* the samples seen from each pose
    known,          \* VIEWS holds the place
    poses,          \* the poses it holds
    marked,         \* history: the poses whose cells a mark changed since
    phase,          \* "idle", "order", "planned", "arrived" or "refused"
    ordered,        \* the poses in the order chosen so far
    seen,           \* the samples they see
    needed,         \* the views needed, at last what order returns; -1 for None
    here,           \* where the next view is driven from
    k,              \* goto's pose
    plans

viewing == <<spot, visible, known, poses, marked, phase, ordered, seen, needed, here, k, plans>>
place == <<visible, known, poses, marked>>
order == <<ordered, seen, needed>>

(***************************************************************************)
(* The costmap as the tests of a pose read it.                             *)
(***************************************************************************)
(* base_placement.costmap_grid and sight_grid: what the saved map never    *)
(* saw stays unknown, the rest is blocked or free at a cost.               *)
(* Variant: what a laser beam passed is free. *)
CostOnly(s, c, blockedAt) ==
    IF c = Unknown THEN "unknown" ELSE IF c >= blockedAt THEN "blocked" ELSE "free"
Rebinned(s, c, blockedAt) ==
    IF s = Unknown THEN "unknown" ELSE CostOnly(s, c, blockedAt)

(* standoff.free, unobstructed and blocks. *)
Free(p) == Rebinned(spot[p].floor.saved, spot[p].floor.cost, Inscribed) = "free"
Unobstructed(p) ==
    \A i \in Points :
        LET c == spot[p].line[i] IN Rebinned(c.saved, c.cost, Lethal) # "blocked"
Clear(p) == ~spot[p].furniture /\ Free(p) /\ Unobstructed(p)

(***************************************************************************)
(* standoff.order, one chosen view at a time.                              *)
(***************************************************************************)
Remaining == poses \ { ordered[j] : j \in DOMAIN ordered }
Gain(p) == Cardinality(visible[p] \ seen)
Apart(p, q) == IF p < q THEN q - p ELSE p - q
BestFirst == Max({0} \cup { Cardinality(visible[p]) : p \in poses })
Separation(p) ==
    IF Gain(p) >= GainStep THEN 0 ELSE Min({ Apart(p, ordered[j]) : j \in DOMAIN ordered })

(* The key that min() takes; numbers first where it compares booleans, and *)
(* the place in the list where it finds two keys equal.                    *)
Truth(b) == IF b THEN 1 ELSE 0
RankKey(p) ==
    IF ordered = <<>>
    THEN <<Truth(Gain(p) < BestFirst - GainStep), Apart(p, here), p>>
    ELSE <<-(Gain(p) \div GainStep), Truth(visible[p] = {}), -Separation(p),
           Apart(p, here), p>>

Less(a, b) == \E j \in DOMAIN a : a[j] < b[j] /\ \A m \in 1..j - 1 : a[m] = b[m]
NextBest == CHOOSE p \in Remaining : \A q \in Remaining \ {p} : Less(RankKey(p), RankKey(q))

(* Variant: one view too few. *)
OneLess(n) == Min({MaxViews, Max({MinViews, n - 1})})
Clamped(n) == Min({MaxViews, Max({MinViews, n})})

(* surface_points and sees: the samples a pose may show. *)
Seen == [Ring -> Coverages]

ViewsInit ==
    /\ spot \in [Ring -> SpotKinds]
    /\ visible \in Seen
    /\ known = FALSE /\ poses = {} /\ marked = {}
    /\ phase = "idle"
    /\ ordered = <<>> /\ seen = {} /\ needed = -1
    /\ here = 0
    /\ k = 0
    /\ plans = 0

(* Candidates are filtered the first time only; the robot may be anywhere. *)
Plan ==
    /\ phase \in {"idle", "arrived", "refused"} /\ plans < MaxPlans
    /\ known' = TRUE
    /\ poses' = IF known THEN poses ELSE { p \in Ring : Clear(p) }
    /\ marked' = IF known THEN marked ELSE {}
    /\ ordered' = <<>> /\ seen' = {} /\ needed' = -1
    /\ phase' = "order"
    /\ here' \in Starts
    /\ plans' = plans + 1 /\ k' = 0
    /\ UNCHANGED <<spot, visible>>

Choose ==
    /\ phase = "order" /\ Remaining # {}
    /\ ordered' = Append(ordered, NextBest)
    /\ seen' = seen \cup visible[NextBest]
    /\ needed' = IF needed = -1 /\ Gain(NextBest) < GainStep THEN Len(ordered) ELSE needed
    /\ here' = NextBest
    /\ UNCHANGED <<spot, place, phase, k, plans>>

(* The order is complete.  The robot is where it was before it was made,   *)
(* which matters no more.                                                  *)
Planned ==
    /\ phase = "order" /\ Remaining = {}
    /\ phase' = "planned"
    /\ needed' = Clamped(IF needed = -1 THEN Len(ordered) ELSE needed)
    /\ here' = 0
    /\ k' = 1
    /\ UNCHANGED <<spot, place, ordered, seen, plans>>

(***************************************************************************)
(* goto.main: the first pose that has a path and is reached.               *)
(***************************************************************************)
(* No path, also after the global costmap was cleared, or a drive that     *)
(* stops short.                                                            *)
PoseFails ==
    /\ phase = "planned" /\ k <= Len(ordered)
    /\ k' = k + 1 /\ phase' = phase
    /\ UNCHANGED <<spot, place, order, here, plans>>

Arrive ==
    /\ phase = "planned" /\ k <= Len(ordered)
    /\ phase' = "arrived"
    /\ UNCHANGED <<spot, place, order, here, k, plans>>

NoneReached ==
    /\ phase = "planned" /\ k > Len(ordered)
    /\ phase' = "refused"
    /\ UNCHANGED <<spot, place, order, here, k, plans>>

(* The costmap changes: a mark comes or goes in a pose's cell or on its    *)
(* line of sight.  The saved map does not change, nor what it calls wall.  *)
(* While an order is made nothing reads the costmap.                       *)
Mark(p, new) ==
    /\ new \in SpotKinds /\ new # spot[p]
    /\ new.furniture = spot[p].furniture
    /\ new.floor.saved = spot[p].floor.saved
    /\ \A i \in Points : new.line[i].saved = spot[p].line[i].saved
    /\ spot' = [spot EXCEPT ![p] = new]
    /\ marked' = marked \cup {p}

MarksChange ==
    /\ phase # "order" /\ plans < MaxPlans
    /\ \E p \in Ring, new \in SpotKinds : Mark(p, new)
    /\ UNCHANGED <<visible, known, poses, phase, order, here, k, plans>>

ViewsNext ==
    \/ Plan \/ Choose \/ Planned
    \/ PoseFails \/ Arrive \/ NoneReached \/ MarksChange

ViewsSpec == ViewsInit /\ [][ViewsNext]_viewing

(***************************************************************************)
(* Properties.                                                             *)
(***************************************************************************)
(* The type of the state; the order never repeats a pose or takes one that *)
(* is not cached.                                                          *)
ViewsTypeOK ==
    /\ spot \in [Ring -> Spot] /\ visible \in Seen
    /\ known \in BOOLEAN /\ poses \subseteq Ring /\ marked \subseteq Ring
    /\ phase \in {"idle", "order", "planned", "arrived", "refused"}
    /\ { ordered[j] : j \in DOMAIN ordered } \subseteq poses
    /\ Cardinality({ ordered[j] : j \in DOMAIN ordered }) = Len(ordered)
    /\ seen \subseteq Samples /\ needed \in -1..Max({MinViews, Len(ordered)})
    /\ here \in Nat /\ k \in 0..Len(ordered) + 1 /\ plans \in 0..MaxPlans

(* No pose is offered on floor the saved map never saw, in furniture or    *)
(* behind one of its walls, however old the cache ("What the map never saw *)
(* stays unknown", base_placement.py:148); and none that the costmap       *)
(* blocks now, unless a mark changed its cells since it was cached.        *)
ForGood(s) ==
    /\ s.floor.saved = 0 /\ ~s.furniture
    /\ \A i \in Points : s.line[i].saved # Lethal
StandsOnSeenFloor ==
    phase = "planned" =>
        \A j \in DOMAIN ordered :
            /\ ForGood(spot[ordered[j]])
            /\ Clear(ordered[j]) \/ ordered[j] \in marked

(* StandsOnSeenFloor without its exception.  The code breaks it: the poses *)
(* are filtered only when the place is first planned (actions.py:333), and *)
(* a second round orders those that a mark has blocked since.              *)
OrdersClearPoses == phase = "order" => \A p \in poses : Clear(p)

(* The count that standoff.order returns is enough, unless MAX_VIEWS caps  *)
(* it: past so many views no other one adds a step of coverage.  (Not when *)
(* the very first view already adds less: see NoneNeeded.)                 *)
SeenBy(n) == UNION { visible[ordered[j]] : j \in 1..n }
Enough == needed < MaxViews /\ needed < Len(ordered) =>
              \A p \in poses : Cardinality(visible[p] \ SeenBy(needed)) < GainStep
NeededIsEnough ==
    phase = "planned" /\ ordered # <<>> /\ Cardinality(visible[ordered[1]]) >= GainStep => Enough

(* The order never spends a drive on less when a later one brings more: a  *)
(* later view's new coverage is in no higher step than an earlier one's,   *)
(* after the first.                                                        *)
StepOf(j) == Cardinality(visible[ordered[j]] \ SeenBy(j - 1)) \div GainStep
NoneBetterLater ==
    phase = "planned" => \A j \in 2..Len(ordered) : \A m \in j..Len(ordered) : StepOf(m) <= StepOf(j)

(* NeededIsEnough without its exception.  The code breaks it: the first    *)
(* view is the nearest within a step of the best coverage, so it may add   *)
(* less than a step when others add more, and needed is then zero          *)
(* (standoff.py:233 and 238): MIN_VIEWS is all the search is asked for.    *)
NoneNeeded == phase = "planned" => Enough
=============================================================================
