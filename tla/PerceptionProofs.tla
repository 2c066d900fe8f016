-------------------------- MODULE PerceptionProofs --------------------------
(***************************************************************************)
(* Proofs about what the robot looks at and from where: the next best view *)
(* around a target (Explore), for any window of views, any number of       *)
(* passes, any grasps and any gains; and the observation poses of a place  *)
(* (Views), for any ring of poses, any floor and any coverage.  The lemmas *)
(* on least members are RoomProofs'.                                       *)
(***************************************************************************)
EXTENDS Explore, Views, RoomProofs

Grasps == [Voxels -> Scores \cup {0}]

LoopTypes ==
    /\ views \in Nat /\ hist \in [Slots -> Grasps]
    /\ best \in Voxels \cup {"none"}

(* A score stands in a slot that a view has written: the ring of slots is  *)
(* filled from the first one, and goes round once all are.                 *)
SlotsAreViews == \A t \in Slots, v \in Voxels : hist[t][v] # 0 => t < views

BestIsScored == best # "none" => best \in scored[1]

(* The loop stops once. *)
StopIsFinal == why # "none" => at \in {"save", "saved"}

(* The inductive invariant. *)
LoopInv ==
    /\ LoopTypes /\ SlotsAreViews /\ BestIsScored /\ StopIsFinal
    /\ StableAfterAWindow

(* No view, no score. *)
LEMMA LoopStarts == Init => LoopInv
BY ExploreAssumption DEF ExploreAssumption, Init, LoopInv, LoopTypes, SlotsAreViews, BestIsScored,
   StopIsFinal, StableAfterAWindow, Grasps, Slots

(* The slot of a view is one of those of the views so far.                 *)
LEMMA SlotOfView ==
    ASSUME NEW n \in Nat
    PROVE  n % Window \in Slots /\ n % Window < n + 1
<1>1. Window \in Nat /\ Window > 0
  BY ExploreAssumption DEF ExploreAssumption
<1>2. n % Window \in 0..Window - 1
  BY <1>1, SMT
<1>3. n % Window <= n
  BY <1>1, SMT
<1> QED
  BY <1>1, <1>2, <1>3 DEF Slots

(* What a prediction leaves in the history, and which grasp it calls best. *)
LEMMA PredictKeeps ==
    ASSUME LoopInv, Predict, views' = views + 1
    PROVE  LoopTypes' /\ SlotsAreViews' /\ BestIsScored'
<1>1. 1 \in 1..Window
  BY ExploreAssumption DEF ExploreAssumption
<1>2. CASE best' = "none" /\ hist' = hist
  BY <1>2 DEF LoopInv, LoopTypes, SlotsAreViews, BestIsScored, Slots
<1>3. ASSUME NEW found \in [Voxels -> Scores \cup {0}],
             hist' = [hist EXCEPT ![views % Window] = found],
             scored' = [n \in 1..Window |->
                          IF n = 1 THEN {v \in Voxels : found[v] # 0} ELSE scored[n - 1]],
             IF \A v \in Voxels : found[v] = 0 THEN best' = "none"
             ELSE best' \in {v \in Voxels : \A w \in Voxels : found[v] >= found[w]}
      PROVE  LoopTypes' /\ SlotsAreViews' /\ BestIsScored'
  <2>1. views % Window \in Slots /\ views % Window < views'
    BY SlotOfView DEF LoopInv, LoopTypes
  <2>2. LoopTypes'
    BY <1>3, <2>1 DEF LoopInv, LoopTypes, Grasps
  <2>3. SlotsAreViews'
    <3> SUFFICES ASSUME NEW t \in Slots, NEW v \in Voxels, hist'[t][v] # 0 PROVE t < views'
      BY DEF SlotsAreViews, Slots
    <3>1. CASE t = views % Window
      BY <2>1, <3>1
    <3>2. CASE t # views % Window
      <4>1. hist'[t] = hist[t]
        BY <1>3, <3>2 DEF LoopInv, LoopTypes
      <4> QED
        BY <4>1 DEF LoopInv, LoopTypes, SlotsAreViews, Slots
    <3> QED
      BY <3>1, <3>2
  <2>4. BestIsScored'
    <3> SUFFICES ASSUME best' # "none" PROVE best' \in scored'[1]
      BY DEF BestIsScored
    <3>1. PICK w \in Voxels : found[w] # 0
      BY <1>3
    <3>2. best' \in Voxels /\ found[best'] >= found[w]
      BY <1>3
    <3>3. \A v \in Voxels : found[v] \in Nat
      BY ExploreAssumption DEF ExploreAssumption
    <3>4. found[best'] # 0
      BY <3>1, <3>2, <3>3
    <3> QED
      BY <1>1, <1>3, <3>2, <3>4
  <2> QED
    BY <2>2, <2>3, <2>4
<1> QED
  BY <1>2, <1>3 DEF Predict

(* Every pass of the loop keeps the ring of slots in step with the views.  *)
LEMMA LoopKeeps == LoopInv /\ [Next]_vars => LoopInv'
<1> SUFFICES ASSUME LoopInv, [Next]_vars PROVE LoopInv'
  OBVIOUS
<1>1. CASE StopEarly
  <2>1. LoopTypes' /\ SlotsAreViews' /\ BestIsScored' /\ StopIsFinal'
    BY <1>1 DEF StopEarly, Stop, LoopInv, LoopTypes, SlotsAreViews, BestIsScored, StopIsFinal
  <2>2. ASSUME why' = "stable" PROVE views' >= Window /\ best' \in scored'[1]
    <3>1. Stable /\ UNCHANGED <<views, best, scored>>
      BY <1>1, <2>2 DEF StopEarly, Stop
    <3>2. Window \in Nat \ {0} /\ Window - 1 \in Slots
      BY ExploreAssumption DEF ExploreAssumption, Slots
    <3>3. best \in Voxels /\ hist[Window - 1][best] # 0
      BY <3>1, <3>2 DEF Stable, LoopInv, LoopTypes
    <3>4. Window - 1 < views
      BY <3>2, <3>3 DEF LoopInv, SlotsAreViews
    <3> QED
      BY <3>1, <3>2, <3>4 DEF Stable, LoopInv, LoopTypes, BestIsScored
  <2> QED
    BY <2>1, <2>2 DEF LoopInv, StableAfterAWindow
<1>2. CASE Update
  <2>1. Predict /\ views' = views + 1 /\ at = "update"
    BY <1>2 DEF Update
  <2>2. LoopTypes' /\ SlotsAreViews' /\ BestIsScored'
    BY <2>1, PredictKeeps
  <2>3. why = "none"
    BY <2>1 DEF LoopInv, StopIsFinal
  <2>4. \/ at' = "save" /\ why' \in {"nothing to gain", "too little"}
        \/ at' = "move" /\ why' = why
    BY <1>2 DEF Update, Stop
  <2> QED
    BY <2>2, <2>3, <2>4 DEF LoopInv, StopIsFinal, StableAfterAWindow
<1>3. CASE Move \/ Capture \/ Save \/ Raise
  <2>1. UNCHANGED <<hist, best, scored, views>>
    BY <1>3 DEF Move, Capture, Save, Raise, policy
  <2>2. \/ UNCHANGED why /\ (why # "none" => at = "save" /\ at' = "saved")
        \/ at' = "save" /\ why' = "steps"
    BY <1>3 DEF Move, Capture, Save, Raise, Stop, NextStep, Reached, Refused, LoopInv, StopIsFinal
  <2> QED
    BY <2>1, <2>2 DEF LoopInv, LoopTypes, SlotsAreViews, BestIsScored, StopIsFinal, StableAfterAWindow
<1>4. CASE UNCHANGED vars
  BY <1>4 DEF vars, LoopInv, LoopTypes, SlotsAreViews, BestIsScored, StopIsFinal, StableAfterAWindow
<1> QED
  BY <1>1, <1>2, <1>3, <1>4 DEF Next, Loop

(* A grasp counts as stable only after a full window of views, and only if *)
(* the last fused surface gave it (nbv.best_grasp_prediction_is_stable).   *)
THEOREM WindowIsFull == Spec => []StableAfterAWindow
<1>1. LoopInv => StableAfterAWindow
  BY DEF LoopInv
<1> QED
  BY <1>1, LoopStarts, LoopKeeps, PTL DEF Spec

(***************************************************************************)
(* Keys: rows of numbers, compared from the first on.                      *)
(***************************************************************************)
(* Two keys of one length: they are equal, or one comes before the other.  *)
LEMMA LessIsTotal ==
    ASSUME NEW n \in Nat, NEW a \in [1..n -> Int], NEW b \in [1..n -> Int]
    PROVE  a = b \/ Less(a, b) \/ Less(b, a)
<1> DEFINE D == {j \in 1..n : a[j] # b[j]}
<1>1. CASE D = {}
  <2>1. \A j \in 1..n : a[j] = b[j]
    BY <1>1
  <2> QED
    BY <2>1
<1>2. CASE D # {}
  <2>1. D \subseteq Nat
    OBVIOUS
  <2>2. PICK j \in D : \A m \in D : j <= m
    BY <1>2, <2>1, LeastOfNats
  <2>3. ASSUME NEW m \in 1..j - 1 PROVE a[m] = b[m]
    <3>1. m \in 1..n /\ ~(j <= m)
      BY <2>2
    <3> QED
      BY <2>2, <3>1
  <2>4. j \in 1..n /\ a[j] \in Int /\ b[j] \in Int /\ a[j] # b[j]
    BY <2>2
  <2>5. a[j] < b[j] \/ b[j] < a[j]
    BY <2>4
  <2> HIDE DEF D
  <2> QED
    BY <2>3, <2>4, <2>5 DEF Less
<1> QED
  BY <1>1, <1>2

(* One that comes before the first of two comes before the second.         *)
LEMMA LessIsTransitive ==
    ASSUME NEW n \in Nat, NEW a \in [1..n -> Int], NEW b \in [1..n -> Int],
           NEW c \in [1..n -> Int], Less(a, b), Less(b, c)
    PROVE  Less(a, c)
<1>1. PICK i \in 1..n : a[i] < b[i] /\ \A m \in 1..i - 1 : a[m] = b[m]
  BY DEF Less
<1>2. PICK j \in 1..n : b[j] < c[j] /\ \A m \in 1..j - 1 : b[m] = c[m]
  BY DEF Less
<1>3. \A m \in 1..n : a[m] \in Int /\ b[m] \in Int /\ c[m] \in Int
  OBVIOUS
<1>4. CASE i < j
  <2>1. i \in 1..j - 1 /\ \A m \in 1..i - 1 : m \in 1..j - 1
    BY <1>4
  <2>2. a[i] < c[i] /\ \A m \in 1..i - 1 : a[m] = c[m]
    BY <1>1, <1>2, <2>1
  <2> QED
    BY <2>2 DEF Less
<1>5. CASE j <= i
  <2>1. j \in 1..i - 1 \/ j = i
    BY <1>5
  <2>2. a[j] <= b[j]
    BY <1>1, <1>3, <2>1
  <2>3. a[j] < c[j]
    BY <1>2, <1>3, <2>2
  <2>4. \A m \in 1..j - 1 : m \in 1..i - 1
    BY <1>5
  <2>5. \A m \in 1..j - 1 : a[m] = c[m]
    BY <1>1, <1>2, <2>4
  <2> QED
    BY <2>3, <2>5 DEF Less
<1> QED
  BY <1>4, <1>5

(***************************************************************************)
(* The poses of one place.                                                 *)
(***************************************************************************)
ViewTypes ==
    /\ spot \in [Ring -> Spot] /\ visible \in [Ring -> SUBSET Samples]
    /\ poses \subseteq Ring /\ ordered \in Seq(Ring) /\ here \in Nat /\ needed \in Int
    /\ phase \in {"idle", "order", "planned", "arrived", "refused"}

(* For good where the saved map says so, else unless marked since. *)
PosesAreClear ==
    \A p \in poses : ForGood(spot[p]) /\ (Clear(p) \/ p \in marked)

(* The order has each pose once. *)
OrderedAreSome ==
    /\ \A j \in 1..Len(ordered) : ordered[j] \in poses
    /\ \A j, m \in 1..Len(ordered) : ordered[j] = ordered[m] => j = m

SeenIsTheirs == seen = SeenBy(Len(ordered))

(* When a view was chosen, after the first, no other that was left added   *)
(* a higher step of coverage.                                              *)
Adds(p, n) == Cardinality(visible[p] \ SeenBy(n))
Later(p, j) == \A m \in 1..j : ordered[m] # p
MostFirst ==
    \A j \in 2..Len(ordered) : \A p \in poses :
        Later(p, j) => Adds(p, j - 1) \div GainStep <= StepOf(j)

(* The count holds as soon as it is made. *)
CountIsMade ==
    phase = "order" =>
        /\ needed = -1 \/ needed \in 0..Len(ordered) - 1
        /\ needed # -1 /\ Cardinality(visible[ordered[1]]) >= GainStep =>
               \A p \in poses : Adds(p, needed) < GainStep

(* The inductive invariant. *)
ViewsInv ==
    /\ ViewTypes /\ PosesAreClear /\ OrderedAreSome /\ SeenIsTheirs
    /\ MostFirst /\ CountIsMade /\ NeededIsEnough

(* What a pose adds is a number, and less the more is seen. *)
LEMMA AddsLess ==
    ASSUME ViewTypes, NEW p \in Ring, NEW S, NEW T, S \subseteq T
    PROVE  /\ Cardinality(visible[p] \ S) \in Nat /\ Cardinality(visible[p] \ T) \in Nat
           /\ Cardinality(visible[p] \ T) <= Cardinality(visible[p] \ S)
<1>1. IsFiniteSet(visible[p])
  BY FS_Subset, ViewsAssumption DEF ViewsAssumption, ViewTypes
<1>2. IsFiniteSet(visible[p] \ S) /\ visible[p] \ T \subseteq visible[p] \ S
  BY <1>1, FS_Subset
<1> QED
  BY <1>2, FS_Subset, FS_CardinalityType

(* A step of coverage is a number; one gain below another is in no higher  *)
(* one, and a gain below a step is in none.                                *)
LEMMA StepsOfGain ==
    ASSUME NEW a \in Nat, NEW b \in Nat
    PROVE  /\ a \div GainStep \in Nat
           /\ a <= b => a \div GainStep <= b \div GainStep
           /\ a < GainStep <=> a \div GainStep = 0
<1>1. GainStep \in Nat /\ GainStep > 0
  BY ViewsAssumption DEF ViewsAssumption
<1> QED
  BY <1>1, SMT

(* What the first n views show does not grow smaller with n.               *)
LEMMA SeenGrows ==
    ASSUME NEW m \in Nat, NEW n \in Nat, m <= n
    PROVE  SeenBy(m) \subseteq SeenBy(n)
<1>1. 1..m \subseteq 1..n
  OBVIOUS
<1> QED
  BY <1>1 DEF SeenBy

(* A key is a row of numbers, and no two poses have the same.              *)
KeyLength == IF ordered = <<>> THEN 3 ELSE 5

LEMMA KeysAreRows ==
    ASSUME ViewTypes, NEW p \in Ring
    PROVE  RankKey(p) \in [1..KeyLength -> Int] /\ RankKey(p)[KeyLength] = p
<1>1. p \in Nat /\ Ring \subseteq Nat
  BY ViewsAssumption DEF ViewsAssumption
<1>2. Apart(p, here) \in Int
  BY <1>1 DEF Apart, ViewTypes
<1>3. \A b \in BOOLEAN : Truth(b) \in Int
  BY DEF Truth
<1>4. CASE ordered = <<>>
  <2> DEFINE t == Truth(Gain(p) < BestFirst - GainStep)
             d == Apart(p, here)
  <2>1. t \in Int
    BY DEF Truth
  <2>2. RankKey(p) = <<t, d, p>>
    BY <1>4 DEF RankKey
  <2> HIDE DEF t, d
  <2>3. <<t, d, p>> \in [1..3 -> Int] /\ <<t, d, p>>[3] = p
    BY <1>1, <1>2, <2>1 DEF d
  <2> QED
    BY <1>4, <2>2, <2>3 DEF KeyLength
<1>5. CASE ordered # <<>>
  <2> DEFINE g == -(Gain(p) \div GainStep)
             t == Truth(visible[p] = {})
             s == -Separation(p)
             d == Apart(p, here)
  <2>1. g \in Int
    <3>1. Gain(p) \in Nat
      BY AddsLess DEF Gain
    <3> QED
      BY <3>1, StepsOfGain
  <2>2. t \in Int
    BY DEF Truth
  <2>3. s \in Int
    <3> DEFINE D == {Apart(p, ordered[j]) : j \in DOMAIN ordered}
    <3>1. D \subseteq Nat
      BY <1>1 DEF ViewTypes, Apart
    <3>2. D # {}
      <4>1. 1 \in DOMAIN ordered
        BY <1>5 DEF ViewTypes
      <4>2. Apart(p, ordered[1]) \in D
        BY <4>1
      <4> QED
        BY <4>2
    <3>3. PICK m \in D : \A n \in D : m <= n
      BY <3>1, <3>2, LeastOfNats
    <3> HIDE DEF D
    <3>4. Min(D) \in D
      BY <3>3 DEF Min
    <3>5. Separation(p) = 0 \/ Separation(p) = Min(D)
      BY DEF Separation, D
    <3>6. Min(D) \in Nat
      BY <3>1, <3>4
    <3>7. Separation(p) \in Int
      BY <3>5, <3>6
    <3> QED
      BY <3>7
  <2>4. RankKey(p) = <<g, t, s, d, p>>
    BY <1>5 DEF RankKey
  <2> HIDE DEF g, t, s, d
  <2>5. <<g, t, s, d, p>> \in [1..5 -> Int] /\ <<g, t, s, d, p>>[5] = p
    BY <1>1, <1>2, <2>1, <2>2, <2>3 DEF d
  <2> QED
    BY <1>5, <2>4, <2>5 DEF KeyLength
<1> QED
  BY <1>4, <1>5

(* min() returns one of what remains, with the first key of all.           *)
LEMMA BestIsFirst ==
    ASSUME ViewTypes, Remaining # {}
    PROVE  /\ NextBest \in Remaining
           /\ \A q \in Remaining \ {NextBest} : Less(RankKey(NextBest), RankKey(q))
<1> DEFINE R == {x \in Remaining \X Remaining :
                    x[1] = x[2] \/ Less(RankKey(x[1]), RankKey(x[2]))}
<1>1. Remaining \subseteq Ring /\ IsFiniteSet(Remaining)
  BY FS_Subset, ViewsAssumption DEF ViewsAssumption, ViewTypes, Remaining
<1>2. KeyLength \in Nat
  BY DEF KeyLength
<1>3. \A a \in Remaining : RankKey(a) \in [1..KeyLength -> Int] /\ RankKey(a)[KeyLength] = a
  BY <1>1, KeysAreRows
<1>4. ASSUME NEW a \in Remaining, NEW b \in Remaining
      PROVE  <<a, b>> \in R \/ <<b, a>> \in R
  <2>1. RankKey(a) = RankKey(b) \/ Less(RankKey(a), RankKey(b)) \/ Less(RankKey(b), RankKey(a))
    BY <1>2, <1>3, LessIsTotal
  <2>2. RankKey(a) = RankKey(b) => a = b
    BY <1>3
  <2> QED
    BY <2>1, <2>2
<1>5. ASSUME NEW a \in Remaining, NEW b \in Remaining, NEW c \in Remaining,
             <<a, b>> \in R, <<b, c>> \in R
      PROVE  <<a, c>> \in R
  <2>1. CASE a = b \/ b = c
    BY <1>5, <2>1
  <2>2. CASE a # b /\ b # c
    <3>1. Less(RankKey(a), RankKey(b)) /\ Less(RankKey(b), RankKey(c))
      BY <1>5, <2>2
    <3>2. Less(RankKey(a), RankKey(c))
      BY <1>2, <1>3, <3>1, LessIsTransitive
    <3> QED
      BY <3>2
  <2> QED
    BY <2>1, <2>2
<1> HIDE DEF R
<1>6. PICK m \in Remaining : \A n \in Remaining : <<m, n>> \in R
  BY <1>1, <1>4, <1>5, FiniteHasFirst
<1>7. \A q \in Remaining \ {m} : Less(RankKey(m), RankKey(q))
  BY <1>6 DEF R
<1> QED
  BY <1>7 DEF NextBest

(* After the first view, none that remains adds a higher step.             *)
LEMMA BestAddsMost ==
    ASSUME ViewTypes, ordered # <<>>, NEW q \in Remaining
    PROVE  /\ Gain(q) \in Nat /\ Gain(NextBest) \in Nat
           /\ Gain(q) \div GainStep <= Gain(NextBest) \div GainStep
<1>1. NextBest \in Remaining /\ Remaining \subseteq Ring
  BY BestIsFirst DEF Remaining, ViewTypes
<1>2. \A p \in Remaining : Gain(p) \in Nat
  BY <1>1, AddsLess DEF Gain
<1>3. CASE q = NextBest
  BY <1>1, <1>2, <1>3, StepsOfGain
<1>4. CASE q # NextBest
  <2> DEFINE a == RankKey(NextBest)
             b == RankKey(q)
  <2>1. Less(a, b)
    BY <1>4, BestIsFirst
  <2>2. DOMAIN a = 1..5 /\ DOMAIN b = 1..5
    BY <1>1, KeysAreRows DEF KeyLength
  <2>3. a[1] = -(Gain(NextBest) \div GainStep) /\ b[1] = -(Gain(q) \div GainStep)
    BY DEF RankKey
  <2> HIDE DEF a, b
  <2>4. a[1] <= b[1]
    <3>1. PICK j \in 1..5 : a[j] < b[j] /\ \A m \in 1..j - 1 : a[m] = b[m]
      BY <2>1, <2>2 DEF Less
    <3>2. j = 1 \/ 1 \in 1..j - 1
      OBVIOUS
    <3>3. a[1] < b[1] \/ a[1] = b[1]
      BY <3>1, <3>2
    <3> QED
      BY <1>1, <1>2, <2>3, <3>3, StepsOfGain
  <2>5. Gain(q) \div GainStep \in Nat /\ Gain(NextBest) \div GainStep \in Nat
    BY <1>1, <1>2, StepsOfGain
  <2> QED
    BY <1>1, <1>2, <2>3, <2>4, <2>5
<1> QED
  BY <1>3, <1>4

(* Nothing is cached, nothing ordered. *)
LEMMA ViewsStart == ViewsInit => ViewsInv
<1> SUFFICES ASSUME ViewsInit PROVE ViewsInv
  OBVIOUS
<1>1. ViewTypes
  BY ViewsAssumption DEF ViewsAssumption, ViewsInit, ViewTypes, Seen
<1>2. SeenIsTheirs
  BY DEF ViewsInit, SeenIsTheirs, SeenBy
<1> QED
  BY <1>1, <1>2 DEF ViewsInit, ViewsInv, PosesAreClear, OrderedAreSome, MostFirst, CountIsMade,
     NeededIsEnough

(* A clear pose has no wall of the saved map across its line: that is      *)
(* lethal in any costmap.                                                  *)
LEMMA ClearIsClear ==
    ASSUME spot \in [Ring -> Spot], NEW p \in Ring, Clear(p)
    PROVE  ForGood(spot[p])
<1>1. /\ spot[p] \in Spot /\ ~spot[p].furniture
      /\ Rebinned(spot[p].floor.saved, spot[p].floor.cost, Inscribed) = "free"
      /\ \A i \in Points :
            Rebinned(spot[p].line[i].saved, spot[p].line[i].cost, Lethal) # "blocked"
  BY DEF Clear, Free, Unobstructed
<1>2. spot[p].floor \in Cell /\ \A i \in Points : spot[p].line[i] \in Cell
  BY <1>1 DEF Spot
<1>3. spot[p].floor.saved = 0
  BY <1>1, <1>2 DEF Cell, Cost, Rebinned, CostOnly, Unknown, Lethal, Inscribed
<1>4. ASSUME NEW i \in Points PROVE spot[p].line[i].saved # Lethal
  BY <1>1, <1>2 DEF Cell, Cost, Rebinned, CostOnly, Unknown, Lethal, Inscribed
<1> QED
  BY <1>1, <1>3, <1>4 DEF ForGood

(* A plan starts an order over the poses that were cached, or are now.     *)
LEMMA PlanKeeps == ViewsInv /\ Plan => ViewsInv'
<1> SUFFICES ASSUME ViewsInv, Plan PROVE ViewsInv'
  OBVIOUS
<1>1. ViewTypes'
  <2>1. here' \in Nat /\ poses' \subseteq Ring
    BY ViewsAssumption DEF ViewsAssumption, ViewsInv, ViewTypes, Plan
  <2>2. ordered' \in Seq(Ring) /\ needed' = -1 /\ phase' = "order"
    BY DEF Plan
  <2> QED
    BY <2>1, <2>2 DEF ViewsInv, ViewTypes, Plan
<1>2. PosesAreClear'
  <2>1. spot' = spot /\ spot \in [Ring -> Spot] /\ (\A p : Clear(p)' = Clear(p))
    BY DEF ViewsInv, ViewTypes, Plan, Clear, Free, Unobstructed
  <2>2. CASE known
    <3>1. poses' = poses /\ marked' = marked
      BY <2>2 DEF Plan
    <3> QED
      BY <2>1, <3>1 DEF ViewsInv, PosesAreClear
  <2>3. CASE ~known
    <3>1. poses' = { p \in Ring : Clear(p) }
      BY <2>3 DEF Plan
    <3>2. \A p \in poses' : ForGood(spot[p]) /\ Clear(p)
      BY <2>1, <3>1, ClearIsClear
    <3> QED
      BY <2>1, <3>2 DEF PosesAreClear
  <2> QED
    BY <2>2, <2>3
<1>3. Len(ordered') = 0 /\ needed' = -1 /\ phase' = "order" /\ seen' = {}
  BY DEF Plan
<1>4. SeenIsTheirs'
  BY <1>3 DEF SeenIsTheirs, SeenBy
<1> QED
  BY <1>1, <1>2, <1>3, <1>4 DEF ViewsInv, OrderedAreSome, MostFirst, CountIsMade, NeededIsEnough

(* What an order has of the chosen view. *)
LEMMA Appended ==
    ASSUME ViewTypes, Choose
    PROVE  /\ NextBest \in Remaining /\ NextBest \in Ring /\ Len(ordered) \in Nat
           /\ ordered' \in Seq(Ring) /\ Len(ordered') = Len(ordered) + 1
           /\ \A j \in 1..Len(ordered) : ordered'[j] = ordered[j]
           /\ ordered'[Len(ordered) + 1] = NextBest
<1>1. NextBest \in Remaining /\ NextBest \in Ring
  BY BestIsFirst DEF Choose, Remaining, ViewTypes
<1>2. ordered \in Seq(Ring) /\ ordered' = Append(ordered, NextBest)
  BY DEF Choose, ViewTypes
<1> QED
  BY <1>1, <1>2

(* What the earlier views show does not change by it.                      *)
LEMMA EarlierShowTheSame ==
    ASSUME ViewTypes, Choose, NEW n \in 0..Len(ordered)
    PROVE  SeenBy(n)' = SeenBy(n)
<1>1. visible' = visible
  BY DEF Choose, place
<1>2. \A j \in 1..n : ordered'[j] = ordered[j]
  BY Appended
<1> QED
  BY <1>1, <1>2 DEF SeenBy

(* Choosing the next view of the order. *)
LEMMA ChooseKeeps == ViewsInv /\ Choose => ViewsInv'
<1> SUFFICES ASSUME ViewsInv, Choose PROVE ViewsInv'
  OBVIOUS
<1> DEFINE L == Len(ordered)
<1>1. /\ ViewTypes /\ NextBest \in Remaining /\ NextBest \in Ring /\ L \in Nat
      /\ ordered' \in Seq(Ring) /\ Len(ordered') = L + 1
      /\ \A j \in 1..L : ordered'[j] = ordered[j]
      /\ ordered'[L + 1] = NextBest
  BY Appended DEF ViewsInv
<1>2. /\ visible' = visible /\ poses' = poses /\ spot' = spot
      /\ phase = "order" /\ phase' = "order" /\ here' = NextBest
      /\ seen' = seen \cup visible[NextBest]
      /\ needed' = IF needed = -1 /\ Gain(NextBest) < GainStep THEN L ELSE needed
  BY DEF Choose, place
<1>3. \A n \in 0..L : SeenBy(n)' = SeenBy(n)
  BY <1>1, EarlierShowTheSame
<1>4. seen = SeenBy(L)
  BY DEF ViewsInv, SeenIsTheirs
<1>5. NextBest \in poses /\ \A j \in 1..L : ordered[j] # NextBest
  BY <1>1 DEF Remaining, ViewTypes
<1> HIDE DEF L
<1>6. ViewTypes'
  BY <1>1, <1>2, ViewsAssumption DEF ViewsAssumption, ViewTypes
<1>7. PosesAreClear'
  <2>1. marked' = marked
    BY DEF Choose, place
  <2> QED
    BY <1>2, <2>1 DEF ViewsInv, PosesAreClear, Clear, Free, Unobstructed
<1>8. OrderedAreSome'
  BY <1>1, <1>2, <1>5 DEF ViewsInv, OrderedAreSome, L
<1>9. SeenIsTheirs'
  <2> DEFINE Shown == UNION {visible[ordered'[j]] : j \in 1..L + 1}
  <2>1. 1..L + 1 = (1..L) \cup {L + 1}
    BY <1>1
  <2>2. Shown \subseteq SeenBy(L) \cup visible[NextBest]
    BY <1>1, <2>1 DEF SeenBy
  <2>3. SeenBy(L) \subseteq Shown
    BY <1>1, <2>1 DEF SeenBy
  <2>4. visible[NextBest] \subseteq Shown
    BY <1>1, <2>1
  <2>5. Shown = seen'
    BY <1>2, <1>4, <2>2, <2>3, <2>4
  <2> QED
    BY <1>1, <1>2, <2>5 DEF SeenIsTheirs, SeenBy
<1>10. MostFirst'
  <2> SUFFICES ASSUME NEW j \in 2..L + 1, NEW p \in poses, Later(p, j)'
               PROVE  (Adds(p, j - 1) \div GainStep <= StepOf(j))'
    BY <1>1, <1>2 DEF MostFirst
  <2>1. j - 1 \in 0..L /\ SeenBy(j - 1)' = SeenBy(j - 1)
    BY <1>1, <1>3
  <2>2. CASE j \in 2..L
    <3>1. Later(p, j)
      BY <1>1, <2>2 DEF Later
    <3>2. Adds(p, j - 1) \div GainStep <= StepOf(j)
      BY <2>2, <3>1 DEF ViewsInv, MostFirst, L
    <3>3. ordered'[j] = ordered[j]
      BY <1>1, <2>2
    <3> QED
      BY <1>2, <2>1, <3>2, <3>3 DEF Adds, StepOf
  <2>3. CASE j = L + 1
    <3>1. p \in Remaining
      BY <1>1, <2>3 DEF Later, Remaining, ViewTypes, L
    <3>2. ordered # <<>>
      BY <1>1, <2>3 DEF L
    <3>3. Gain(p) \div GainStep <= Gain(NextBest) \div GainStep
      BY <1>1, <3>1, <3>2, BestAddsMost
    <3>4. j - 1 = L /\ Adds(p, j - 1)' = Gain(p)
      BY <1>1, <1>2, <1>4, <2>1, <2>3 DEF Adds, Gain
    <3>5. StepOf(j)' = Gain(NextBest) \div GainStep
      BY <1>1, <1>2, <1>4, <2>1, <2>3, <3>4 DEF StepOf, Gain
    <3> QED
      BY <3>3, <3>4, <3>5
  <2> QED
    BY <1>1, <2>2, <2>3
<1>11. CountIsMade'
  <2>1. needed = -1 \/ needed \in 0..L - 1
    BY <1>2 DEF ViewsInv, CountIsMade, L
  <2>2. needed' = -1 \/ needed' \in 0..L
    BY <1>1, <1>2, <2>1
  <2>3. ASSUME needed' # -1, Cardinality(visible'[ordered'[1]]) >= GainStep, NEW p \in poses
        PROVE  Adds(p, needed)' < GainStep
    <3>1. needed' \in 0..L /\ Adds(p, needed)' = Adds(p, needed')
      BY <1>2, <1>3, <2>2, <2>3 DEF Adds
    <3>2. CASE needed # -1
      <4>1. ordered'[1] = ordered[1] /\ needed' = needed
        BY <1>1, <1>2, <2>1, <3>2
      <4> QED
        BY <1>2, <2>3, <3>1, <3>2, <4>1 DEF ViewsInv, CountIsMade
    <3>3. CASE needed = -1
      <4>1. needed' = L /\ Gain(NextBest) < GainStep
        BY <1>2, <2>3, <3>3
      <4>2. L # 0
        <5> SUFFICES ASSUME L = 0 PROVE FALSE
          OBVIOUS
        <5>1. ordered'[1] = NextBest
          BY <1>1
        <5>2. seen = {}
          BY <1>4 DEF SeenBy
        <5>3. Gain(NextBest) = Cardinality(visible'[ordered'[1]])
          BY <1>2, <5>1, <5>2 DEF Gain
        <5>4. Gain(NextBest) \in Nat /\ GainStep \in Nat
          BY <1>1, AddsLess, ViewsAssumption DEF ViewsAssumption, Gain
        <5> QED
          BY <2>3, <4>1, <5>3, <5>4
      <4>3. ordered # <<>>
        BY <1>1, <4>2 DEF L
      <4>4. p \in Ring /\ Adds(p, L) = Gain(p) /\ Gain(p) \in Nat /\ GainStep \in Nat \ {0}
        BY <1>1, <1>4, AddsLess, ViewsAssumption DEF ViewsAssumption, Adds, Gain, ViewTypes
      <4>5. CASE p \in Remaining
        <5>1. Gain(p) \div GainStep <= Gain(NextBest) \div GainStep /\ Gain(NextBest) \in Nat
          BY <1>1, <4>3, <4>5, BestAddsMost
        <5>2. Gain(NextBest) \div GainStep = 0 /\ Gain(p) \div GainStep \in Nat
          BY <4>1, <4>4, <5>1, StepsOfGain
        <5>3. Gain(p) \div GainStep = 0
          BY <5>1, <5>2
        <5> QED
          BY <3>1, <4>1, <4>4, <5>3, StepsOfGain
      <4>6. CASE p \notin Remaining
        <5>1. PICK j \in 1..L : ordered[j] = p
          BY <1>1, <4>6 DEF Remaining, ViewTypes, L
        <5>2. visible[p] \subseteq SeenBy(L)
          BY <5>1 DEF SeenBy
        <5>3. visible[p] \ SeenBy(L) = {}
          BY <5>2
        <5>4. Adds(p, L) = 0
          BY <5>3, FS_EmptySet DEF Adds
        <5> QED
          BY <3>1, <4>1, <4>4, <5>4
      <4> QED
        BY <4>5, <4>6
    <3> QED
      BY <3>2, <3>3
  <2> QED
    BY <1>1, <1>2, <2>2, <2>3 DEF CountIsMade
<1>12. NeededIsEnough'
  BY <1>2 DEF NeededIsEnough
<1> QED
  BY <1>6, <1>7, <1>8, <1>9, <1>10, <1>11, <1>12 DEF ViewsInv

(* Between its bounds the count is what was counted, or more.              *)
LEMMA ClampedCounts ==
    ASSUME NEW n \in Nat, Clamped(n) < MaxViews
    PROVE  Clamped(n) \in Nat /\ n <= Clamped(n)
<1>1. MinViews \in Nat /\ MaxViews \in Nat
  BY ViewsAssumption DEF ViewsAssumption
<1> DEFINE most == Max({MinViews, n})
<1>2. most \in {MinViews, n} /\ n <= most
  <2>1. \E x \in {MinViews, n} : \A y \in {MinViews, n} : x >= y
    BY <1>1
  <2> QED
    BY <2>1 DEF Max
<1> HIDE DEF most
<1>3. most \in Nat
  BY <1>1, <1>2
<1>4. Min({MaxViews, most}) \in {MaxViews, most}
  <2>1. \E x \in {MaxViews, most} : \A y \in {MaxViews, most} : x <= y
    BY <1>1, <1>3
  <2> QED
    BY <2>1 DEF Min
<1>5. Clamped(n) = most
  BY <1>1, <1>4 DEF Clamped, most
<1> QED
  BY <1>2, <1>3, <1>5

(* What nothing of the order's changes.                                    *)
LEMMA OrderStays ==
    ASSUME UNCHANGED <<visible, poses, ordered, seen>>
    PROVE  SeenIsTheirs' = SeenIsTheirs /\ MostFirst' = MostFirst
BY DEF SeenIsTheirs, MostFirst, SeenBy, Adds, Later, StepOf

(* Once the order is complete its count says enough.                       *)
LEMMA PlannedKeeps == ViewsInv /\ Planned => ViewsInv'
<1> SUFFICES ASSUME ViewsInv, Planned PROVE ViewsInv'
  OBVIOUS
<1> DEFINE L == Len(ordered)
           n == IF needed = -1 THEN L ELSE needed
<1>1. /\ UNCHANGED <<spot, visible, poses, marked, ordered, seen>>
      /\ phase = "order" /\ phase' = "planned" /\ here' = 0 /\ needed' = Clamped(n)
  BY DEF Planned, place
<1>2. L \in Nat
  BY DEF ViewsInv, ViewTypes
<1>3. needed = -1 \/ needed \in 0..L - 1
  BY <1>1 DEF ViewsInv, CountIsMade
<1> HIDE DEF L
<1>4. n \in Nat
  BY <1>2, <1>3
<1> HIDE DEF n
<1>5. ASSUME ordered # <<>>, Cardinality(visible[ordered[1]]) >= GainStep,
             needed' < MaxViews, needed' < L, NEW p \in poses
      PROVE  Cardinality(visible[p] \ SeenBy(needed')) < GainStep
  <2>1. needed' \in Nat /\ n <= needed'
    BY <1>1, <1>4, <1>5, ClampedCounts
  <2>2. needed # -1 /\ n = needed
    BY <1>2, <1>5, <2>1 DEF n
  <2>3. Adds(p, n) < GainStep
    BY <1>1, <1>5, <2>2 DEF ViewsInv, CountIsMade
  <2>4. SeenBy(n) \subseteq SeenBy(needed')
    BY <1>4, <2>1, SeenGrows
  <2>5. /\ Cardinality(visible[p] \ SeenBy(n)) \in Nat
        /\ Cardinality(visible[p] \ SeenBy(needed')) \in Nat
        /\ Cardinality(visible[p] \ SeenBy(needed')) <= Cardinality(visible[p] \ SeenBy(n))
    BY <2>4, AddsLess DEF ViewsInv, ViewTypes
  <2> QED
    BY <2>3, <2>5, ViewsAssumption DEF Adds, ViewsAssumption
<1>6. NeededIsEnough'
  BY <1>1, <1>5 DEF NeededIsEnough, Enough, SeenBy, L
<1>7. needed' \in Int
  <2>1. MinViews \in Nat /\ MaxViews \in Nat
    BY ViewsAssumption DEF ViewsAssumption
  <2>2. Max({MinViews, n}) \in {MinViews, n}
    <3>1. \E x \in {MinViews, n} : \A y \in {MinViews, n} : x >= y
      BY <1>4, <2>1
    <3> QED
      BY <3>1 DEF Max
  <2>3. Max({MinViews, n}) \in Nat
    BY <1>4, <2>1, <2>2
  <2>4. Clamped(n) \in {MaxViews, Max({MinViews, n})}
    <3> DEFINE S == {MaxViews, Max({MinViews, n})}
    <3>1. \E x \in S : \A y \in S : x <= y
      BY <2>1, <2>3
    <3> QED
      BY <3>1 DEF Clamped, Min
  <2> QED
    BY <1>1, <2>1, <2>3, <2>4
<1>8. ViewTypes'
  BY <1>1, <1>7 DEF ViewsInv, ViewTypes
<1>9. SeenIsTheirs' /\ MostFirst'
  BY <1>1, OrderStays DEF ViewsInv
<1> QED
  BY <1>1, <1>6, <1>8, <1>9 DEF ViewsInv, PosesAreClear, Clear, Free, Unobstructed,
     OrderedAreSome, CountIsMade

(* The drive to a pose changes no pose. *)
LEMMA DriveKeeps ==
    ASSUME ViewsInv, PoseFails \/ Arrive \/ NoneReached \/ UNCHANGED viewing
    PROVE  ViewsInv'
<1>1. /\ UNCHANGED <<spot, visible, poses, marked, ordered, seen, needed, here>>
      /\ phase' = phase \/ (phase = "planned" /\ phase' \in {"arrived", "refused"})
  BY DEF PoseFails, Arrive, NoneReached, viewing, place, order
<1>2. ViewTypes' /\ PosesAreClear' /\ OrderedAreSome'
  BY <1>1 DEF ViewsInv, ViewTypes, PosesAreClear, Clear, Free, Unobstructed, OrderedAreSome
<1>3. SeenIsTheirs' /\ MostFirst'
  BY <1>1, OrderStays DEF ViewsInv
<1>4. CountIsMade' /\ NeededIsEnough'
  BY <1>1 DEF ViewsInv, CountIsMade, NeededIsEnough, Enough, SeenBy, Adds
<1> QED
  BY <1>2, <1>3, <1>4 DEF ViewsInv

(* Marks in the costmap move no furniture, and change no wall of the map.  *)
LEMMA MarksKeep == ViewsInv /\ MarksChange => ViewsInv'
<1> SUFFICES ASSUME ViewsInv, MarksChange PROVE ViewsInv'
  OBVIOUS
<1>1. PICK p \in Ring : \E new \in SpotKinds : Mark(p, new)
  BY DEF MarksChange
<1>2. PICK new \in SpotKinds : Mark(p, new)
  BY <1>1
<1>3. /\ UNCHANGED <<visible, poses, ordered, seen, needed, here, phase>>
      /\ phase # "order"
  BY DEF MarksChange, order
<1>4. spot \in [Ring -> Spot] /\ spot' = [spot EXCEPT ![p] = new] /\ new \in Spot
  BY <1>2, ViewsAssumption DEF ViewsInv, ViewTypes, Mark, ViewsAssumption
<1>5. /\ spot' \in [Ring -> Spot] /\ marked' = marked \cup {p}
      /\ spot'[p] = new /\ \A q \in Ring \ {p} : spot'[q] = spot[q]
  BY <1>2, <1>4 DEF Mark
<1>6. ForGood(spot[p]) => ForGood(new)
  BY <1>2 DEF Mark, ForGood
<1>7. PosesAreClear'
  <2> SUFFICES ASSUME NEW q \in poses
               PROVE  ForGood(spot'[q]) /\ (Clear(q)' \/ q \in marked')
    BY <1>3 DEF PosesAreClear
  <2>1. q \in Ring /\ ForGood(spot[q]) /\ (Clear(q) \/ q \in marked)
    BY DEF ViewsInv, ViewTypes, PosesAreClear
  <2>2. CASE q = p
    BY <1>5, <1>6, <2>1, <2>2
  <2>3. CASE q # p
    <3>1. spot'[q] = spot[q]
      BY <1>5, <2>1, <2>3
    <3>2. Clear(q)' = Clear(q)
      BY <3>1 DEF Clear, Free, Unobstructed
    <3> QED
      BY <1>5, <2>1, <3>1, <3>2
  <2> QED
    BY <2>2, <2>3
<1>8. ViewTypes' /\ OrderedAreSome'
  BY <1>3, <1>5 DEF ViewsInv, ViewTypes, OrderedAreSome
<1>9. SeenIsTheirs' /\ MostFirst'
  BY <1>3, OrderStays DEF ViewsInv
<1>10. CountIsMade' /\ NeededIsEnough'
  BY <1>3 DEF ViewsInv, CountIsMade, NeededIsEnough, Enough, SeenBy, Adds
<1> QED
  BY <1>7, <1>8, <1>9, <1>10 DEF ViewsInv

(* Every plan of a mission, every drive and every change of the costmap    *)
(* keeps ViewsInv.                                                         *)
LEMMA ViewsKeepInv == ViewsSpec => []ViewsInv
<1>1. ViewsInv /\ [ViewsNext]_viewing => ViewsInv'
  BY PlanKeeps, ChooseKeeps, PlannedKeeps, DriveKeeps, MarksKeep DEF ViewsNext
<1> QED
  BY <1>1, ViewsStart, PTL DEF ViewsSpec

(* Whatever marks come and go in the costmap, no pose is offered on floor  *)
(* the saved map never saw, in furniture or behind one of its walls, and   *)
(* none that is blocked, unless by a mark set since the poses were cached  *)
(* (standoff.free, unobstructed; actions.plan).                            *)
THEOREM PosesAreOnSeenFloor == ViewsSpec => []StandsOnSeenFloor
<1>1. ViewsInv => StandsOnSeenFloor
  BY DEF ViewsInv, ViewTypes, PosesAreClear, OrderedAreSome, StandsOnSeenFloor
<1> QED
  BY <1>1, ViewsKeepInv, PTL

(* Past the count that standoff.order returns no pose adds a step of       *)
(* coverage, unless MAX_VIEWS caps it or the first view adds none.         *)
THEOREM CountIsEnough == ViewsSpec => []NeededIsEnough
<1>1. ViewsInv => NeededIsEnough
  BY DEF ViewsInv
<1> QED
  BY <1>1, ViewsKeepInv, PTL

(* After the first view the steps of new coverage never rise along the     *)
(* order: a pose not chosen yet can only have lost by what was seen since. *)
THEOREM BestComesFirst == ViewsSpec => []NoneBetterLater
<1>1. ViewsInv => NoneBetterLater
  <2> SUFFICES ASSUME ViewsInv, NEW j \in 2..Len(ordered), NEW m \in j..Len(ordered)
               PROVE  StepOf(m) <= StepOf(j)
    BY DEF NoneBetterLater
  <2>1. /\ ViewTypes /\ Len(ordered) \in Nat /\ m \in 1..Len(ordered)
        /\ j - 1 \in Nat /\ m - 1 \in Nat /\ j - 1 <= m - 1
    BY DEF ViewsInv, ViewTypes
  <2> DEFINE p == ordered[m]
  <2>2. p \in poses /\ p \in Ring
    BY <2>1 DEF ViewsInv, ViewTypes, OrderedAreSome
  <2>3. /\ Adds(p, j - 1) \in Nat /\ Adds(p, m - 1) \in Nat
        /\ Adds(p, m - 1) <= Adds(p, j - 1)
    BY <2>1, <2>2, SeenGrows, AddsLess DEF Adds
  <2>4. StepOf(m) <= Adds(p, j - 1) \div GainStep
    BY <2>3, StepsOfGain DEF StepOf, Adds
  <2>5. CASE m = j
    BY <2>3, <2>5, StepsOfGain DEF StepOf, Adds
  <2>6. CASE m # j
    <3>1. Later(p, j)
      BY <2>1, <2>6 DEF Later, ViewsInv, OrderedAreSome
    <3>2. Adds(p, j - 1) \div GainStep <= StepOf(j)
      BY <2>2, <3>1 DEF ViewsInv, MostFirst
    <3>3. Adds(p, j - 1) \div GainStep \in Nat /\ StepOf(m) \in Nat /\ StepOf(j) \in Nat
      <4>1. ordered[j] \in Ring
        BY <2>1 DEF ViewTypes
      <4>2. Cardinality(visible[ordered[j]] \ SeenBy(j - 1)) \in Nat
        BY <2>1, <4>1, AddsLess
      <4> QED
        BY <2>3, <4>2, StepsOfGain DEF StepOf, Adds
    <3> QED
      BY <2>4, <3>2, <3>3
  <2> QED
    BY <2>5, <2>6
<1> QED
  BY <1>1, ViewsKeepInv, PTL
=============================================================================
