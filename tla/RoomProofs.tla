----------------------------- MODULE RoomProofs -----------------------------
(***************************************************************************)
(* Proofs about SceneGraph and Rooms, for any maps, furniture, boxes and   *)
(* names, any spacings and any number of calls: where objects are and in   *)
(* which room, that the rooms a map is divided into are those that are     *)
(* named and asked for, and that a larger spacing only joins them.         *)
(***************************************************************************)
EXTENDS SceneGraph, FiniteSetTheorems, SequenceTheorems, WellFoundedInduction, TLAPS

(***************************************************************************)
(* Least members.                                                          *)
(***************************************************************************)
(* A set of naturals has a least member.                                   *)
LEMMA LeastOfNats ==
    ASSUME NEW S, S \subseteq Nat, S # {}
    PROVE  \E m \in S : \A n \in S : m <= n
<1> DEFINE R == {p \in Nat \X Nat : p[1] < p[2]}
<1>1. IsWellFoundedOn(R, Nat)
  BY NatLessThanWellFounded DEF OpToRel
<1> HIDE DEF R
<1>2. PICK m \in S : \A n \in S : ~(<<n, m>> \in R)
  BY <1>1, WFMin
<1>3. \A n \in S : ~(n < m)
  BY <1>2 DEF R
<1> QED
  BY <1>3, SMT

(* A finite set has a first member in a total order, or TLC's min() would  *)
(* have nothing to return: if some subset had none, one of the smallest    *)
(* such would, without one of its members, have one.                       *)
LEMMA FiniteHasFirst ==
    ASSUME NEW S, IsFiniteSet(S), S # {}, NEW R,
           \A a, b \in S : <<a, b>> \in R \/ <<b, a>> \in R,
           \A a, b, c \in S : <<a, b>> \in R /\ <<b, c>> \in R => <<a, c>> \in R
    PROVE  \E m \in S : \A n \in S : <<m, n>> \in R
<1> DEFINE HasFirst(T) == \E m \in T : \A n \in T : <<m, n>> \in R
           Bad == {T \in SUBSET S : T # {} /\ ~HasFirst(T)}
<1>1. \A T \in SUBSET S : IsFiniteSet(T) /\ Cardinality(T) \in Nat
  BY FS_Subset, FS_CardinalityType
<1>2. ASSUME NEW T \in Bad PROVE \E U \in Bad : Cardinality(U) < Cardinality(T)
  <2>1. PICK t \in T : TRUE
    BY <1>2
  <2> DEFINE U == T \ {t}
  <2>2. U # {}
    BY <1>2, <2>1
  <2>3. ~HasFirst(U)
    <3> SUFFICES ASSUME HasFirst(U) PROVE HasFirst(T)
      BY <1>2
    <3>1. PICK m \in U : \A n \in U : <<m, n>> \in R
      OBVIOUS
    <3>2. <<t, t>> \in R /\ <<m, m>> \in R
      OBVIOUS
    <3>3. CASE <<t, m>> \in R
      <4>1. \A n \in T : <<t, n>> \in R
        BY <3>1, <3>2, <3>3
      <4> QED
        BY <4>1
    <3>4. CASE <<m, t>> \in R
      <4>1. \A n \in T : <<m, n>> \in R
        BY <3>1, <3>4
      <4> QED
        BY <4>1
    <3> QED
      BY <3>3, <3>4
  <2>4. Cardinality(U) < Cardinality(T)
    <3>1. Cardinality(U) = Cardinality(T) - 1
      BY <1>1, <1>2, <2>1, FS_RemoveElement
    <3> QED
      BY <1>1, <1>2, <3>1
  <2> QED
    BY <1>2, <2>2, <2>3, <2>4
<1> DEFINE Sizes == {Cardinality(T) : T \in Bad}
<1>3. Sizes \subseteq Nat
  BY <1>1
<1>4. CASE Sizes # {}
  <2>1. PICK m \in Sizes : \A n \in Sizes : m <= n
    BY <1>3, <1>4, LeastOfNats
  <2>2. PICK T \in Bad : Cardinality(T) = m
    OBVIOUS
  <2>3. PICK U \in Bad : Cardinality(U) < m
    BY <1>2, <2>2
  <2>4. Cardinality(U) \in Sizes
    OBVIOUS
  <2> HIDE DEF Sizes, Bad
  <2>5. m \in Nat /\ Cardinality(U) \in Nat /\ m <= Cardinality(U)
    BY <1>3, <2>1, <2>4
  <2> QED
    BY <2>3, <2>5
<1>5. CASE Sizes = {}
  BY <1>5
<1> QED
  BY <1>4, <1>5

(***************************************************************************)
(* The places and the rooms of objects.                                    *)
(***************************************************************************)
(* A key over a set of pieces has a least value, and a set of numbers the  *)
(* minimum that Min takes.                                                 *)
LEMMA LeastPiece ==
    ASSUME NEW S, S \subseteq Pieces, S # {}, NEW key, \A f \in S : key[f] \in Int
    PROVE  \E m \in S : \A n \in S : key[m] <= key[n]
<1> DEFINE R == {x \in S \X S : key[x[1]] <= key[x[2]]}
<1>1. IsFiniteSet(S)
  BY FS_Subset, SceneGraphAssumption DEF SceneGraphAssumption
<1>2. \A a, b \in S : <<a, b>> \in R \/ <<b, a>> \in R
  OBVIOUS
<1>3. \A a, b, c \in S : <<a, b>> \in R /\ <<b, c>> \in R => <<a, c>> \in R
  OBVIOUS
<1>4. \A a, b \in S : <<a, b>> \in R => key[a] <= key[b]
  OBVIOUS
<1> HIDE DEF R
<1>5. PICK m \in S : \A n \in S : <<m, n>> \in R
  BY <1>1, <1>2, <1>3, FiniteHasFirst
<1> QED
  BY <1>4, <1>5

LEMMA MinIsOne ==
    ASSUME NEW S, S \subseteq Nat, S # {}
    PROVE  Min(S) \in S /\ \A n \in S : Min(S) <= n
<1>1. \E m \in S : \A n \in S : m <= n
  BY LeastOfNats
<1> QED
  BY <1>1 DEF Min

(* Of some pieces there is a lowest number among the best.                 *)
LEMMA BestPiece ==
    ASSUME NEW S, S \subseteq Pieces, S # {}, NEW key, \A f \in S : key[f] \in Int
    PROVE  Min({f \in S : \A g \in S : key[f] <= key[g]}) \in Pieces
<1> DEFINE T == {f \in S : \A g \in S : key[f] <= key[g]}
<1>1. T # {}
  BY LeastPiece
<1>2. T \subseteq Nat /\ T \subseteq Pieces
  BY SceneGraphAssumption DEF SceneGraphAssumption
<1> HIDE DEF T
<1>3. Min(T) \in T
  BY <1>1, <1>2, MinIsOne
<1> QED
  BY <1>2, <1>3 DEF T

(* What classify compares are numbers.                                     *)
LEMMA BoxesMeasure ==
    ASSUME NEW o \in Box, NEW f \in Box
    PROVE  Over(o, f) \in Int /\ Volume(f) \in Int /\ Beyond(Middle(o), f) \in Int
<1>1. Cells \in SUBSET (Int \X Int) /\ IsFiniteSet(Cells)
  <2>1. IsFiniteSet(1..Height) /\ IsFiniteSet(1..Width)
    BY FS_Interval, RoomsAssumption DEF RoomsAssumption
  <2> QED
    BY <2>1, FS_Product, RoomsAssumption DEF RoomsAssumption, Cells
<1>2. /\ o.plan \subseteq Cells /\ f.plan \subseteq Cells /\ o.plan # {} /\ f.plan # {}
      /\ f.low \in Int /\ f.high \in Int
  BY DEF Box
<1>3. IsFiniteSet(o.plan \cap f.plan) /\ IsFiniteSet(f.plan)
  BY <1>1, <1>2, FS_Subset
<1>4. Over(o, f) \in Int
  BY <1>3, FS_CardinalityType DEF Over
<1>5. Volume(f) \in Int
  BY <1>2, <1>3, FS_CardinalityType DEF Volume
<1>6. Beyond(Middle(o), f) \in Int
  <2> DEFINE c == Middle(o)
             S == {Square(Rows(c, g)) + Square(Columns(c, g)) : g \in f.plan}
  <2>1. c \in Cells
    BY <1>2 DEF Middle
  <2>2. \A g \in Cells : Square(Rows(c, g)) + Square(Columns(c, g)) \in Nat
    <3> HIDE DEF c
    <3> SUFFICES ASSUME NEW g \in Cells
                 PROVE  Square(Rows(c, g)) + Square(Columns(c, g)) \in Nat
      OBVIOUS
    <3>1. c[1] \in Int /\ c[2] \in Int /\ g[1] \in Int /\ g[2] \in Int
      BY <1>1, <2>1
    <3>2. Rows(c, g) \in Int /\ Columns(c, g) \in Int
      BY <3>1 DEF Rows, Columns, Distance
    <3>3. \A n \in Int : n * n \in Nat
      BY SMT
    <3> QED
      BY <3>2, <3>3 DEF Square
  <2> HIDE DEF c
  <2>3. S \subseteq Nat /\ S # {}
    BY <1>2, <2>2
  <2> HIDE DEF S
  <2>4. Min(S) \in Nat
    BY <2>3, MinIsOne
  <2> QED
    BY <2>4 DEF Beyond, S, c
<1> QED
  BY <1>4, <1>5, <1>6

(* classify places an object nowhere, or at one piece.                     *)
LEMMA ClassifyPlacesOnce ==
    ASSUME NEW o \in Box, shape \in [Pieces -> Box]
    PROVE  \/ Classify(o) = {}
           \/ \E f \in Pieces, r \in Relations : Classify(o) = {<<f, r>>}
<1> DEFINE on == {f \in Pieces : Carries(o, shape[f])}
           in == {f \in Pieces : Contains(o, shape[f])}
           near == {f \in Pieces : Beyond(Middle(o), shape[f]) <= NearLimit}
           most == Min({f \in on : \A g \in on : Over(o, shape[f]) >= Over(o, shape[g])})
           least == Min({f \in in : \A g \in in : Volume(shape[f]) <= Volume(shape[g])})
           nearest == Min({f \in near : \A g \in near :
                             Beyond(Middle(o), shape[f]) <= Beyond(Middle(o), shape[g])})
<1>1. \A f \in Pieces : /\ Over(o, shape[f]) \in Int /\ Volume(shape[f]) \in Int
                        /\ Beyond(Middle(o), shape[f]) \in Int
  BY BoxesMeasure
<1>2. on # {} => most \in Pieces
  <2> SUFFICES ASSUME on # {} PROVE most \in Pieces
    OBVIOUS
  <2> DEFINE key == [f \in Pieces |-> -Over(o, shape[f])]
  <2>1. on \subseteq Pieces /\ \A f \in on : key[f] \in Int
    BY <1>1
  <2>2. {f \in on : \A g \in on : key[f] <= key[g]}
          = {f \in on : \A g \in on : Over(o, shape[f]) >= Over(o, shape[g])}
    <3>1. \A f, g \in Pieces : key[f] <= key[g] <=> Over(o, shape[f]) >= Over(o, shape[g])
      BY <1>1
    <3> HIDE DEF key
    <3> QED
      BY <3>1
  <2> HIDE DEF key, on
  <2>3. Min({f \in on : \A g \in on : key[f] <= key[g]}) \in Pieces
    BY <2>1, BestPiece
  <2> QED
    BY <2>2, <2>3
<1>3. in # {} => least \in Pieces
  <2> SUFFICES ASSUME in # {} PROVE least \in Pieces
    OBVIOUS
  <2> DEFINE key == [f \in Pieces |-> Volume(shape[f])]
  <2>1. in \subseteq Pieces /\ \A f \in in : key[f] \in Int
    BY <1>1
  <2>2. {f \in in : \A g \in in : key[f] <= key[g]}
          = {f \in in : \A g \in in : Volume(shape[f]) <= Volume(shape[g])}
    OBVIOUS
  <2> HIDE DEF key, in
  <2>3. Min({f \in in : \A g \in in : key[f] <= key[g]}) \in Pieces
    BY <2>1, BestPiece
  <2> QED
    BY <2>2, <2>3
<1>4. near # {} => nearest \in Pieces
  <2> SUFFICES ASSUME near # {} PROVE nearest \in Pieces
    OBVIOUS
  <2> DEFINE key == [f \in Pieces |-> Beyond(Middle(o), shape[f])]
  <2>1. near \subseteq Pieces /\ \A f \in near : key[f] \in Int
    BY <1>1
  <2>2. {f \in near : \A g \in near : key[f] <= key[g]}
          = {f \in near : \A g \in near :
               Beyond(Middle(o), shape[f]) <= Beyond(Middle(o), shape[g])}
    OBVIOUS
  <2> HIDE DEF key, near
  <2>3. Min({f \in near : \A g \in near : key[f] <= key[g]}) \in Pieces
    BY <2>1, BestPiece
  <2> QED
    BY <2>2, <2>3
<1>5. Classify(o) = IF on # {} THEN {<<most, "on">>}
                    ELSE IF in # {} THEN {<<least, "in">>}
                    ELSE IF near # {} THEN {<<nearest, "near">>}
                    ELSE {}
  BY DEF Classify, Best
<1>6. {"on", "in", "near"} = Relations
  BY DEF Relations
<1> HIDE DEF on, in, near, most, least, nearest
<1> QED
  BY <1>2, <1>3, <1>4, <1>5, <1>6

(* Every object is at one place or at none, and in the room of its place.  *)
PlacesAreOne ==
    /\ edges \in [Objects -> SUBSET (Pieces \X Relations)]
    /\ \A o \in Objects : \A d, e \in edges[o] : d = e
RoomsAreTheirs ==
    /\ DOMAIN room = Pieces \cup Objects /\ objects \subseteq Objects
    /\ \A o \in objects : \A f \in At(o) : room[o] = room[f]

(* The inductive invariant. *)
PlacesInv == PlacesAreOne /\ RoomsAreTheirs

(* The graph that is built has its objects in place, and no rooms yet.     *)
LEMMA BuiltInPlace == GraphInit => PlacesInv
<1> SUFFICES ASSUME GraphInit PROVE PlacesInv
  OBVIOUS
<1>1. PICK box \in [Built -> Boxes] :
        edges = [o \in Objects |-> IF o \in Built THEN Classify(box[o]) ELSE {}]
  BY DEF GraphInit
<1>2. \A o \in Objects : \/ edges[o] = {}
                         \/ \E f \in Pieces, r \in Relations : edges[o] = {<<f, r>>}
  <2> SUFFICES ASSUME NEW o \in Objects, o \in Built
               PROVE  \/ Classify(box[o]) = {}
                      \/ \E f \in Pieces, r \in Relations : Classify(box[o]) = {<<f, r>>}
    BY <1>1
  <2>1. box[o] \in Box /\ shape \in [Pieces -> Box]
    BY SceneGraphAssumption DEF SceneGraphAssumption, GraphInit
  <2> QED
    BY <2>1, ClassifyPlacesOnce
<1>3. PlacesAreOne
  BY <1>1, <1>2 DEF PlacesAreOne
<1>4. \A o \in Objects : At(o) \subseteq Pieces
  BY <1>3 DEF At, PlacesAreOne
<1> QED
  BY <1>3, <1>4, SceneGraphAssumption DEF SceneGraphAssumption, GraphInit, PlacesInv, RoomsAreTheirs

(* Naming the rooms takes the objects of a piece along.                    *)
LEMMA RoomsAreSet ==
    ASSUME PlacesInv, NEW rooms, room' = SetRooms(rooms), UNCHANGED <<objects, edges>>
    PROVE  PlacesInv'
<1>1. PlacesAreOne'
  BY DEF PlacesInv, PlacesAreOne
<1>2. DOMAIN room' = Pieces \cup Objects
  BY DEF SetRooms, PlacesInv, RoomsAreTheirs
<1>3. ASSUME NEW o \in objects, NEW f \in At(o) PROVE room'[o] = room'[f]
  <2>1. o \in Objects /\ o \notin Pieces
    BY SceneGraphAssumption DEF SceneGraphAssumption, PlacesInv, RoomsAreTheirs
  <2>2. f \in Pieces /\ At(o) = {f}
    BY <2>1 DEF At, PlacesInv, PlacesAreOne
  <2>3. room'[f] = rooms[f]
    BY <2>2 DEF SetRooms, PlacesInv, RoomsAreTheirs
  <2>4. (CHOOSE g \in At(o) : TRUE) = f
    BY <2>2
  <2>5. room'[o] = rooms[CHOOSE g \in At(o) : TRUE]
    BY <2>1, <2>2 DEF SetRooms, PlacesInv, RoomsAreTheirs
  <2> QED
    BY <2>3, <2>4, <2>5
<1>4. \A o : At(o)' = At(o)
  BY DEF At
<1> QED
  BY <1>1, <1>2, <1>3, <1>4 DEF PlacesInv, RoomsAreTheirs

(* What is recorded is at the new place only, in its room.                 *)
LEMMA RecordPlacesOnce == PlacesInv /\ RecordObject => PlacesInv'
<1> SUFFICES ASSUME PlacesInv, RecordObject PROVE PlacesInv'
  OBVIOUS
<1>1. PICK o \in Objects :
        /\ objects' = objects \cup {o}
        /\ \/ \E f \in Pieces, relation \in Relations :
                edges' = OnlyAt(o, {<<f, relation>>}) /\ room' = [room EXCEPT ![o] = room[f]]
           \/ edges' = OnlyAt(o, {}) /\ room' = [room EXCEPT ![o] = None]
  BY DEF RecordObject
<1>2. PICK e, r :
        /\ edges' = [edges EXCEPT ![o] = e] /\ room' = [room EXCEPT ![o] = r]
        /\ \/ e = {}
           \/ \E f \in Pieces, relation \in Relations : e = {<<f, relation>>} /\ r = room[f]
  BY <1>1 DEF OnlyAt
<1>3. PlacesAreOne'
  BY <1>2 DEF PlacesInv, PlacesAreOne
<1>4. DOMAIN room' = Pieces \cup Objects /\ objects' \subseteq Objects
  BY <1>1, <1>2 DEF PlacesInv, RoomsAreTheirs
<1>5. ASSUME NEW p \in objects', NEW f \in At(p)' PROVE room'[p] = room'[f]
  <2>1. p \in Objects /\ f \in Pieces /\ o \notin Pieces
    BY <1>3, <1>4, <1>5, SceneGraphAssumption DEF SceneGraphAssumption, PlacesAreOne, At
  <2>2. room'[f] = room[f]
    BY <1>2, <2>1 DEF PlacesInv, RoomsAreTheirs
  <2>3. CASE p = o
    <3>1. e # {} /\ f \in {d[1] : d \in e}
      BY <1>2, <1>5, <2>1, <2>3 DEF At, PlacesInv, PlacesAreOne
    <3>2. r = room[f]
      BY <1>2, <3>1
    <3>3. room'[o] = r
      BY <1>2, <2>1 DEF PlacesInv, RoomsAreTheirs
    <3> QED
      BY <2>2, <2>3, <3>2, <3>3
  <2>4. CASE p # o
    <3>1. p \in objects /\ f \in At(p)
      BY <1>1, <1>2, <1>5, <2>1, <2>4 DEF At, PlacesInv, PlacesAreOne
    <3>2. room'[p] = room[p]
      BY <1>2, <2>1, <2>4 DEF PlacesInv, RoomsAreTheirs
    <3> QED
      BY <2>2, <3>1, <3>2 DEF PlacesInv, RoomsAreTheirs
  <2> QED
    BY <2>3, <2>4
<1> QED
  BY <1>3, <1>4, <1>5 DEF PlacesInv, RoomsAreTheirs

LEMMA PlacesStay == PlacesInv /\ [GraphNext]_scene => PlacesInv'
<1> SUFFICES ASSUME PlacesInv, [GraphNext]_scene PROVE PlacesInv'
  OBVIOUS
<1>1. CASE Name
  BY <1>1, RoomsAreSet DEF Name
<1>2. CASE Assign
  BY <1>2, RoomsAreSet DEF Assign
<1>3. CASE UNCHANGED scene
  BY <1>3 DEF scene, PlacesInv, PlacesAreOne, RoomsAreTheirs, At
<1> QED
  BY <1>1, <1>2, <1>3, RecordPlacesOnce DEF GraphNext

(* An object is in one place at most, however often it is seen again at    *)
(* another, and in the room of that place (graph.record_object,            *)
(* set_rooms).                                                             *)
THEOREM PlaceAndRoomAgree == GraphSpec => []OnePlaceOneRoom
<1>1. PlacesInv /\ [GraphNext]_scene => PlacesInv'
  BY PlacesStay
<1>2. PlacesInv => OnePlaceOneRoom
  <2> SUFFICES ASSUME PlacesInv, NEW o \in objects
               PROVE  Cardinality(edges[o]) <= 1 /\ \A f \in At(o) : room[o] = room[f]
    BY DEF OnePlaceOneRoom
  <2>1. o \in Objects /\ \A d, e \in edges[o] : d = e
    BY DEF PlacesInv, PlacesAreOne, RoomsAreTheirs
  <2>2. edges[o] = {} \/ \E e : edges[o] = {e}
    BY <2>1
  <2>3. Cardinality(edges[o]) <= 1
    <3>1. CASE edges[o] = {}
      BY <3>1, FS_EmptySet
    <3>2. CASE \E e : edges[o] = {e}
      <4>1. PICK e : edges[o] = {e}
        BY <3>2
      <4>2. Cardinality({e}) = 1
        BY FS_Singleton
      <4> QED
        BY <4>1, <4>2
    <3> QED
      BY <2>2, <3>1, <3>2
  <2> QED
    BY <2>3 DEF PlacesInv, RoomsAreTheirs
<1> QED
  BY <1>1, <1>2, BuiltInPlace, PTL DEF GraphSpec

(***************************************************************************)
(* Recursion: what a definition f[n \in Nat] == ... f[n - 1] ... means.    *)
(***************************************************************************)
(* Induction: a set that has 0, and n + 1 with n, has every natural.       *)
LEMMA Induction ==
    ASSUME NEW P, 0 \in P, \A n \in Nat : n \in P => n + 1 \in P
    PROVE  \A n \in Nat : n \in P
<1> DEFINE Bad == {n \in Nat : n \notin P}
<1>1. ASSUME NEW b \in Bad, \A n \in Bad : b <= n PROVE FALSE
  <2>1. b \in Nat /\ b # 0
    OBVIOUS
  <2>2. b - 1 \in Nat /\ ~(b <= b - 1) /\ (b - 1) + 1 = b
    BY <2>1
  <2>3. b - 1 \in P
    BY <1>1, <2>2
  <2> QED
    BY <2>2, <2>3
<1>2. Bad = {}
  BY <1>1, LeastOfNats
<1> QED
  BY <1>2

(* A function of the naturals can be made from its first value and from    *)
(* how each value makes the next: from its beginnings, of which there is   *)
(* one of each length.                                                     *)
LEMMA RecursionOnNat ==
    ASSUME NEW U, NEW a \in U, NEW m \in [U -> U]
    PROVE  \E h \in [Nat -> U] : h[0] = a /\ \A n \in Nat : h[n + 1] = m[h[n]]
<1> DEFINE UpTo(n) == {g \in [0..n -> U] :
                         g[0] = a /\ \A k \in 0..n - 1 : g[k + 1] = m[g[k]]}
<1>1. \A n \in Nat : UpTo(n) # {}
  <2> DEFINE P == {n \in Nat : UpTo(n) # {}}
  <2>1. 0 \in P
    <3>1. [k \in 0..0 |-> a] \in UpTo(0)
      OBVIOUS
    <3> QED
      BY <3>1
  <2>2. ASSUME NEW n \in Nat, n \in P PROVE n + 1 \in P
    <3>1. PICK g \in UpTo(n) : TRUE
      BY <2>2
    <3> DEFINE e == [k \in 0..n + 1 |-> IF k = n + 1 THEN m[g[n]] ELSE g[k]]
    <3>2. g \in [0..n -> U] /\ g[0] = a /\ \A k \in 0..n - 1 : g[k + 1] = m[g[k]]
      OBVIOUS
    <3>3. e \in [0..n + 1 -> U] /\ e[0] = a
      BY <3>2
    <3>4. ASSUME NEW k \in 0..(n + 1) - 1 PROVE e[k + 1] = m[e[k]]
      <4>1. e[k] = g[k]
        OBVIOUS
      <4>2. CASE k = n
        BY <4>1, <4>2
      <4>3. CASE k # n
        <5>1. k \in 0..n - 1 /\ k + 1 \in 0..n + 1 /\ k + 1 # n + 1
          BY <4>3
        <5> QED
          BY <3>2, <4>1, <5>1
      <4> QED
        BY <4>2, <4>3
    <3>5. e \in UpTo(n + 1)
      BY <3>3, <3>4
    <3> HIDE DEF UpTo, e
    <3>6. n + 1 \in Nat /\ UpTo(n + 1) # {}
      BY <3>5
    <3> QED
      BY <3>6
  <2> HIDE DEF P
  <2>3. \A n \in Nat : n \in P
    BY <2>1, <2>2, Induction
  <2> QED
    BY <2>3 DEF P
<1>2. ASSUME NEW n \in Nat, NEW g \in UpTo(n), NEW f \in UpTo(n + 1) PROVE g[n] = f[n]
  <2> DEFINE P == {k \in Nat : k <= n => g[k] = f[k]}
  <2>1. 0 \in P
    OBVIOUS
  <2>2. ASSUME NEW k \in Nat, k \in P PROVE k + 1 \in P
    <3> SUFFICES ASSUME k + 1 <= n PROVE g[k + 1] = f[k + 1]
      OBVIOUS
    <3>1. k \in 0..n - 1 /\ k \in 0..(n + 1) - 1
      OBVIOUS
    <3>2. g[k + 1] = m[g[k]] /\ f[k + 1] = m[f[k]]
      BY <3>1
    <3>3. g[k] = f[k]
      BY <2>2
    <3> QED
      BY <3>2, <3>3
  <2> HIDE DEF P
  <2>3. n \in P
    BY <2>1, <2>2, Induction
  <2> QED
    BY <2>3 DEF P
<1> DEFINE c(n) == CHOOSE g \in UpTo(n) : TRUE
           h == [n \in Nat |-> c(n)[n]]
<1> HIDE DEF h
<1>3. ASSUME NEW n \in Nat
      PROVE  /\ c(n) \in UpTo(n) /\ c(n)[n] \in U /\ c(n)[0] = a
             /\ \A k \in 0..n - 1 : c(n)[k + 1] = m[c(n)[k]]
  <2>1. c(n) \in UpTo(n)
    BY <1>1
  <2> HIDE DEF c
  <2> QED
    BY <2>1
<1>4. ASSUME NEW n \in Nat PROVE c(n + 1)[n + 1] = m[c(n)[n]]
  <2>1. n + 1 \in Nat /\ n \in 0..(n + 1) - 1
    OBVIOUS
  <2> HIDE DEF c, UpTo
  <2>2. c(n) \in UpTo(n) /\ c(n + 1) \in UpTo(n + 1)
    BY <1>3, <2>1
  <2>3. c(n)[n] = c(n + 1)[n]
    BY <1>2, <2>2
  <2>4. c(n + 1)[n + 1] = m[c(n + 1)[n]]
    BY <1>3, <2>1
  <2> QED
    BY <2>3, <2>4
<1> HIDE DEF c
<1>5. h \in [Nat -> U] /\ h[0] = a
  BY <1>3 DEF h
<1>6. \A n \in Nat : h[n + 1] = m[h[n]]
  BY <1>4 DEF h
<1> QED
  BY <1>5, <1>6

(* What can be reached in some cells is among them, with where it starts.  *)
LEMMA ComponentIsWithin ==
    ASSUME NEW within, IsFiniteSet(within), NEW a \in within
    PROVE  Component(within, a) \subseteq within /\ a \in Component(within, a)
<1> DEFINE Wider(before) == before \cup {b \in within : \E c \in before : Touching(b, c)}
           U == {S \in SUBSET within : a \in S}
           m == [S \in U |-> Wider(S)]
<1>1. {a} \in U /\ m \in [U -> U] /\ \A S \in U : m[S] = Wider(S)
  OBVIOUS
<1>2. \A x : Of(Wider, x) = Wider(x)
  BY DEF Of
<1> HIDE DEF m, U
<1>3. {a} \in U /\ \A S \in U : m[S] = Wider(S) /\ m[S] \in U
  BY <1>1
<1>4. PICK h \in [Nat -> U] : h[0] = {a} /\ \A n \in Nat : h[n + 1] = m[h[n]]
  <2>1. {a} \in U /\ m \in [U -> U]
    BY <1>1
  <2> HIDE DEF Wider
  <2> QED
    BY <2>1, RecursionOnNat
<1> DEFINE Made(f) == f = [n \in Nat |-> IF n = 0 THEN {a} ELSE Of(Wider, f[n - 1])]
           reached == CHOOSE f : Made(f)
<1>5. Made(h)
  <2>1. \A n \in Nat : h[n] = IF n = 0 THEN {a} ELSE Of(Wider, h[n - 1])
    <3> SUFFICES ASSUME NEW n \in Nat, n # 0 PROVE h[n] = Of(Wider, h[n - 1])
      BY <1>4
    <3>1. n - 1 \in Nat /\ (n - 1) + 1 = n
      OBVIOUS
    <3>2. h[n] = m[h[n - 1]] /\ h[n - 1] \in U
      BY <1>4, <3>1
    <3>3. h[n] = Wider(h[n - 1])
      BY <1>1, <3>2
    <3> HIDE DEF Wider
    <3> QED
      BY <1>2, <3>3
  <2> QED
    BY <2>1
<1>6. Made(reached)
  BY <1>5
<1> HIDE DEF reached
<1>7. \A n \in Nat : reached[n] \in U
  <2> DEFINE P == {n \in Nat : reached[n] \in U}
  <2>1. 0 \in P
    BY <1>3, <1>6
  <2>2. ASSUME NEW n \in Nat, n \in P PROVE n + 1 \in P
    <3>1. n + 1 \in Nat /\ n + 1 # 0 /\ (n + 1) - 1 = n
      OBVIOUS
    <3>2. reached[n + 1] = Of(Wider, reached[n])
      BY <1>6, <3>1
    <3>3. reached[n + 1] = Wider(reached[n])
      BY <1>2, <3>2
    <3>4. reached[n + 1] = m[reached[n]]
      BY <1>3, <2>2, <3>3
    <3> QED
      BY <1>3, <2>2, <3>4
  <2> HIDE DEF P
  <2>3. \A n \in Nat : n \in P
    BY <2>1, <2>2, Induction
  <2> QED
    BY <2>3 DEF P
<1>8. Component(within, a) = reached[Cardinality(within)]
  BY DEF Component, reached
<1> QED
  BY <1>7, <1>8, FS_CardinalityType DEF U

(***************************************************************************)
(* Sums over a finite set, as MapThenSumSet makes them: a member of the    *)
(* set, and the sum over the others.                                       *)
(***************************************************************************)
One(s) == CHOOSE x \in s : TRUE
SumsUp(f, v, S) ==
    f = [s \in SUBSET S |-> IF s = {} THEN 0 ELSE v[One(s)] + f[s \ {One(s)}]]

LEMMA OneFewer ==
    ASSUME NEW s, IsFiniteSet(s), s # {}
    PROVE  /\ One(s) \in s
           /\ Cardinality(s) \in Nat /\ Cardinality(s \ {One(s)}) = Cardinality(s) - 1
<1>1. One(s) \in s
  BY DEF One
<1> QED
  BY <1>1, FS_RemoveElement, FS_CardinalityType

(* There is such a sum, made for the sets of n + 1 members from those of n *)
(* members and fewer.                                                      *)
LEMMA SumIsMade ==
    ASSUME NEW S, IsFiniteSet(S), NEW v \in [S -> Nat]
    PROVE  \E f : SumsUp(f, v, S)
<1> DEFINE Small(n) == {s \in SUBSET S : Cardinality(s) <= n}
           Next(f, s) == IF s = {} THEN 0 ELSE v[One(s)] + f[s \ {One(s)}]
           P == {n \in Nat : \E f \in [Small(n) -> Nat] : \A s \in Small(n) : f[s] = Next(f, s)}
<1>1. \A s \in SUBSET S : IsFiniteSet(s) /\ Cardinality(s) \in Nat
  BY FS_Subset, FS_CardinalityType
<1>2. \A s \in SUBSET S : s # {} =>
        /\ One(s) \in s /\ v[One(s)] \in Nat
        /\ s \ {One(s)} \in SUBSET S /\ Cardinality(s \ {One(s)}) = Cardinality(s) - 1
  BY <1>1, OneFewer
<1>3. 0 \in P
  <2> DEFINE f == [s \in Small(0) |-> 0]
  <2>1. \A s \in Small(0) : s = {}
    <3> SUFFICES ASSUME NEW s \in Small(0), s # {} PROVE FALSE
      OBVIOUS
    <3>1. s \in SUBSET S /\ Cardinality(s) <= 0
      OBVIOUS
    <3>2. Cardinality(s) \in Nat /\ Cardinality(s \ {One(s)}) = Cardinality(s) - 1
          /\ Cardinality(s \ {One(s)}) \in Nat
      BY <1>1, <1>2, <3>1
    <3> QED
      BY <3>1, <3>2
  <2> HIDE DEF Small
  <2>2. f \in [Small(0) -> Nat] /\ \A s \in Small(0) : f[s] = Next(f, s)
    BY <2>1
  <2> QED
    BY <2>2
<1>4. ASSUME NEW n \in Nat, n \in P PROVE n + 1 \in P
  <2>1. PICK f \in [Small(n) -> Nat] : \A s \in Small(n) : f[s] = Next(f, s)
    BY <1>4
  <2> DEFINE g == [s \in Small(n + 1) |-> IF s \in Small(n) THEN f[s] ELSE Next(f, s)]
  <2>2. \A s \in Small(n + 1) : s # {} => s \ {One(s)} \in Small(n)
    BY <1>1, <1>2
  <2>3. Small(n) \subseteq Small(n + 1)
    BY <1>1
  <2>4. \A s \in Small(n + 1) : s # {} => v[One(s)] \in Nat
    BY <1>2
  <2> HIDE DEF Small
  <2>5. \A s \in Small(n + 1) : g[s] \in Nat /\ g[s] = Next(f, s)
    BY <2>1, <2>2, <2>4
  <2>6. \A s \in Small(n + 1) : Next(f, s) = Next(g, s)
    <3>1. \A s \in Small(n) : g[s] = f[s]
      BY <2>3
    <3> HIDE DEF g
    <3> QED
      BY <2>2, <3>1
  <2>7. g \in [Small(n + 1) -> Nat]
    BY <2>5
  <2> HIDE DEF g, Next
  <2> QED
    BY <2>5, <2>6, <2>7
<1> HIDE DEF P
<1>5. \A n \in Nat : n \in P
  BY <1>3, <1>4, Induction
<1>6. Cardinality(S) \in Nat /\ Small(Cardinality(S)) = SUBSET S
  <2>1. Cardinality(S) \in Nat /\ \A s \in SUBSET S : Cardinality(s) <= Cardinality(S)
    BY FS_CardinalityType, FS_Subset
  <2> QED
    BY <2>1
<1> HIDE DEF Small
<1>7. PICK f \in [SUBSET S -> Nat] : \A s \in SUBSET S : f[s] = Next(f, s)
  <2>1. Cardinality(S) \in P
    BY <1>5, <1>6
  <2> HIDE DEF Next
  <2> QED
    BY <1>6, <2>1 DEF P
<1>8. f = [s \in SUBSET S |-> Next(f, s)]
  BY <1>7
<1> QED
  BY <1>8 DEF SumsUp

(* It is a number, and zero when every summand is.                         *)
LEMMA SumIsANumber ==
    ASSUME NEW S, IsFiniteSet(S), NEW v \in [S -> Nat], NEW f, SumsUp(f, v, S)
    PROVE  \A s \in SUBSET S : f[s] \in Nat /\ (f[s] = 0 <=> \A x \in s : v[x] = 0)
<1> DEFINE Good(s) == f[s] \in Nat /\ (f[s] = 0 <=> \A x \in s : v[x] = 0)
           P == {n \in Nat : \A s \in SUBSET S : Cardinality(s) = n => Good(s)}
<1>1. \A s \in SUBSET S : f[s] = IF s = {} THEN 0 ELSE v[One(s)] + f[s \ {One(s)}]
  BY DEF SumsUp
<1>2. \A s \in SUBSET S : IsFiniteSet(s) /\ Cardinality(s) \in Nat
  BY FS_Subset, FS_CardinalityType
<1>3. \A s \in SUBSET S : s # {} =>
        /\ One(s) \in s /\ v[One(s)] \in Nat
        /\ s \ {One(s)} \in SUBSET S /\ Cardinality(s \ {One(s)}) = Cardinality(s) - 1
  BY <1>2, OneFewer
<1>4. ASSUME NEW s \in SUBSET S, s # {} => Good(s \ {One(s)}) PROVE Good(s)
  <2>1. CASE s = {}
    <3>1. f[s] = 0
      BY <1>1, <2>1
    <3> QED
      BY <2>1, <3>1
  <2>2. CASE s # {}
    <3> DEFINE x == One(s)
               t == s \ {x}
    <3>1. f[s] = v[x] + f[t] /\ v[x] \in Nat /\ f[t] \in Nat
      BY <1>1, <1>3, <1>4, <2>2
    <3>2. x \in s /\ (f[t] = 0 <=> \A y \in t : v[y] = 0)
      BY <1>3, <1>4, <2>2
    <3>3. f[s] \in Nat /\ (f[s] = 0 <=> v[x] = 0 /\ f[t] = 0)
      BY <3>1
    <3>4. (\A y \in s : v[y] = 0) <=> v[x] = 0 /\ \A y \in t : v[y] = 0
      BY <3>2
    <3> QED
      BY <3>2, <3>3, <3>4
  <2> QED
    BY <2>1, <2>2
<1>5. 0 \in P
  <2>1. ASSUME NEW s \in SUBSET S, Cardinality(s) = 0, s # {} PROVE FALSE
    <3> DEFINE t == s \ {One(s)}
    <3>1. t \in SUBSET S /\ Cardinality(t) = -1
      BY <1>3, <2>1
    <3> HIDE DEF t
    <3>2. Cardinality(t) \in Nat
      BY <1>2, <3>1
    <3> QED
      BY <3>1, <3>2
  <2> HIDE DEF Good
  <2> QED
    BY <1>4, <2>1
<1>6. ASSUME NEW n \in Nat, n \in P PROVE n + 1 \in P
  <2> SUFFICES ASSUME NEW s \in SUBSET S, Cardinality(s) = n + 1 PROVE Good(s)
    OBVIOUS
  <2>1. s # {} => Cardinality(s \ {One(s)}) = n /\ s \ {One(s)} \in SUBSET S
    BY <1>3
  <2>2. \A t \in SUBSET S : Cardinality(t) = n => Good(t)
    BY <1>6
  <2> HIDE DEF Good
  <2> QED
    BY <1>4, <2>1, <2>2
<1> HIDE DEF P
<1>7. \A n \in Nat : n \in P
  BY <1>5, <1>6, Induction
<1> HIDE DEF Good
<1>8. \A s \in SUBSET S : Good(s)
  BY <1>2, <1>7 DEF P
<1> QED
  BY <1>8 DEF Good

LEMMA DistancesAdd ==
    ASSUME NEW D, NEW A, NEW B, IsFiniteSet(A), IsFiniteSet(B),
           \A p \in A, q \in B : D[p][q] \in Nat
    PROVE  /\ Sum2(D, A, B) \in Nat
           /\ Sum2(D, A, B) = 0 <=> \A p \in A, q \in B : D[p][q] = 0
<1> DEFINE S == A \X B
           v == [x \in S |-> D[x[1]][x[2]]]
           Made(f) == f = [s \in SUBSET S |->
                             IF s = {} THEN 0
                             ELSE D[(CHOOSE x \in s : TRUE)[1]][(CHOOSE x \in s : TRUE)[2]]
                                  + f[s \ {CHOOSE x \in s : TRUE}]]
           sum == CHOOSE f : Made(f)
<1>1. v \in [S -> Nat] /\ IsFiniteSet(S)
  BY FS_Product
<1>2. \A f : Made(f) <=> SumsUp(f, v, S)
  <2>1. \A s \in SUBSET S : s # {} =>
          v[One(s)] = D[(CHOOSE x \in s : TRUE)[1]][(CHOOSE x \in s : TRUE)[2]]
    BY DEF One
  <2> HIDE DEF S, v
  <2> QED
    BY <2>1 DEF SumsUp, One
<1> HIDE DEF v, S
<1>3. \E f : Made(f)
  <2>1. PICK f : SumsUp(f, v, S)
    BY <1>1, SumIsMade
  <2> HIDE DEF Made
  <2> QED
    BY <1>2, <2>1
<1>4. SumsUp(sum, v, S)
  <2>1. Made(sum)
    BY <1>3
  <2> HIDE DEF sum
  <2> QED
    BY <1>2, <2>1
<1>5. Sum2(D, A, B) = sum[S]
  BY DEF Sum2, MapThenSumSet, MapThenFoldSet, S
<1> HIDE DEF sum, Made
<1>6. sum[S] \in Nat /\ (sum[S] = 0 <=> \A x \in S : v[x] = 0)
  BY <1>1, <1>4, SumIsANumber
<1>7. (\A x \in S : v[x] = 0) <=> \A p \in A, q \in B : D[p][q] = 0
  <2>1. \A p \in A, q \in B : <<p, q>> \in S /\ v[<<p, q>>] = D[p][q]
    BY DEF S, v
  <2>2. \A x \in S : \E p \in A, q \in B : x = <<p, q>>
    BY DEF S
  <2> QED
    <3>1. ASSUME \A x \in S : v[x] = 0, NEW p \in A, NEW q \in B PROVE D[p][q] = 0
      BY <2>1, <3>1
    <3>2. ASSUME \A p \in A, q \in B : D[p][q] = 0, NEW x \in S PROVE v[x] = 0
      <4>1. PICK p \in A : \E q \in B : x = <<p, q>>
        BY <2>2
      <4>2. PICK q \in B : x = <<p, q>>
        BY <4>1
      <4> QED
        BY <2>1, <3>2, <4>2
    <3> QED
      BY <3>1, <3>2
<1> QED
  BY <1>5, <1>6, <1>7

(***************************************************************************)
(* How furniture is grouped.                                               *)
(***************************************************************************)
Matrices == [Pieces -> [Pieces -> Nat]]

(* Groups of which every piece is in one. *)
Divides(G) ==
    /\ \A g \in G : g \subseteq Pieces /\ g # {}
    /\ \A p \in Pieces : \E g \in G : p \in g
    /\ \A g, h \in G : g # h => g \cap h = {}
Coarsens(G, H) == \A g \in G : \E h \in H : g \subseteq h

Pairs(G) == {x \in G \X G : x[1] # x[2]}
Joined(D, G) == CHOOSE x \in {x \in Pairs(G) : \A y \in Pairs(G) : Closer(D, x, y)} : TRUE
Joining(G, x) == (G \ {x[1], x[2]}) \cup {x[1] \cup x[2]}

LEMMA MergedIs ==
    ASSUME NEW D, NEW s, NEW G
    PROVE  Merged(D, s, G) = IF Pairs(G) = {} \/ ~Within(D, Joined(D, G), s) THEN G
                             ELSE Joining(G, Joined(D, G))
BY DEF Merged, Pairs, Joined, Joining

LEMMA GroupsAreFinite ==
    ASSUME NEW G, Divides(G)
    PROVE  /\ IsFiniteSet(G) /\ Cardinality(G) \in Nat
           /\ \A g \in G : IsFiniteSet(g) /\ Cardinality(g) \in Nat \ {0}
<1>1. IsFiniteSet(Pieces)
  BY SceneGraphAssumption DEF SceneGraphAssumption
<1>2. IsFiniteSet(SUBSET Pieces) /\ G \subseteq SUBSET Pieces
  BY <1>1, FS_SUBSET DEF Divides
<1>3. IsFiniteSet(G) /\ Cardinality(G) \in Nat
  BY <1>2, FS_Subset, FS_CardinalityType
<1>4. ASSUME NEW g \in G PROVE IsFiniteSet(g) /\ Cardinality(g) \in Nat \ {0}
  <2>1. IsFiniteSet(g) /\ g # {}
    BY <1>1, FS_Subset DEF Divides
  <2> QED
    BY <2>1, FS_CardinalityType, FS_EmptySet
<1> QED
  BY <1>3, <1>4

(* The mean distances of two pairs are compared by multiplying across.     *)
LEMMA MeansCompare ==
    ASSUME NEW a \in Nat, NEW b \in Nat, NEW c \in Nat,
           NEW u \in Nat \ {0}, NEW v \in Nat \ {0}, NEW w \in Nat \ {0},
           a * v <= b * u, b * w <= c * v
    PROVE  a * w <= c * u
<1>1. (a * v) * w <= (b * u) * w
  BY SMT
<1>2. (b * w) * u <= (c * v) * u
  BY SMT
<1>3. (b * u) * w = (b * w) * u /\ (a * v) * w = (a * w) * v /\ (c * v) * u = (c * u) * v
  BY SMT
<1>4. (a * w) * v <= (c * u) * v
  BY <1>1, <1>2, <1>3, SMT
<1>5. \A m, n \in Nat : m * v <= n * v => m <= n
  BY SMT
<1>6. a * w \in Nat /\ c * u \in Nat
  BY SMT
<1> QED
  BY <1>4, <1>5, <1>6, SMT

(* What Closer and Within compare. *)
Weight(x) == Cardinality(x[1]) * Cardinality(x[2])

LEMMA PairsMeasure ==
    ASSUME NEW D \in Matrices, NEW G, Divides(G), NEW x \in Pairs(G)
    PROVE  /\ Sum2(D, x[1], x[2]) \in Nat /\ Weight(x) \in Nat \ {0}
           /\ Sum2(D, x[1], x[2]) = 0 <=> \A p \in x[1], q \in x[2] : D[p][q] = 0
           /\ \A s \in Nat : Within(D, x, s) <=> Sum2(D, x[1], x[2]) <= s * Weight(x)
<1>1. x[1] \in G /\ x[2] \in G
  BY DEF Pairs
<1>2. /\ IsFiniteSet(x[1]) /\ IsFiniteSet(x[2])
      /\ Cardinality(x[1]) \in Nat \ {0} /\ Cardinality(x[2]) \in Nat \ {0}
  BY <1>1, GroupsAreFinite
<1>3. \A p \in x[1], q \in x[2] : D[p][q] \in Nat
  BY <1>1 DEF Divides, Matrices
<1>4. /\ Sum2(D, x[1], x[2]) \in Nat
      /\ Sum2(D, x[1], x[2]) = 0 <=> \A p \in x[1], q \in x[2] : D[p][q] = 0
  BY <1>2, <1>3, DistancesAdd
<1>5. \A m, n \in Nat \ {0} : m * n \in Nat \ {0}
  BY SMT
<1>6. \A k, m, n \in Nat : (k * m) * n = k * (m * n)
  BY SMT
<1> QED
  BY <1>2, <1>4, <1>5, <1>6 DEF Weight, Within

LEMMA CloserIs ==
    ASSUME NEW D \in Matrices, NEW G, Divides(G), NEW x \in Pairs(G), NEW y \in Pairs(G)
    PROVE  Closer(D, x, y) <=> Sum2(D, x[1], x[2]) * Weight(y) <= Sum2(D, y[1], y[2]) * Weight(x)
<1>1. x[1] \in G /\ x[2] \in G /\ y[1] \in G /\ y[2] \in G
  BY DEF Pairs
<1>2. /\ Cardinality(x[1]) \in Nat /\ Cardinality(x[2]) \in Nat
      /\ Cardinality(y[1]) \in Nat /\ Cardinality(y[2]) \in Nat
      /\ Sum2(D, x[1], x[2]) \in Nat /\ Sum2(D, y[1], y[2]) \in Nat
  BY <1>1, GroupsAreFinite, PairsMeasure
<1>3. \A k, m, n \in Nat : (k * m) * n = k * (m * n)
  BY SMT
<1> QED
  BY <1>2, <1>3 DEF Weight, Closer

(* Of some pairs there is a nearest, and two groups are joined only if     *)
(* they are.                                                               *)
LEMMA NearestAreJoined ==
    ASSUME NEW D \in Matrices, NEW G, Divides(G), Pairs(G) # {}
    PROVE  /\ Joined(D, G) \in Pairs(G)
           /\ \A y \in Pairs(G) : Closer(D, Joined(D, G), y)
<1> DEFINE R == {z \in Pairs(G) \X Pairs(G) : Closer(D, z[1], z[2])}
           S(x) == Sum2(D, x[1], x[2])
<1>1. IsFiniteSet(Pairs(G))
  <2>1. IsFiniteSet(G \X G)
    BY GroupsAreFinite, FS_Product
  <2> QED
    BY <2>1, FS_Subset DEF Pairs
<1>2. \A x, y \in Pairs(G) :
        Closer(D, x, y) <=> S(x) * Weight(y) <= S(y) * Weight(x)
  BY CloserIs
<1>3. \A x \in Pairs(G) : S(x) \in Nat /\ Weight(x) \in Nat \ {0}
  BY PairsMeasure
<1> HIDE DEF S
<1>4. \A x, y \in Pairs(G) : Closer(D, x, y) \/ Closer(D, y, x)
  <2>1. \A m, n \in Nat : m <= n \/ n <= m
    OBVIOUS
  <2>2. \A x, y \in Pairs(G) : S(x) * Weight(y) \in Nat
    BY <1>3
  <2> QED
    BY <1>2, <2>1, <2>2
<1>5. \A x, y, z \in Pairs(G) : Closer(D, x, y) /\ Closer(D, y, z) => Closer(D, x, z)
  BY <1>2, <1>3, MeansCompare
<1>6. \A x, y \in Pairs(G) : <<x, y>> \in R <=> Closer(D, x, y)
  OBVIOUS
<1> HIDE DEF R
<1>7. PICK m \in Pairs(G) : \A n \in Pairs(G) : <<m, n>> \in R
  <2>1. \A a, b \in Pairs(G) : <<a, b>> \in R \/ <<b, a>> \in R
    BY <1>4, <1>6
  <2>2. \A a, b, c \in Pairs(G) : <<a, b>> \in R /\ <<b, c>> \in R => <<a, c>> \in R
    BY <1>5, <1>6
  <2> QED
    BY <1>1, <2>1, <2>2, FiniteHasFirst
<1>8. m \in {x \in Pairs(G) : \A y \in Pairs(G) : Closer(D, x, y)}
  BY <1>6, <1>7
<1> QED
  BY <1>8 DEF Joined

(* Joining two groups of a division leaves one, in which every group has   *)
(* its place, with one group less.                                         *)
LEMMA JoiningDivides ==
    ASSUME NEW G, Divides(G), NEW x \in Pairs(G)
    PROVE  /\ Divides(Joining(G, x)) /\ Coarsens(G, Joining(G, x))
           /\ Joining(G, x) # G /\ Cardinality(Joining(G, x)) = Cardinality(G) - 1
<1>1. PICK g \in G : \E h \in G : g # h /\ x = <<g, h>>
  BY DEF Pairs
<1>2. PICK h \in G : g # h /\ x = <<g, h>>
  BY <1>1
<1> DEFINE K == G \ {g, h}
           J == K \cup {g \cup h}
<1>3. Joining(G, x) = J
  BY <1>2 DEF Joining
<1>4. g # {} /\ h # {} /\ g \cap h = {} /\ g \subseteq Pieces /\ h \subseteq Pieces
  BY <1>2 DEF Divides
<1>5. \A k \in K : k # {} /\ k \cap g = {} /\ k \cap h = {}
  BY DEF Divides
<1>6. g \notin J /\ g \cup h \notin K
  BY <1>4, <1>5
<1>7. Divides(J)
  <2>1. \A k \in J : k \subseteq Pieces /\ k # {}
    BY <1>4 DEF Divides
  <2>2. ASSUME NEW p \in Pieces PROVE \E k \in J : p \in k
    <3>1. PICK k \in G : p \in k
      BY DEF Divides
    <3>2. CASE k = g \/ k = h
      <4>1. p \in g \cup h /\ g \cup h \in J
        BY <3>1, <3>2
      <4> QED
        BY <4>1
    <3>3. CASE k \in K
      <4>1. k \in J
        BY <3>3
      <4> QED
        BY <3>1, <4>1
    <3> QED
      BY <3>2, <3>3
  <2>3. \A k, l \in J : k # l => k \cap l = {}
    <3>1. \A k, l \in K : k # l => k \cap l = {}
      BY DEF Divides
    <3>2. \A k \in K : k \cap (g \cup h) = {}
      BY <1>5
    <3> QED
      BY <3>1, <3>2
  <2> QED
    BY <2>1, <2>2, <2>3 DEF Divides
<1>8. Coarsens(G, J)
  BY DEF Coarsens
<1>9. Cardinality(J) = Cardinality(G) - 1
  <2>1. IsFiniteSet(G) /\ Cardinality(G) \in Nat
    BY GroupsAreFinite
  <2>2. Cardinality(G \ {g}) = Cardinality(G) - 1 /\ IsFiniteSet(G \ {g})
    BY <2>1, FS_RemoveElement
  <2>3. (G \ {g}) \ {h} = K /\ h \in G \ {g}
    BY <1>2
  <2>4. Cardinality(K) = Cardinality(G) - 2 /\ IsFiniteSet(K)
    BY <2>1, <2>2, <2>3, FS_RemoveElement
  <2>5. Cardinality(J) = Cardinality(K) + 1
    BY <2>4, <1>6, FS_AddElement
  <2> QED
    BY <2>1, <2>4, <2>5
<1> HIDE DEF J
<1> QED
  BY <1>3, <1>6, <1>7, <1>8, <1>9

LEMMA MergedDivides ==
    ASSUME NEW D \in Matrices, NEW s \in Nat, NEW G, Divides(G)
    PROVE  /\ Divides(Merged(D, s, G)) /\ Coarsens(G, Merged(D, s, G))
           /\ \/ Merged(D, s, G) = G
              \/ /\ Pairs(G) # {} /\ Within(D, Joined(D, G), s)
                 /\ Merged(D, s, G) = Joining(G, Joined(D, G))
                 /\ Cardinality(Merged(D, s, G)) = Cardinality(G) - 1
<1>1. CASE Pairs(G) = {} \/ ~Within(D, Joined(D, G), s)
  BY <1>1, MergedIs DEF Coarsens
<1>2. CASE Pairs(G) # {} /\ Within(D, Joined(D, G), s)
  BY <1>2, MergedIs, NearestAreJoined, JoiningDivides
<1> QED
  BY <1>1, <1>2

(* Partition, unfolded: a chain of divisions, each merged from the one     *)
(* before, that starts with every piece for itself.                        *)
Chain(f, D, s) ==
    /\ f[0] = {{p} : p \in Pieces}
    /\ \A n \in Nat : Divides(f[n]) /\ f[n + 1] = Merged(D, s, f[n])

LEMMA PartitionIsAChain ==
    ASSUME NEW D \in Matrices, NEW s \in Nat
    PROVE  \E f : Chain(f, D, s) /\ Partition(D, s) = f[Cardinality(Pieces)]
<1> DEFINE Merge(before) == Merged(D, s, before)
           alone == {{p} : p \in DOMAIN D}
           U == {G \in SUBSET SUBSET Pieces : Divides(G)}
           m == [G \in U |-> Merge(G)]
<1>1. DOMAIN D = Pieces
  BY DEF Matrices
<1>2. alone \in U
  BY <1>1 DEF Divides
<1>3. \A G \in U : Divides(G) /\ Merge(G) \in U
  <2>1. \A G : Divides(G) => G \in U
    BY DEF Divides
  <2>2. \A G \in U : Divides(G)
    OBVIOUS
  <2> HIDE DEF U
  <2> QED
    BY <2>1, <2>2, MergedDivides
<1> HIDE DEF U, alone, Merge
<1>4. m \in [U -> U] /\ \A G \in U : m[G] = Merge(G) /\ m[G] \in U
  BY <1>3
<1> HIDE DEF m
<1>5. PICK h \in [Nat -> U] : h[0] = alone /\ \A n \in Nat : h[n + 1] = m[h[n]]
  BY <1>2, <1>4, RecursionOnNat
<1>6. \A x : Of(Merge, x) = Merge(x)
  BY DEF Of
<1> DEFINE Made(f) == f = [n \in Nat |-> IF n = 0 THEN alone ELSE Of(Merge, f[n - 1])]
           merged == CHOOSE f : Made(f)
<1>7. Made(h)
  <2>1. ASSUME NEW n \in Nat, n # 0 PROVE h[n] = Of(Merge, h[n - 1])
    <3>1. n - 1 \in Nat /\ (n - 1) + 1 = n
      BY <2>1
    <3>2. h[n] = m[h[n - 1]] /\ h[n - 1] \in U
      BY <1>5, <3>1
    <3> QED
      BY <1>4, <1>6, <3>2
  <2> QED
    BY <1>5, <2>1
<1>8. Made(merged)
  BY <1>7
<1> HIDE DEF merged
<1>9. \A n \in Nat : merged[n + 1] = Merge(merged[n])
  <2> SUFFICES ASSUME NEW n \in Nat PROVE merged[n + 1] = Merge(merged[n])
    OBVIOUS
  <2>1. n + 1 \in Nat /\ n + 1 # 0 /\ (n + 1) - 1 = n
    OBVIOUS
  <2>2. merged[n + 1] = Of(Merge, merged[n])
    BY <1>8, <2>1
  <2> QED
    BY <1>6, <2>2
<1>10. \A n \in Nat : merged[n] \in U
  <2> DEFINE P == {n \in Nat : merged[n] \in U}
  <2>1. 0 \in P
    BY <1>2, <1>8
  <2> HIDE DEF Made
  <2>2. ASSUME NEW n \in Nat, n \in P PROVE n + 1 \in P
    BY <1>3, <1>9, <2>2
  <2> HIDE DEF P
  <2>3. \A n \in Nat : n \in P
    BY <2>1, <2>2, Induction
  <2> QED
    BY <2>3 DEF P
<1>11. Partition(D, s) = merged[Cardinality(Pieces)]
  BY <1>1 DEF Partition, merged, Merge, alone
<1>12. merged[0] = {{p} : p \in Pieces}
  BY <1>1, <1>8 DEF alone
<1> HIDE DEF Made
<1>13. Chain(merged, D, s)
  BY <1>3, <1>9, <1>10, <1>12 DEF Chain, Merge
<1> QED
  BY <1>11, <1>13

(* A larger spacing joins what a smaller one joins, and more: the nearest  *)
(* two groups are the same, so the two chains go together until the        *)
(* smaller spacing stops.                                                  *)
LEMMA FurtherJoinsMore ==
    ASSUME NEW D \in Matrices, NEW s \in Nat, NEW t \in Nat, s < t
    PROVE  Coarsens(Partition(D, s), Partition(D, t))
<1>1. PICK f : Chain(f, D, s) /\ Partition(D, s) = f[Cardinality(Pieces)]
  BY PartitionIsAChain
<1>2. PICK g : Chain(g, D, t) /\ Partition(D, t) = g[Cardinality(Pieces)]
  BY PartitionIsAChain
<1> DEFINE Stuck(G) == Merged(D, s, G) = G
           P == {n \in Nat : f[n] = g[n] \/ (Stuck(f[n]) /\ Coarsens(f[n], g[n]))}
<1>3. ASSUME NEW G, Divides(G) PROVE Stuck(G) \/ Merged(D, s, G) = Merged(D, t, G)
  <2> SUFFICES ASSUME Pairs(G) # {}, Within(D, Joined(D, G), s)
               PROVE  Within(D, Joined(D, G), t)
    BY MergedIs
  <2> DEFINE x == Joined(D, G)
             d == Sum2(D, x[1], x[2])
             w == Weight(x)
  <2>1. x \in Pairs(G)
    BY <1>3, NearestAreJoined
  <2> HIDE DEF x
  <2>2. d \in Nat /\ w \in Nat /\ d <= s * w
    BY <1>3, <2>1, PairsMeasure DEF x
  <2>3. \A k, m \in Nat : k <= s * m => k <= t * m
    <3>1. \A m \in Nat : s * m <= t * m /\ s * m \in Nat /\ t * m \in Nat
      BY SMT
    <3> QED
      BY <3>1, SMT
  <2>4. d <= t * w
    BY <2>2, <2>3
  <2> QED
    BY <1>3, <2>1, <2>4, PairsMeasure DEF x
<1>4. 0 \in P
  BY <1>1, <1>2 DEF Chain
<1>5. ASSUME NEW n \in Nat, n \in P PROVE n + 1 \in P
  <2>1. /\ Divides(f[n]) /\ Divides(g[n])
        /\ f[n + 1] = Merged(D, s, f[n]) /\ g[n + 1] = Merged(D, t, g[n])
    BY <1>1, <1>2 DEF Chain
  <2>2. Coarsens(g[n], g[n + 1])
    BY <2>1, MergedDivides
  <2>3. CASE f[n] = g[n]
    BY <1>3, <2>1, <2>2, <2>3
  <2>4. CASE Stuck(f[n]) /\ Coarsens(f[n], g[n])
    BY <2>1, <2>2, <2>4 DEF Coarsens
  <2> QED
    BY <1>5, <2>3, <2>4
<1> HIDE DEF P
<1>6. \A n \in Nat : n \in P
  BY <1>4, <1>5, Induction
<1>7. Cardinality(Pieces) \in Nat
  BY FS_CardinalityType, SceneGraphAssumption DEF SceneGraphAssumption
<1>8. \A G : Coarsens(G, G)
  BY DEF Coarsens
<1> QED
  BY <1>1, <1>2, <1>6, <1>7, <1>8 DEF P

(***************************************************************************)
(* Furniture that snaps to the same floor.                                 *)
(***************************************************************************)
(* Pieces are at no distance when they stand at the same cell.             *)
Stand(D, seed) == \A p, q \in Pieces : D[p][q] = 0 <=> seed[p] = seed[q]

(* The groups are of one cell each, or they have every cell in one group.  *)
OfOneCell(G, seed) == \A g \in G : \A p, q \in g : seed[p] = seed[q]
CellsWhole(G, seed) ==
    \A p, q \in Pieces : seed[p] = seed[q] => \E g \in G : p \in g /\ q \in g

(* Two groups of the same cell are at no distance: they are joined first.  *)
LEMMA SameCellJoins ==
    ASSUME NEW D \in Matrices, NEW seed, Stand(D, seed), NEW G, Divides(G), OfOneCell(G, seed),
           ~CellsWhole(G, seed), NEW s \in Nat
    PROVE  /\ Pairs(G) # {} /\ Within(D, Joined(D, G), s)
           /\ OfOneCell(Joining(G, Joined(D, G)), seed)
<1>1. PICK p \in Pieces : \E q \in Pieces :
        seed[p] = seed[q] /\ ~\E g \in G : p \in g /\ q \in g
  BY DEF CellsWhole
<1>2. PICK q \in Pieces : seed[p] = seed[q] /\ ~\E g \in G : p \in g /\ q \in g
  BY <1>1
<1>3. PICK g \in G : p \in g
  BY DEF Divides
<1>4. PICK h \in G : q \in h
  BY DEF Divides
<1> DEFINE y == <<g, h>>
           x == Joined(D, G)
<1>5. y \in Pairs(G) /\ y[1] = g /\ y[2] = h
  BY <1>2, <1>3, <1>4 DEF Pairs
<1>6. Sum2(D, y[1], y[2]) = 0
  <2>1. ASSUME NEW a \in g, NEW b \in h PROVE D[a][b] = 0
    <3>1. a \in Pieces /\ b \in Pieces
      BY DEF Divides
    <3>2. seed[a] = seed[p] /\ seed[b] = seed[q]
      BY <1>3, <1>4 DEF OfOneCell
    <3> QED
      BY <1>2, <3>1, <3>2 DEF Stand
  <2> HIDE DEF y
  <2> QED
    BY <1>5, <2>1, PairsMeasure
<1> HIDE DEF y
<1>7. x \in Pairs(G) /\ Closer(D, x, y)
  BY <1>5, NearestAreJoined
<1> HIDE DEF x
<1>8. Sum2(D, x[1], x[2]) = 0
  <2> DEFINE d == Sum2(D, x[1], x[2])
  <2>1. d * Weight(y) <= 0 * Weight(x)
    BY <1>5, <1>6, <1>7, CloserIs
  <2>2. d \in Nat /\ Weight(y) \in Nat \ {0} /\ Weight(x) \in Nat
    BY <1>5, <1>7, PairsMeasure
  <2> HIDE DEF d
  <2>3. \A k, m, n \in Nat : m # 0 /\ k * m <= 0 * n => k = 0
    BY SMT
  <2>4. d = 0
    BY <2>1, <2>2, <2>3
  <2> QED
    BY <2>4 DEF d
<1>9. Within(D, x, s)
  <2>1. \A n \in Nat : 0 <= s * n
    BY SMT
  <2>2. Weight(x) \in Nat
    BY <1>7, PairsMeasure
  <2> QED
    BY <1>7, <1>8, <2>1, <2>2, PairsMeasure
<1>10. OfOneCell(Joining(G, x), seed)
  <2>1. x[1] \in G /\ x[2] \in G
    BY <1>7 DEF Pairs
  <2>2. \A a \in x[1], b \in x[2] : D[a][b] = 0
    BY <1>7, <1>8, PairsMeasure
  <2>3. \A a \in x[1], b \in x[2] : seed[a] = seed[b]
    BY <2>1, <2>2 DEF Stand, Divides
  <2>4. \A a, b \in x[1] \cup x[2] : seed[a] = seed[b]
    <3>1. \A a, b \in x[1] : seed[a] = seed[b]
      BY <2>1 DEF OfOneCell
    <3>2. \A a, b \in x[2] : seed[a] = seed[b]
      BY <2>1 DEF OfOneCell
    <3> QED
      BY <2>3, <3>1, <3>2
  <2> QED
    BY <2>4 DEF OfOneCell, Joining
<1> QED
  BY <1>5, <1>7, <1>9, <1>10 DEF x

(* The last division of the chain is merged no further: there are not more *)
(* groups to join than pieces.                                             *)
LEMMA ChainSettles ==
    ASSUME NEW D \in Matrices, NEW s \in Nat, NEW f, Chain(f, D, s)
    PROVE  Merged(D, s, f[Cardinality(Pieces)]) = f[Cardinality(Pieces)]
<1> DEFINE N == Cardinality(Pieces)
           P == {n \in Nat : Merged(D, s, f[n]) = f[n] \/ Cardinality(f[n]) + n <= N}
<1>1. N \in Nat /\ IsFiniteSet(Pieces)
  BY FS_CardinalityType, SceneGraphAssumption DEF SceneGraphAssumption
<1> HIDE DEF N
<1>2. 0 \in P
  <2> DEFINE alone == {{p} : p \in Pieces}
             single == [p \in Pieces |-> {p}]
  <2>1. single \in Surjection(Pieces, alone)
    BY DEF Surjection
  <2>2. Cardinality(alone) <= N
    BY <1>1, <2>1, FS_Surjection DEF N
  <2>3. f[0] = alone /\ Divides(f[0])
    BY DEF Chain
  <2>4. Cardinality(f[0]) \in Nat
    BY <2>3, GroupsAreFinite
  <2> HIDE DEF alone
  <2>5. Cardinality(f[0]) + 0 <= N
    BY <1>1, <2>2, <2>3, <2>4
  <2> QED
    BY <2>5
<1>3. ASSUME NEW n \in Nat, n \in P PROVE n + 1 \in P
  <2>1. Divides(f[n]) /\ f[n + 1] = Merged(D, s, f[n])
    BY DEF Chain
  <2>2. Cardinality(f[n]) \in Nat
    BY <2>1, GroupsAreFinite
  <2>3. CASE Merged(D, s, f[n]) = f[n]
    BY <2>1, <2>3
  <2>4. CASE Cardinality(Merged(D, s, f[n])) = Cardinality(f[n]) - 1 /\ Cardinality(f[n]) + n <= N
    BY <1>1, <2>1, <2>2, <2>4
  <2> QED
    BY <1>3, <2>1, <2>3, <2>4, MergedDivides
<1> HIDE DEF P
<1>4. \A n \in Nat : n \in P
  BY <1>2, <1>3, Induction
<1>5. Divides(f[N]) /\ Cardinality(f[N]) \in Nat
  BY <1>1, GroupsAreFinite DEF Chain
<1>6. CASE Cardinality(f[N]) + N <= N
  <2>1. Cardinality(f[N]) = 0
    BY <1>1, <1>5, <1>6
  <2>2. f[N] = {}
    BY <1>5, <2>1, GroupsAreFinite, FS_EmptySet
  <2>3. Pairs(f[N]) = {}
    BY <2>2 DEF Pairs
  <2> QED
    BY <2>3, MergedIs DEF N
<1> QED
  BY <1>1, <1>4, <1>6 DEF P, N

(* So a partition never parts two pieces that stand at the same cell.      *)
LEMMA CellsStayWhole ==
    ASSUME NEW D \in Matrices, NEW seed, Stand(D, seed), NEW s \in Nat
    PROVE  Divides(Partition(D, s)) /\ CellsWhole(Partition(D, s), seed)
<1>1. PICK f : Chain(f, D, s) /\ Partition(D, s) = f[Cardinality(Pieces)]
  BY PartitionIsAChain
<1>2. Cardinality(Pieces) \in Nat
  BY FS_CardinalityType, SceneGraphAssumption DEF SceneGraphAssumption
<1> DEFINE P == {n \in Nat : OfOneCell(f[n], seed) \/ CellsWhole(f[n], seed)}
<1>3. 0 \in P
  BY <1>1 DEF Chain, OfOneCell
<1>4. ASSUME NEW n \in Nat, n \in P PROVE n + 1 \in P
  <2>1. Divides(f[n]) /\ f[n + 1] = Merged(D, s, f[n])
    BY <1>1 DEF Chain
  <2>2. Divides(f[n]) /\ f[n + 1] = Merged(D, s, f[n]) /\ Coarsens(f[n], f[n + 1])
    BY <2>1, MergedDivides
  <2>3. CASE CellsWhole(f[n], seed)
    BY <2>2, <2>3 DEF CellsWhole, Coarsens
  <2>4. CASE OfOneCell(f[n], seed) /\ ~CellsWhole(f[n], seed)
    BY <2>2, <2>4, SameCellJoins, MergedIs
  <2> QED
    BY <1>4, <2>3, <2>4
<1> HIDE DEF P
<1>5. \A n \in Nat : n \in P
  BY <1>3, <1>4, Induction
<1> DEFINE G == f[Cardinality(Pieces)]
<1>6. Divides(G) /\ Merged(D, s, G) = G
  BY <1>1, <1>2, ChainSettles DEF Chain
<1>7. OfOneCell(G, seed) \/ CellsWhole(G, seed)
  BY <1>2, <1>5 DEF P
<1> HIDE DEF G
<1>8. CellsWhole(G, seed)
  <2> SUFFICES ASSUME OfOneCell(G, seed), ~CellsWhole(G, seed) PROVE FALSE
    BY <1>7
  <2>1. Pairs(G) # {} /\ Within(D, Joined(D, G), s)
    BY <1>6, SameCellJoins
  <2>2. Merged(D, s, G) = Joining(G, Joined(D, G))
    BY <2>1, MergedIs
  <2>3. Joining(G, Joined(D, G)) # G
    BY <1>6, <2>1, NearestAreJoined, JoiningDivides
  <2> QED
    BY <1>6, <2>2, <2>3
<1> QED
  BY <1>1, <1>6, <1>8 DEF G

(***************************************************************************)
(* The floor, and the ways along it.                                       *)
(***************************************************************************)
LEMMA CellsAreFinite == IsFiniteSet(Cells) /\ Cells \subseteq Int \X Int
<1>1. IsFiniteSet(1..Height) /\ IsFiniteSet(1..Width)
  BY FS_Interval, RoomsAssumption DEF RoomsAssumption
<1> QED
  BY <1>1, FS_Product, RoomsAssumption DEF RoomsAssumption, Cells

(* As the rows are read. *)
Reads(a, b) == a[1] < b[1] \/ (a[1] = b[1] /\ a[2] <= b[2])

LEMMA FirstIsACell ==
    ASSUME NEW S, S \subseteq Cells, S # {}
    PROVE  First(S) \in S
<1> DEFINE R == {x \in S \X S : Reads(x[1], x[2])}
<1>1. IsFiniteSet(S) /\ \A a \in S : a[1] \in Int /\ a[2] \in Int
  BY CellsAreFinite, FS_Subset
<1>2. \A a, b \in S : Reads(a, b) \/ Reads(b, a)
  BY <1>1 DEF Reads
<1>3. \A a, b, c \in S : Reads(a, b) /\ Reads(b, c) => Reads(a, c)
  BY <1>1 DEF Reads
<1>4. \A a, b \in S : <<a, b>> \in R <=> Reads(a, b)
  OBVIOUS
<1> HIDE DEF R
<1>5. PICK m \in S : \A n \in S : <<m, n>> \in R
  <2>1. \A a, b \in S : <<a, b>> \in R \/ <<b, a>> \in R
    BY <1>2, <1>4
  <2>2. \A a, b, c \in S : <<a, b>> \in R /\ <<b, c>> \in R => <<a, c>> \in R
    BY <1>3, <1>4
  <2> QED
    BY <1>1, <2>1, <2>2, FiniteHasFirst
<1>6. \A n \in S : Reads(m, n)
  BY <1>4, <1>5
<1> QED
  BY <1>6 DEF First, Reads

(* Of some pieces of floor there is a largest, and of equals a first.      *)
LEMMA LargestIsAPiece ==
    ASSUME NEW pieces, IsFiniteSet(pieces), pieces # {},
           \A p \in pieces : p \subseteq Cells /\ p # {}
    PROVE  Largest(pieces) \in pieces
<1> DEFINE Larger(p, q) == \/ Cardinality(p) > Cardinality(q)
                           \/ Cardinality(p) = Cardinality(q) /\ Reads(First(p), First(q))
           R == {x \in pieces \X pieces : Larger(x[1], x[2])}
<1>1. \A p \in pieces : Cardinality(p) \in Nat
  BY CellsAreFinite, FS_Subset, FS_CardinalityType
<1>2. \A p \in pieces : First(p)[1] \in Int /\ First(p)[2] \in Int
  BY CellsAreFinite, FirstIsACell
<1>3. \A p, q \in pieces : Larger(p, q) \/ Larger(q, p)
  BY <1>1, <1>2 DEF Reads
<1>4. \A p, q, r \in pieces : Larger(p, q) /\ Larger(q, r) => Larger(p, r)
  BY <1>1, <1>2 DEF Reads
<1>5. \A p, q \in pieces : <<p, q>> \in R <=> Larger(p, q)
  OBVIOUS
<1> HIDE DEF R
<1>6. PICK m \in pieces : \A n \in pieces : <<m, n>> \in R
  <2>1. \A a, b \in pieces : <<a, b>> \in R \/ <<b, a>> \in R
    BY <1>3, <1>5
  <2>2. \A a, b, c \in pieces : <<a, b>> \in R /\ <<b, c>> \in R => <<a, c>> \in R
    BY <1>4, <1>5
  <2> QED
    BY <2>1, <2>2, FiniteHasFirst
<1>7. \A n \in pieces : Larger(m, n)
  BY <1>5, <1>6
<1> QED
  BY <1>7 DEF Largest, Reads

LEMMA SpaceIsCells == ASSUME NEW image PROVE Space(image) \subseteq Cells
BY DEF Space, Closed, Eroded, Dilated, Cellwise

(* The floor of a map is some of its cells. *)
LEMMA FloorIsCells ==
    ASSUME NEW image \in Images
    PROVE  Floor(image) \subseteq Cells /\ Floor(image) # {}
<1> DEFINE space == Space(image)
           pieces == {Component(space, a) : a \in space}
           Parts(cells) == {Component(cells, a) : a \in cells}
<1>1. space \subseteq Cells /\ space # {} /\ IsFiniteSet(space)
  BY SpaceIsCells, CellsAreFinite, FS_Subset, SceneGraphAssumption DEF SceneGraphAssumption
<1>2. Components(space) = pieces
  <2>1. Of(Parts, space) = Parts(space)
    BY DEF Of
  <2> QED
    BY <2>1 DEF Components
<1> HIDE DEF space
<1>3. \A a \in space : Component(space, a) \subseteq space /\ a \in Component(space, a)
  BY <1>1, ComponentIsWithin
<1>4. IsFiniteSet(pieces) /\ pieces # {} /\ \A p \in pieces : p \subseteq Cells /\ p # {}
  <2>1. pieces \subseteq SUBSET space
    BY <1>3
  <2>2. IsFiniteSet(pieces)
    BY <1>1, <2>1, FS_SUBSET, FS_Subset
  <2> QED
    BY <1>1, <1>3, <2>2
<1> HIDE DEF pieces
<1>5. Largest(pieces) \in pieces
  BY <1>4, LargestIsAPiece
<1>6. Floor(image) = Largest(pieces)
  <2>1. Of(Largest, Components(space)) = Largest(Components(space))
    BY DEF Of
  <2> QED
    BY <1>2, <2>1 DEF Floor, space
<1> QED
  BY <1>4, <1>5, <1>6

(* A point snaps to a cell of the floor. *)
LEMMA SnapsToFloor ==
    ASSUME NEW floor, floor \subseteq Cells, floor # {}, NEW c \in Cells
    PROVE  Snapped(floor, c) \in floor
<1> DEFINE Far(f) == Square(f[1] - c[1]) + Square(f[2] - c[2])
           S == {Far(f) : f \in floor}
<1>1. \A f \in floor : Far(f) \in Nat
  <2>1. \A n \in Int : Square(n) \in Nat
    BY SMT DEF Square
  <2>2. c[1] \in Int /\ c[2] \in Int /\ \A f \in floor : f[1] \in Int /\ f[2] \in Int
    BY CellsAreFinite
  <2> QED
    BY <2>1, <2>2
<1> HIDE DEF Far
<1>2. PICK m \in S : \A n \in S : m <= n
  BY <1>1, LeastOfNats
<1>3. PICK f \in floor : m = Far(f)
  OBVIOUS
<1>4. \A g \in floor : Far(f) <= Far(g)
  BY <1>2, <1>3
<1> QED
  BY <1>4 DEF Snapped, Far

(* The way to a cell is a length, and none to the cell itself alone.       *)
LEMMA WaysHaveLengths ==
    ASSUME NEW floor, floor \subseteq Cells, NEW a \in floor
    PROVE  \A c \in floor : /\ Walk(floor, a)[c] \in Nat
                            /\ Walk(floor, a)[c] = 0 <=> c = a
<1> DEFINE Near(before, c) == {before[c]}
                 \cup {before[b] + Step(b, c) : b \in {f \in floor : Touching(f, c)}}
           Shorter(before) == [c \in floor |-> Min(Near(before, c))]
           first == [c \in floor |-> IF c = a THEN 0 ELSE Infinity]
           U == {w \in [floor -> Nat] : \A c \in floor : w[c] = 0 <=> c = a}
           m == [w \in U |-> Shorter(w)]
<1>1. first \in U
  BY DEF Infinity
<1>2. ASSUME NEW w \in U PROVE Shorter(w) \in U
  <2>1. ASSUME NEW c \in floor PROVE Min(Near(w, c)) \in Nat /\ (Min(Near(w, c)) = 0 <=> c = a)
    <3>1. w[c] \in Nat /\ (w[c] = 0 <=> c = a)
      OBVIOUS
    <3>2. \A b \in floor : w[b] + Step(b, c) \in Nat \ {0}
      BY DEF Step
    <3>3. Near(w, c) \subseteq Nat /\ w[c] \in Near(w, c)
      BY <3>1, <3>2
    <3>4. \A n \in Near(w, c) : n = w[c] \/ n # 0
      BY <3>2
    <3> HIDE DEF Near
    <3>5. Min(Near(w, c)) \in Near(w, c) /\ \A n \in Near(w, c) : Min(Near(w, c)) <= n
      BY <3>3, MinIsOne
    <3> QED
      BY <3>1, <3>3, <3>4, <3>5
  <2> HIDE DEF Near
  <2> QED
    BY <2>1
<1> HIDE DEF U, first, Shorter
<1>3. m \in [U -> U] /\ \A w \in U : m[w] = Shorter(w) /\ m[w] \in U
  BY <1>2
<1> HIDE DEF m
<1>4. PICK h \in [Nat -> U] : h[0] = first /\ \A n \in Nat : h[n + 1] = m[h[n]]
  <2>1. m \in [U -> U] /\ first \in U
    BY <1>1, <1>3
  <2> QED
    BY <2>1, RecursionOnNat
<1>5. \A x : Of(Shorter, x) = Shorter(x)
  BY DEF Of
<1> DEFINE Made(f) == f = [n \in Nat |-> IF n = 0 THEN first ELSE Of(Shorter, f[n - 1])]
           far == CHOOSE f : Made(f)
<1>6. Made(h)
  <2>1. ASSUME NEW n \in Nat, n # 0 PROVE h[n] = Of(Shorter, h[n - 1])
    <3>1. n - 1 \in Nat /\ (n - 1) + 1 = n
      BY <2>1
    <3>2. h[n] = m[h[n - 1]] /\ h[n - 1] \in U
      BY <1>4, <3>1
    <3> QED
      BY <1>3, <1>5, <3>2
  <2> QED
    BY <1>4, <2>1
<1>7. Made(far)
  BY <1>6
<1> HIDE DEF far
<1>8. \A n \in Nat : far[n] \in U
  <2> DEFINE P == {n \in Nat : far[n] \in U}
  <2>1. 0 \in P
    BY <1>1, <1>7
  <2>2. ASSUME NEW n \in Nat, n \in P PROVE n + 1 \in P
    <3>1. n + 1 \in Nat /\ n + 1 # 0 /\ (n + 1) - 1 = n
      OBVIOUS
    <3>2. far[n + 1] = Of(Shorter, far[n])
      BY <1>7, <3>1
    <3>3. far[n + 1] = Shorter(far[n]) /\ far[n] \in U
      BY <1>5, <2>2, <3>2
    <3>4. far[n + 1] = m[far[n]]
      BY <1>3, <3>3
    <3> HIDE DEF Made
    <3> QED
      BY <1>3, <3>1, <3>3, <3>4
  <2> HIDE DEF P
  <2>3. \A n \in Nat : n \in P
    BY <2>1, <2>2, Induction
  <2> QED
    BY <2>3 DEF P
<1>9. Walk(floor, a) = far[Cardinality(floor)]
  BY DEF Walk, far, Shorter, first
<1>10. Cardinality(floor) \in Nat
  BY CellsAreFinite, FS_Subset, FS_CardinalityType
<1> QED
  BY <1>8, <1>9, <1>10 DEF U

(* The distances between the pieces of furniture are lengths, and none     *)
(* between those that snap to the same cell.                               *)
LEMMA DistancesStand ==
    ASSUME NEW image \in Images, NEW at \in Placements
    PROVE  /\ Distances(image, at) \in Matrices
           /\ \E seed : Stand(Distances(image, at), seed)
<1> DEFINE D == Distances(image, at)
           seed == [p \in Pieces |-> Seeds[image][at[p]]]
<1>1. \A p \in Pieces : at[p] \in Spots /\ at[p] \in Cells
  BY SceneGraphAssumption DEF SceneGraphAssumption
<1>2. \A p \in Pieces : seed[p] \in Floor(image)
  BY <1>1, FloorIsCells, SnapsToFloor DEF Seeds, Floors
<1>3. \A p, q \in Pieces : D[p][q] = Walk(Floor(image), seed[p])[seed[q]]
  BY <1>1 DEF Distances, Ways, Floors
<1>4. D = [p \in Pieces |-> [q \in Pieces |-> D[p][q]]]
  BY DEF Distances
<1> HIDE DEF D, seed
<1>5. \A p, q \in Pieces : D[p][q] \in Nat /\ (D[p][q] = 0 <=> seed[p] = seed[q])
  BY <1>2, <1>3, FloorIsCells, WaysHaveLengths
<1>6. D \in Matrices
  BY <1>4, <1>5 DEF Matrices
<1>7. Stand(D, seed)
  BY <1>5 DEF Stand
<1> QED
  BY <1>6, <1>7 DEF D

(***************************************************************************)
(* The division of the floor, and the names.                               *)
(***************************************************************************)
(* The inductive invariant of both: the division is the one that the       *)
(* distances have at this spacing.                                         *)
DivisionInv ==
    /\ matrix \in Matrices /\ (\E seed : Stand(matrix, seed))
    /\ spacing \in Spacings /\ groups = Partition(matrix, spacing)

LEMMA DivisionStays ==
    /\ GraphInit => DivisionInv
    /\ DivisionInv /\ [GraphNext]_scene => DivisionInv'
<1>1. GraphInit => DivisionInv
  BY DistancesStand DEF GraphInit, DivisionInv
<1>2. DivisionInv /\ [GraphNext]_scene => DivisionInv'
  <2>1. [GraphNext]_scene => UNCHANGED fixed
    BY DEF GraphNext, Name, Assign, RecordObject, Counted, scene, fixed
  <2> SUFFICES ASSUME DivisionInv, UNCHANGED fixed PROVE DivisionInv'
    BY <2>1
  <2> QED
    BY DEF DivisionInv, fixed
<1> QED
  BY <1>1, <1>2

(* A larger spacing only joins rooms: the counts of `sweep' fall, and a    *)
(* plateau of one count is one division of the floor (rooms.partition).    *)
THEOREM SweepOnlyJoins == GraphSpec => []LargerJoins
<1>1. DivisionInv => LargerJoins
  <2> SUFFICES ASSUME DivisionInv, NEW s \in Spacings, s > spacing
               PROVE  \A g \in groups : \E h \in Partition(matrix, s) : g \subseteq h
    BY DEF LargerJoins
  <2>1. matrix \in Matrices /\ spacing \in Nat /\ s \in Nat /\ spacing < s
    BY SceneGraphAssumption DEF SceneGraphAssumption, DivisionInv
  <2>2. Coarsens(Partition(matrix, spacing), Partition(matrix, s))
    BY <2>1, FurtherJoinsMore
  <2> QED
    BY <2>2 DEF DivisionInv, Coarsens
<1> QED
  BY <1>1, DivisionStays, PTL DEF GraphSpec

LEMMA AppendIsLonger ==
    ASSUME NEW S, NEW s \in Seq(S), NEW e \in S
    PROVE  Len(Append(s, e)) = Len(s) + 1
BY AppendProperties

(* Names of one word, numbered where they repeat, are as many as there are *)
(* groups: of two equal ones the later has a number, and a higher one.     *)
LEMMA NumberedAreApart ==
    ASSUME NEW n \in Nat, NEW given \in [1..n -> Names],
           \A k \in 1..n : Len(given[k]) = 1,
           NEW j \in 1..n, NEW k \in 1..n, j < k
    PROVE  Numbered(given)[j] # Numbered(given)[k]
<1> DEFINE T == Words \cup Nat
           Same(i) == {l \in 1..i : given[l] = given[i]}
           before == [i \in 1..n |-> Cardinality(Same(i))]
<1>1. \A i \in 1..n : given[i] \in Seq(T) /\ Len(given[i]) = 1
  BY SceneGraphAssumption DEF SceneGraphAssumption
<1>2. \A i \in 1..n : Numbered(given)[i] = IF before[i] = 1 THEN given[i]
                                           ELSE Append(given[i], before[i])
  BY DEF Numbered
<1>3. \A i \in 1..n : IsFiniteSet(Same(i)) /\ before[i] \in Nat
  <2> SUFFICES ASSUME NEW i \in 1..n PROVE IsFiniteSet(Same(i)) /\ before[i] \in Nat
    OBVIOUS
  <2>1. IsFiniteSet(1..i) /\ Same(i) \subseteq 1..i
    BY FS_Interval
  <2> HIDE DEF Same
  <2> QED
    BY <2>1, FS_Subset, FS_CardinalityType
<1>4. given[j] = given[k] => before[j] < before[k]
  <2> SUFFICES ASSUME given[j] = given[k] PROVE before[j] < before[k]
    OBVIOUS
  <2>1. Same(j) \subseteq Same(k) \ {k} /\ k \in Same(k)
    OBVIOUS
  <2> HIDE DEF Same
  <2>2. Cardinality(Same(k) \ {k}) = before[k] - 1 /\ IsFiniteSet(Same(k) \ {k})
    BY <1>3, <2>1, FS_RemoveElement
  <2>3. before[j] <= before[k] - 1
    BY <2>1, <2>2, FS_Subset
  <2> QED
    BY <1>3, <2>3
<1> HIDE DEF before, T, Same
<1>5. \A i \in 1..n : before[i] \in T
  BY <1>3 DEF T
<1>6. \A i \in 1..n : Len(Append(given[i], before[i])) = 2
  <2> SUFFICES ASSUME NEW i \in 1..n PROVE Len(Append(given[i], before[i])) = 2
    OBVIOUS
  <2>1. given[i] \in Seq(T) /\ before[i] \in T /\ Len(given[i]) = 1
    BY <1>1, <1>5
  <2>2. Len(Append(given[i], before[i])) = Len(given[i]) + 1
    BY <2>1, AppendIsLonger
  <2> QED
    BY <2>1, <2>2
<1>7. Append(given[j], before[j]) = Append(given[k], before[k])
        => given[j] = given[k] /\ before[j] = before[k]
  BY <1>1, <1>5, AppendInjective
<1> SUFFICES ASSUME Numbered(given)[j] = Numbered(given)[k] PROVE FALSE
  OBVIOUS
<1>8. CASE before[j] = 1 /\ before[k] = 1
  BY <1>2, <1>3, <1>4, <1>8
<1>9. CASE before[j] # 1 /\ before[k] # 1
  <2>1. Append(given[j], before[j]) = Append(given[k], before[k])
    BY <1>2, <1>9
  <2>2. before[j] < before[k] /\ before[j] = before[k]
    BY <1>4, <1>7, <2>1
  <2>3. before[j] \in Nat /\ before[k] \in Nat
    BY <1>3
  <2> QED
    BY <2>2, <2>3
<1>10. CASE before[j] = 1 /\ before[k] # 1
  <2>1. given[j] = Append(given[k], before[k])
    BY <1>2, <1>10
  <2> QED
    BY <1>1, <1>6, <2>1
<1>11. CASE before[j] # 1 /\ before[k] = 1
  <2>1. given[k] = Append(given[j], before[j])
    BY <1>2, <1>11
  <2> QED
    BY <1>1, <1>6, <2>1
<1> QED
  BY <1>8, <1>9, <1>10, <1>11

(* The rooms have the division's names, for as long as it is the last that *)
(* was named.                                                              *)
Together(p, q) == \E g \in groups : {p, q} \subseteq g
OneWordEach == answer # <<>> /\ \A k \in DOMAIN answer : Len(answer[k]) = 1
RoomsAreGroups == \A p, q \in Pieces : room[p] = room[q] <=> Together(p, q)
NamesInv == OneWordEach => RoomsAreGroups

LEMMA NamesDivide ==
    ASSUME PlacesInv, DivisionInv, Name
    PROVE  NamesInv'
<1> DEFINE n == Cardinality(groups)
           order == CHOOSE s \in [1..n -> groups] : {s[k] : k \in DOMAIN s} = groups
           Its(f) == CHOOSE k \in DOMAIN order : f \in order[k]
<1>1. PICK given \in [1..n -> Names] :
        /\ room' = SetRooms([f \in Pieces |-> Numbered(given)[Its(f)]])
        /\ answer' = given
  BY DEF Name
<1>2. groups' = groups
  BY DEF Name, Counted, fixed
<1>3. Divides(groups) /\ IsFiniteSet(groups) /\ n \in Nat
  <2>1. matrix \in Matrices /\ spacing \in Nat /\ (\E seed : Stand(matrix, seed))
    BY SceneGraphAssumption DEF SceneGraphAssumption, DivisionInv
  <2>2. Divides(groups)
    BY <2>1, CellsStayWhole DEF DivisionInv
  <2> QED
    BY <2>2, GroupsAreFinite
<1>4. order \in [1..n -> groups] /\ {order[k] : k \in DOMAIN order} = groups
  <2>1. PICK s \in Bijection(1..n, groups) : TRUE
    BY <1>3, FS_CardinalityType DEF ExistsBijection
  <2>2. s \in [1..n -> groups] /\ {s[k] : k \in DOMAIN s} = groups
    BY <2>1 DEF Bijection, Surjection
  <2> QED
    BY <2>2
<1> HIDE DEF n, order
<1>5. \A f \in Pieces : Its(f) \in 1..n /\ f \in order[Its(f)]
  <2> SUFFICES ASSUME NEW f \in Pieces PROVE Its(f) \in 1..n /\ f \in order[Its(f)]
    OBVIOUS
  <2>1. PICK g \in groups : f \in g
    BY <1>3 DEF Divides
  <2>2. PICK k \in DOMAIN order : order[k] = g
    BY <1>4
  <2> QED
    BY <1>4, <2>1, <2>2
<1>6. \A f \in Pieces : room'[f] = Numbered(given)[Its(f)]
  BY <1>1 DEF SetRooms, PlacesInv, RoomsAreTheirs
<1> HIDE DEF Its
<1> SUFFICES ASSUME \A k \in DOMAIN given : Len(given[k]) = 1, NEW p \in Pieces, NEW q \in Pieces
             PROVE  room'[p] = room'[q] <=> Together(p, q)
  BY <1>1, <1>2 DEF NamesInv, OneWordEach, RoomsAreGroups, Together
<1>7. ASSUME room'[p] = room'[q] PROVE Together(p, q)
  <2>1. Its(p) \in 1..n /\ Its(q) \in 1..n /\ Numbered(given)[Its(p)] = Numbered(given)[Its(q)]
    BY <1>5, <1>6, <1>7
  <2>2. ~(Its(p) < Its(q)) /\ ~(Its(q) < Its(p))
    BY <1>3, <2>1, NumberedAreApart
  <2>3. Its(p) = Its(q)
    BY <1>3, <2>1, <2>2
  <2>4. order[Its(p)] \in groups /\ {p, q} \subseteq order[Its(p)]
    BY <1>4, <1>5, <2>3
  <2> QED
    BY <2>4 DEF Together
<1>8. ASSUME Together(p, q) PROVE room'[p] = room'[q]
  <2>1. \A g \in groups : p \in g <=> q \in g
    BY <1>3, <1>8 DEF Divides, Together
  <2>2. \A k \in DOMAIN order : p \in order[k] <=> q \in order[k]
    BY <1>4, <2>1
  <2>3. Its(p) = Its(q)
    BY <2>2 DEF Its
  <2> QED
    BY <1>6, <2>3
<1> QED
  BY <1>7, <1>8

LEMMA NamesStay ==
    /\ GraphInit => NamesInv
    /\ PlacesInv /\ DivisionInv /\ NamesInv /\ [GraphNext]_scene => NamesInv'
<1>1. GraphInit => NamesInv
  BY DEF GraphInit, NamesInv, OneWordEach
<1>2. ASSUME PlacesInv, DivisionInv, NamesInv, [GraphNext]_scene PROVE NamesInv'
  <2>1. CASE Name
    BY <1>2, <2>1, NamesDivide
  <2>2. CASE Assign
    BY <2>2 DEF Assign, NamesInv, OneWordEach
  <2>3. CASE RecordObject
    <3>1. groups' = groups /\ answer' = answer
      BY <2>3 DEF RecordObject, Counted, fixed
    <3>2. \A p \in Pieces : room'[p] = room[p]
      <4>1. PICK o \in Objects : \E r : room' = [room EXCEPT ![o] = r]
        BY <2>3 DEF RecordObject
      <4>2. PICK r : room' = [room EXCEPT ![o] = r]
        BY <4>1
      <4>3. o \notin Pieces
        BY SceneGraphAssumption DEF SceneGraphAssumption
      <4> QED
        BY <1>2, <4>2, <4>3 DEF PlacesInv, RoomsAreTheirs
    <3> QED
      BY <1>2, <3>1, <3>2 DEF NamesInv, OneWordEach, RoomsAreGroups, Together
  <2>4. CASE UNCHANGED scene
    BY <1>2, <2>4 DEF scene, NamesInv, OneWordEach, RoomsAreGroups, Together
  <2> QED
    BY <1>2, <2>1, <2>2, <2>3, <2>4 DEF GraphNext
<1> QED
  BY <1>1, <1>2

(* The pieces nearest to a piece stand at its cell.                        *)
LEMMA NearestIsHere ==
    ASSUME DivisionInv, NEW p \in Pieces
    PROVE  \E q \in Pieces : RoomAt(p) = room[q] /\ Together(p, q)
<1> DEFINE S == {q \in Pieces : \A r \in Pieces : matrix[p][q] <= matrix[p][r]}
<1>1. PICK seed : Stand(matrix, seed)
  BY DEF DivisionInv
<1>2. CellsWhole(groups, seed)
  <2>1. matrix \in Matrices /\ spacing \in Nat /\ groups = Partition(matrix, spacing)
    BY SceneGraphAssumption DEF SceneGraphAssumption, DivisionInv
  <2> QED
    BY <1>1, <2>1, CellsStayWhole
<1>3. matrix[p][p] = 0 /\ \A q \in Pieces : matrix[p][q] \in Nat
  BY <1>1 DEF Stand, DivisionInv, Matrices
<1>4. p \in S /\ \A q \in S : matrix[p][q] = 0
  BY <1>3
<1>5. S \subseteq Nat /\ S \subseteq Pieces
  BY SceneGraphAssumption DEF SceneGraphAssumption
<1> HIDE DEF S
<1>6. Min(S) \in S
  BY <1>4, <1>5, MinIsOne
<1>7. Together(p, Min(S))
  <2>1. seed[p] = seed[Min(S)] /\ Min(S) \in Pieces
    BY <1>1, <1>4, <1>5, <1>6 DEF Stand
  <2> QED
    BY <1>2, <2>1 DEF CellsWhole, Together
<1> QED
  BY <1>5, <1>6, <1>7 DEF RoomAt, S

(* "the division and the question disagree in every doorway"               *)
(* (rooms.room_at) they do not: whoever stands at a piece of furniture is  *)
(* in its room, and groups have names of their own (deepseek.name).        *)
THEOREM DivisionIsNamed == GraphSpec => []DivisionIsKept
<1> DEFINE IInv == PlacesInv /\ DivisionInv /\ NamesInv
<1>1. GraphInit => IInv
  BY BuiltInPlace, DivisionStays, NamesStay
<1>2. IInv /\ [GraphNext]_scene => IInv'
  BY PlacesStay, DivisionStays, NamesStay
<1>3. IInv => DivisionIsKept
  <2> SUFFICES ASSUME DivisionInv, NamesInv, OneWordEach, NEW p \in Pieces
               PROVE  /\ RoomAt(p) = room[p]
                      /\ \A q \in Pieces :
                           room[p] = room[q] <=> \E g \in groups : {p, q} \subseteq g
    BY DEF DivisionIsKept, OneWordEach
  <2>1. RoomsAreGroups
    BY DEF NamesInv
  <2>2. PICK q \in Pieces : RoomAt(p) = room[q] /\ Together(p, q)
    BY NearestIsHere
  <2>3. RoomAt(p) = room[p]
    BY <2>1, <2>2 DEF RoomsAreGroups
  <2> QED
    BY <2>1, <2>3 DEF RoomsAreGroups, Together
<1> QED
  BY <1>1, <1>2, <1>3, PTL DEF GraphSpec
=============================================================================
