----------------------------- MODULE SceneGraph -----------------------------
(***************************************************************************)
(* The scene graph (core/scene_graph/graph.py, relations.py): objects are  *)
(* attached to furniture by geometry when it is built, and by whoever saw  *)
(* them afterwards; rooms are divided by the map and named by DeepSeek     *)
(* (core/reasoner/deepseek.py), or guessed by it when there is no map.     *)
(***************************************************************************)
EXTENDS Rooms, Sequences

CONSTANTS
    Images,         \* maps: rows of "free", "occupied" and "unknown" cells
    Pieces, Objects,  \* the nodes, by number: furniture, and objects
    Built,          \* the objects of the first build; searches add the others
    Spots,          \* cells furniture may be centred at
    Placements,     \* where the pieces may stand, each at one of the spots
    Boxes,          \* boxes an object may have
    Shapes,         \* boxes the pieces may have
    Words, Names,   \* words, and room names DeepSeek may give: of words and numbers
    Spacings,       \* distances at which furniture stops to share a room
    MaxCalls,       \* bound: calls on the graph
    Gap, Tolerance, \* relations.classify: what counts as touching, as within
    NearLimit       \* and as near, squared

(* A box has cells of the floor plan under it, a bottom and a top. *)
Box == [plan : (SUBSET Cells) \ {{}}, low : Int, high : Int]

ASSUME SceneGraphAssumption ==
    /\ Pieces \subseteq Nat /\ IsFiniteSet(Pieces)
    /\ \E p, q \in Pieces : p # q  \* linkage raises for a single piece
    /\ Objects \subseteq Nat \ Pieces
    /\ Built \subseteq Objects /\ Spots \subseteq Cells
    /\ Placements \subseteq [Pieces -> Spots]
    /\ Names \subseteq Seq(Words \cup Nat)
    /\ Boxes \subseteq Box /\ Shapes \subseteq [Pieces -> Box] /\ Spacings \subseteq Nat
    /\ \A image \in Images : Space(image) # {}  \* floor raises without any
    /\ MaxCalls \in Nat /\ Gap \in Nat /\ Tolerance \in Nat /\ NearLimit \in Nat

None == <<>>
Relations == {"on", "in", "near"}

VARIABLES
    shape,          \* the box of each piece
    matrix,         \* distances between them along the floor
    spacing,        \* --room-spacing
    groups,         \* partition's: who shares a room
    objects,        \* the objects in the graph
    edges,          \* the places of each
    room,           \* the room of every node; None before there is one
    answer,         \* DeepSeek's last names for groups, if the map divided them
    calls

scene == <<shape, matrix, spacing, groups, objects, edges, room, answer, calls>>
fixed == <<shape, matrix, spacing, groups>>

(* distances: between the floor cells the pieces stand at. *)
Floors == [image \in Images |-> Floor(image)]
Seeds == [image \in Images |-> [s \in Spots |-> Snapped(Floors[image], s)]]
Ways == [image \in Images |-> [s \in Spots |-> Walk(Floors[image], Seeds[image][s])]]
Distances(image, at) ==
    [p \in Pieces |-> [q \in Pieces |-> Ways[image][at[p]][Seeds[image][at[q]]]]]

(***************************************************************************)
(* relations.classify: support first, containment second, proximity last.  *)
(***************************************************************************)
Over(o, f) == Cardinality(o.plan \cap f.plan)
Overlaps(o, f) == 5 * Over(o, f) >= 2 * Cardinality(o.plan)
Carries(o, f) == Overlaps(o, f) /\ Distance(o.low, f.high) <= Gap
Contains(o, f) ==
    Overlaps(o, f) /\ o.low >= f.low - Tolerance /\ o.high <= f.high + Tolerance
Volume(f) == Cardinality(f.plan) * (f.high - f.low)
Middle(o) == CHOOSE c \in o.plan : TRUE
Beyond(c, f) ==
    Min({Square(Rows(c, g)) + Square(Columns(c, g)) : g \in f.plan})

(* The lowest number of the best. *)
Best(S, Better(_, _)) == Min({f \in S : \A g \in S : Better(f, g)})

Classify(o) ==
    LET on == {f \in Pieces : Carries(o, shape[f])}
        in == {f \in Pieces : Contains(o, shape[f])}
        near == {f \in Pieces : Beyond(Middle(o), shape[f]) <= NearLimit}
        MoreOver(f, g) == Over(o, shape[f]) >= Over(o, shape[g])
        Smaller(f, g) == Volume(shape[f]) <= Volume(shape[g])
        Nearer(f, g) == Beyond(Middle(o), shape[f]) <= Beyond(Middle(o), shape[g])
    IN  IF on # {} THEN {<<Best(on, MoreOver), "on">>}
        ELSE IF in # {} THEN {<<Best(in, Smaller), "in">>}
        ELSE IF near # {} THEN {<<Best(near, Nearer), "near">>}
        ELSE {}

(* build, with the walls left out, and no rooms yet. *)
GraphInit ==
    /\ \E image \in Images, at \in Placements : matrix = Distances(image, at)
    /\ shape \in Shapes /\ spacing \in Spacings
    /\ groups = Partition(matrix, spacing)
    /\ objects = Built
    /\ \E box \in [Built -> Boxes] :
        edges = [o \in Objects |-> IF o \in Built THEN Classify(box[o]) ELSE {}]
    /\ room = [n \in Pieces \cup Objects |-> None]
    /\ answer = <<>> /\ calls = 0

(***************************************************************************)
(* set_rooms: the furniture's rooms, then those of what belongs to it.     *)
(***************************************************************************)
At(o) == {e[1] : e \in edges[o]}
SetRooms(rooms) ==
    [n \in DOMAIN room |->
        IF n \in Pieces THEN rooms[n]
        ELSE IF n \in objects /\ At(n) # {} THEN rooms[CHOOSE f \in At(n) : TRUE] ELSE room[n]]

(* deepseek.name: a repeated name gets its number, in the groups' order.   *)
(* Variant: names as they were given. *)
AsGiven(given) == given
Numbered(given) ==
    [k \in DOMAIN given |->
        LET before == Cardinality({j \in 1..k : given[j] = given[k]})
        IN  IF before = 1 THEN given[k] ELSE Append(given[k], before)]

Counted == /\ calls < MaxCalls /\ calls' = calls + 1 /\ UNCHANGED fixed

(* The rooms are named once, if at all: when the graph was built, before   *)
(* it is saved and any search records in it.                               *)
BeforeSave == calls = 0

(* With a map. *)
Name ==
    /\ BeforeSave /\ Counted
    /\ LET order == CHOOSE s \in [1..Cardinality(groups) -> groups] :
                        {s[k] : k \in DOMAIN s} = groups
       IN  \E given \in [1..Cardinality(groups) -> Names] :
            LET names == Numbered(given)
            IN  /\ room' = SetRooms([f \in Pieces |->
                                names[CHOOSE k \in DOMAIN order : f \in order[k]]])
                /\ answer' = given
    /\ UNCHANGED <<objects, edges>>

(* Without one. *)
Assign ==
    /\ BeforeSave /\ Counted
    /\ \E rooms \in [Pieces -> Names] : room' = SetRooms(rooms)
    /\ answer' = <<>>
    /\ UNCHANGED <<objects, edges>>

(* record_object: a new node, or an update, at a place or at none. *)
(* Variant: the old place stays. *)
AlsoAt(o, e) == [edges EXCEPT ![o] = @ \cup e]
OnlyAt(o, e) == [edges EXCEPT ![o] = e]
RecordObject ==
    /\ Counted
    /\ \E o \in Objects :
        /\ objects' = objects \cup {o}
        /\ \/ \E f \in Pieces, relation \in Relations :
                /\ edges' = OnlyAt(o, {<<f, relation>>})
                /\ room' = [room EXCEPT ![o] = room[f]]
           \/ edges' = OnlyAt(o, {}) /\ room' = [room EXCEPT ![o] = None]
    /\ UNCHANGED answer

GraphNext == Name \/ Assign \/ RecordObject

GraphSpec == GraphInit /\ [][GraphNext]_scene

(* room_at, asked at a piece of furniture: the room of the nearest piece,  *)
(* of equals the first.                                                    *)
RoomAt(p) ==
    room[Min({q \in Pieces : \A r \in Pieces : matrix[p][q] <= matrix[p][r]})]

(***************************************************************************)
(* Properties.                                                             *)
(***************************************************************************)
(* An object is in one place at most, however often it is seen again at    *)
(* another, and in the room of that place, the rooms being named or not    *)
(* (record_object, set_rooms): location_of and the prompts take the first. *)
(* That holds of a place it is only near, too: see NearHasNoRoom.          *)
OnePlaceOneRoom ==
    \A o \in objects :
        /\ Cardinality(edges[o]) <= 1
        /\ \A f \in At(o) : room[o] = room[f]

(* "the division and the question disagree in every doorway"               *)
(* (rooms.room_at) they must not: whoever stands at a piece of furniture   *)
(* is in the room of that piece, also when another one snaps to the same   *)
(* floor; and rooms that the map keeps apart stay apart when DeepSeek      *)
(* gives a name twice, as long as it numbers none itself.                  *)
DivisionIsKept ==
    answer # <<>> /\ (\A k \in DOMAIN answer : Len(answer[k]) = 1) =>
        \A p \in Pieces :
            /\ RoomAt(p) = room[p]
            /\ \A q \in Pieces :
                room[p] = room[q] <=> \E g \in groups : {p, q} \subseteq g

(* A larger spacing only joins rooms: the counts of `sweep' fall, and a    *)
(* plateau of one count is one division of the floor.                      *)
LargerJoins ==
    calls = 0 => \A s \in Spacings : s > spacing =>
        \A g \in groups : \E h \in Partition(matrix, s) : g \subseteq h

(* "an object with no on/in edge stays null" (core/scene_graph/README.md,  *)
(* of the room).  The code breaks it: set_rooms and record_object give one *)
(* that is near a piece that piece's room.                                 *)
NearHasNoRoom ==
    \A o \in objects : (\A e \in edges[o] : e[2] = "near") => room[o] = None

(* "the repeats are numbered apart" (deepseek.py:89-90).  The code breaks  *)
(* it: "office", "office" and an "office 2" of DeepSeek's own make two.    *)
NumberedApart ==
    answer # <<>> => \A p, q \in Pieces :
        room[p] = room[q] => \E g \in groups : {p, q} \subseteq g

(* "a wall one cell thick must not leak through its diagonals"             *)
(* (rooms.py:41).  The code breaks it: the floor's own diagonal steps go   *)
(* between two cells of a diagonal wall.                                   *)
WallsHold(image) ==
    \A a, b \in Floor(image) : Touching(a, b) /\ ~InLine(a, b) =>
        ~({<<a[1], b[2]>>, <<b[1], a[2]>>} \subseteq Walls(image))
DiagonalsHold == \A image \in Images : WallsHold(image)
=============================================================================
