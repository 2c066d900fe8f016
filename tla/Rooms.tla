-------------------------------- MODULE Rooms --------------------------------
(***************************************************************************)
(* Rooms from the occupancy map (core/scene_graph/rooms.py): the walls are *)
(* the long blobs of occupied cells, the floor the largest connected piece *)
(* of what is left, and furniture is grouped by how far apart it is along  *)
(* that floor.  Lengths are in fifths of a cell: a diagonal step is 7.     *)
(***************************************************************************)
EXTENDS Integers, FiniteSets, FiniteSetsExt

CONSTANTS
    Height, Width,  \* of the map, in cells
    WallSpan        \* blobs longer than this many cells are walls

ASSUME RoomsAssumption == Height \in Nat \ {0} /\ Width \in Nat \ {0} /\ WallSpan \in Nat

Cells == (1..Height) \X (1..Width)
Distance(m, n) == IF m > n THEN m - n ELSE n - m
Rows(a, b) == Distance(a[1], b[1])
Columns(a, b) == Distance(a[2], b[2])
Touching(a, b) == a # b /\ Rows(a, b) <= 1 /\ Columns(a, b) <= 1
InLine(a, b) == Rows(a, b) + Columns(a, b) = 1
Infinity == 1000000

(* F at x; TLC computes both once. *)
Of(F(_), x) == CHOOSE y \in {F(v) : v \in {x}} : y = y

(* What can be reached from a within the set. *)
Component(within, a) ==
    LET Wider(before) == before \cup {b \in within : \E c \in before : Touching(b, c)}
        reached[n \in Nat] == IF n = 0 THEN {a} ELSE Of(Wider, reached[n - 1])
    IN  reached[Cardinality(within)]
Components(within) == Of(LAMBDA cells : {Component(cells, a) : a \in cells}, within)

Cellwise(image, kind) == {c \in Cells : image[c[1]][c[2]] = kind}

(* walls: a blob's longest side says whether it is a wall or a chair leg. *)
Long(blob) == \E a, b \in blob : Rows(a, b) > WallSpan \/ Columns(a, b) > WallSpan
Walls(image) == UNION {blob \in Components(Cellwise(image, "occupied")) : Long(blob)}

(* binary_closing by 3 x 3 cells; outside the map nothing is set. *)
Dilated(S) == {c \in Cells : \E s \in S : c = s \/ Touching(c, s)}
Eroded(S) ==
    {c \in S : \A dr \in -1..1, dc \in -1..1 : <<c[1] + dr, c[2] + dc>> \in S}
Closed(S) == Eroded(Dilated(S))

(* floor: unknown cells are none, clutter standing in a room is. *)
Space(image) ==
    (Closed(Cellwise(image, "free")) \cup Cellwise(image, "occupied")) \ Walls(image)
(* The cell that is numbered first. *)
First(S) == CHOOSE a \in S : \A b \in S : a[1] < b[1] \/ (a[1] = b[1] /\ a[2] <= b[2])
Largest(pieces) ==
    CHOOSE p \in pieces : \A q \in pieces :
        \/ Cardinality(p) > Cardinality(q)
        \/ Cardinality(p) = Cardinality(q)
           /\ LET a == First(p) b == First(q) IN a[1] < b[1] \/ (a[1] = b[1] /\ a[2] <= b[2])
Floor(image) == Of(Largest, Components(Space(image)))

(* _cell: the floor beside a point that is not on it. *)
Square(n) == n * n
Snapped(floor, c) ==
    CHOOSE f \in floor : \A g \in floor :
        Square(f[1] - c[1]) + Square(f[2] - c[2]) <= Square(g[1] - c[1]) + Square(g[2] - c[2])

(* _grid_graph and dijkstra: shortest ways over touching floor cells. *)
Step(a, b) == IF InLine(a, b) THEN 5 ELSE 7
Walk(floor, a) ==
    LET Shorter(before) ==
            [c \in floor |->
                Min({before[c]} \cup {before[b] + Step(b, c) : b \in {f \in floor : Touching(f, c)}})]
        far[n \in Nat] ==
            IF n = 0 THEN [c \in floor |-> IF c = a THEN 0 ELSE Infinity]
            ELSE Of(Shorter, far[n - 1])
    IN  far[Cardinality(floor)]

(* partition: the two groups with the least mean distance are merged until *)
(* that is more than the spacing (average linkage, cut at a distance).     *)
Sum2(matrix, A, B) ==
    MapThenSumSet(LAMBDA pair : matrix[pair[1]][pair[2]], A \X B)
Closer(matrix, x, y) ==
    Sum2(matrix, x[1], x[2]) * Cardinality(y[1]) * Cardinality(y[2])
        <= Sum2(matrix, y[1], y[2]) * Cardinality(x[1]) * Cardinality(x[2])
Within(matrix, pair, spacing) ==
    Sum2(matrix, pair[1], pair[2]) <= spacing * Cardinality(pair[1]) * Cardinality(pair[2])
Merged(matrix, spacing, groups) ==
    LET pairs == {x \in groups \X groups : x[1] # x[2]}
        nearest == {x \in pairs : \A y \in pairs : Closer(matrix, x, y)}
        joined == CHOOSE x \in nearest : TRUE
    IN  IF pairs = {} \/ ~Within(matrix, joined, spacing) THEN groups
        ELSE (groups \ {joined[1], joined[2]}) \cup {joined[1] \cup joined[2]}
Partition(matrix, spacing) ==
    LET Merge(groups) == Merged(matrix, spacing, groups)
        merged[n \in Nat] ==
            IF n = 0 THEN {{p} : p \in DOMAIN matrix} ELSE Of(Merge, merged[n - 1])
    IN  merged[Cardinality(DOMAIN matrix)]
=============================================================================
