------------------------------ MODULE MCViews ------------------------------
(* Three poses around a surface of four samples, two of which are a step   *)
(* of coverage; each pose stands on clear floor, near a mark that may go,  *)
(* behind a mark, on floor the map never saw, before such floor that the   *)
(* costmap calls lethal, behind a wall, or in furniture.                   *)
EXTENDS Views
Kinds == {{}, {1, 2}, {2, 3}, {1, 2, 3, 4}}
Seen0 == [saved |-> 0, cost |-> 0]
Near == [saved |-> 0, cost |-> Inscribed]
Hit == [saved |-> 0, cost |-> Lethal]
Unseen == [saved |-> Unknown, cost |-> Lethal]
Beamed == [saved |-> Unknown, cost |-> 0]
Wall == [saved |-> Lethal, cost |-> Lethal]
At(floor, sight) == [floor |-> floor, line |-> [i \in Points |-> sight], furniture |-> FALSE]
Floors == {At(Seen0, Near), At(Near, Near), At(Seen0, Hit), At(Beamed, Near),
           At(Seen0, Unseen), At(Seen0, Wall), [At(Seen0, Near) EXCEPT !.furniture = TRUE]}
=============================================================================
