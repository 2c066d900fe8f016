---------------------------- MODULE MCSceneGraph ----------------------------
(* Two rooms with a door between them; the same without the door, so that  *)
(* one of them is no floor; a diagonal wall.  A bin stands in the first.   *)
EXTENDS SceneGraph

CONSTANTS office, kitchen

F == "free"
O == "occupied"
U == "unknown"

Door ==
    << <<U, U, U, U, U, U, U>>,
       <<U, F, F, O, F, F, U>>,
       <<U, O, F, O, F, F, U>>,
       <<U, F, F, O, F, F, U>>,
       <<U, F, F, F, F, F, U>>,
       <<U, U, U, U, U, U, U>> >>
Shut ==
    << <<U, U, U, O, U, U, U>>,
       <<U, F, F, O, F, F, U>>,
       <<U, F, F, O, F, F, U>>,
       <<U, F, F, O, F, F, U>>,
       <<U, F, F, O, U, U, U>>,
       <<U, U, U, O, U, U, U>> >>
Diagonal ==
    << <<O, U, U, U, U, U, U>>,
       <<U, O, F, F, F, F, U>>,
       <<U, F, O, F, F, F, U>>,
       <<U, F, F, O, F, F, U>>,
       <<U, F, F, F, O, F, U>>,
       <<U, U, U, U, U, O, U>> >>

MCImages == {Door, Shut, Diagonal}
MCPieces == 1..3
MCSpots == {<<2, 2>>, <<2, 3>>, <<2, 5>>, <<4, 2>>, <<5, 4>>}
MCPlacements ==
    {<<<<2, 2>>, <<2, 3>>, <<2, 5>>>>, <<<<2, 2>>, <<5, 4>>, <<2, 5>>>>,
     <<<<2, 5>>, <<2, 2>>, <<2, 5>>>>, <<<<5, 4>>, <<2, 5>>, <<2, 3>>>>,
     <<<<2, 2>>, <<4, 2>>, <<5, 4>>>>, <<<<5, 4>>, <<4, 2>>, <<2, 2>>>>}
MCBoxes == {[plan |-> {<<2, 2>>, <<2, 3>>}, low |-> 0, high |-> 4],
            [plan |-> {<<2, 2>>}, low |-> 3, high |-> 5]}
Table == [plan |-> {<<2, 2>>, <<2, 3>>}, low |-> 0, high |-> 4]
Shelf == [plan |-> {<<2, 2>>, <<2, 3>>}, low |-> 0, high |-> 9]
Sofa == [plan |-> {<<2, 5>>}, low |-> 0, high |-> 3]
MCShapes == {<<Table, Shelf, Sofa>>, <<Sofa, Sofa, Table>>, <<Shelf, Sofa, Sofa>>}
MCNames == {<<office>>, <<kitchen>>, <<office, 2>>}
MCSpacings == {10, 14, 24}
=============================================================================
