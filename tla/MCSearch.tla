------------------------------ MODULE MCSearch ------------------------------
(* Three pieces on a line, with a spot of open floor next to each. *)
EXTENDS Search, TLC
CONSTANTS f1, f2, f3
Pieces == {f1, f2, f3}
Line == 0..4
Stands == (f1 :> 0) @@ (f2 :> 2) @@ (f3 :> 4)
=============================================================================
