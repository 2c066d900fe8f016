------------------------------ MODULE MCVision ------------------------------
(* Two receivers at one transmitter: one may end its demand under the      *)
(* other's, and a message of either may be lost.                           *)
EXTENDS Vision
CONSTANTS r1, r2
Both == {r1, r2}
=============================================================================
