--------------------------- MODULE MCModelServer ---------------------------
(* Two processes, as the mission and its pick, and the default queue of    *)
(* two: calls given up fill it, and a crash empties it.                    *)
EXTENDS ModelServer, TLC
CONSTANTS c1, c2
Both == {c1, c2}
=============================================================================
