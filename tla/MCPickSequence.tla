--------------------------- MODULE MCPickSequence ---------------------------
(* A pick that leaves something behind, a recovery or a second pick, and one *)
(* more pick after it.                                                       *)
EXTENDS PickSequence
=============================================================================
