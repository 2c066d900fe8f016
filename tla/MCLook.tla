------------------------------- MODULE MCLook -------------------------------
(* Two samples and up to four poses: a pose can show nothing, a part that   *)
(* another shows too, or everything, with poses left past either budget.    *)
EXTENDS Look
CONSTANTS s1, s2
Surface == {s1, s2}
=============================================================================
