----------------------------- MODULE MCApproach -----------------------------
(* Two base poses, three calls and two drives: a call can meet what two    *)
(* earlier ones left in the controller, in its queue of requests or under  *)
(* way.                                                                    *)
EXTENDS Approach
=============================================================================
