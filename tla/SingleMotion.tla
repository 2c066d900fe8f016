---------------------------- MODULE SingleMotion ----------------------------
(***************************************************************************)
(* What a caller of Navigator.drive_to is promised: it asks for one motion *)
(* at a time, and when it is answered the robot stands still and the       *)
(* answer is true.  If the promise cannot be kept the call raises instead, *)
(* the run ends, and nothing is promised of the robot.                     *)
(***************************************************************************)
VARIABLES
  caller,  \* "free", "waiting", or "ended"
  robot,   \* "still", "moving", or "arrived": still, where it was sent
  heard    \* the answer of the last call

Init == caller = "free" /\ robot = "still" /\ heard = FALSE

Ask ==
  /\ caller = "free"
  /\ caller' = "waiting"
  /\ robot' = "still"
  /\ UNCHANGED heard

Move ==
  /\ caller # "free"
  /\ robot = "still"
  /\ robot' = "moving"
  /\ UNCHANGED <<caller, heard>>

Halt ==
  /\ robot = "moving"
  /\ robot' \in {"still", "arrived"}
  /\ UNCHANGED <<caller, heard>>

\* True only of a robot that arrived; False also of one that did, when the
\* measured pose says otherwise.
Answer ==
  /\ caller = "waiting"
  /\ robot # "moving"
  /\ heard' \in {FALSE, robot = "arrived"}
  /\ caller' = "free"
  /\ UNCHANGED robot

Raise == caller # "ended" /\ caller' = "ended" /\ UNCHANGED <<robot, heard>>

Next == Ask \/ Move \/ Halt \/ Answer \/ Raise

Spec == Init /\ [][Next]_<<caller, robot, heard>>
=============================================================================
