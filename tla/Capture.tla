------------------------------ MODULE Capture ------------------------------
(***************************************************************************)
(* core/perception/camera_ros2.grab_rgbd: one synchronized colour and      *)
(* depth image for a caller that has just turned the head or parked the    *)
(* base, over a transport that loses, delays and reorders images.          *)
(***************************************************************************)
EXTENDS Naturals

CONSTANTS
    MaxTime,        \* bound: the time that is modelled
    MaxCalls,       \* bound: captures, one after another
    Slop            \* how far apart in time the images of a pair may be

ASSUME CaptureAssumption == {MaxTime, MaxCalls, Slop} \subseteq Nat

VARIABLES
    now,
    sim,            \* use_sim_time
    underWay,       \* the images under way, by kind: the times they were taken
    queue,          \* the synchronizer's images
    frames,         \* the newest pair, if any
    info,           \* whether the calibration came
    tf,             \* the times between which the camera's pose can be looked up
    capture_start,  \* what the clock said as the capture began
    called,         \* history: when that was
    phase,          \* "idle", "capturing", "returned" or "raised"
    calls

node == <<queue, frames, info, tf, capture_start>>
grabbing == <<now, sim, underWay, node, called, phase, calls>>

Kinds == {"rgb", "depth"}
Other(k) == IF k = "rgb" THEN "depth" ELSE "rgb"
NoPair == [rgb |-> 0, depth |-> 0]
NoTf == [from |-> 0, to |-> 0]
Times == 1..MaxTime

CaptureInit ==
    /\ now = 1
    /\ sim \in BOOLEAN
    /\ underWay = [k \in Kinds |-> {}]
    /\ queue = [k \in Kinds |-> {}] /\ frames = NoPair /\ info = FALSE /\ tf = NoTf
    /\ capture_start = 0 /\ called = 0
    /\ phase = "idle" /\ calls = 0

(* The camera takes an image of each kind; either may be lost at once. *)
Tick ==
    /\ now < MaxTime /\ now' = now + 1
    /\ \E sent \in SUBSET Kinds :
           underWay' = [k \in Kinds |-> underWay[k] \cup (IF k \in sent THEN {now'} ELSE {})]
    /\ UNCHANGED <<sim, node, called, phase, calls>>

(* An image that nobody subscribes to, or that is lost on its way. *)
Lose(k, t) ==
    /\ t \in underWay[k] /\ phase # "capturing"
    /\ underWay' = [underWay EXCEPT ![k] = @ \ {t}]
    /\ UNCHANGED <<now, sim, node, called, phase, calls>>

(* A new node on simulated time has not heard /clock yet: its time is 0. *)
Clock == IF sim THEN 0 ELSE now

Begin ==
    /\ phase # "capturing" /\ calls < MaxCalls
    /\ phase' = "capturing" /\ calls' = calls + 1
    /\ queue' = [k \in Kinds |-> {}] /\ frames' = NoPair /\ info' = FALSE /\ tf' = NoTf
    /\ capture_start' = Clock /\ called' = now
    /\ UNCHANGED <<now, sim, underWay>>

(* Variant: a pair is new if one of its images is. *)
EitherNew(pair, start) == pair.rgb > start \/ pair.depth > start

New(pair, start) == pair.rgb > start /\ pair.depth > start
Usable(pair, known) ==
    /\ pair # NoPair /\ New(pair, capture_start)
    /\ known.from <= pair.depth /\ pair.depth <= known.to

(* After every callback: the pair is returned, if it can be used by now, or *)
(* refused for its frame, encoding or size.                                *)
Check ==
    /\ phase' \in IF info' /\ Usable(frames', tf') THEN {"returned", "raised"} ELSE {"capturing"}
    /\ UNCHANGED <<now, sim, capture_start, called, calls>>

(* The synchronizer drops what came before a pair together with it. *)
Image(k, t) ==
    /\ phase = "capturing" /\ t \in underWay[k]
    /\ underWay' = [underWay EXCEPT ![k] = @ \ {t}]
    /\ LET partners == { o \in queue[Other(k)] : o <= t + Slop /\ t <= o + Slop }
       IN IF partners = {}
          THEN /\ queue' = [queue EXCEPT ![k] = @ \cup {t}]
               /\ UNCHANGED frames
          ELSE \E o \in partners :
               /\ frames' = IF k = "rgb" THEN [rgb |-> t, depth |-> o]
                            ELSE [rgb |-> o, depth |-> t]
               /\ queue' = [queue EXCEPT ![k] = { i \in @ : i > t }, ![Other(k)] = { i \in @ : i > o }]
    /\ UNCHANGED <<info, tf>>
    /\ Check

Info ==
    /\ phase = "capturing" /\ ~info
    /\ info' = TRUE
    /\ UNCHANGED <<underWay, queue, frames, tf>>
    /\ Check

(* The buffer is as new as the node: it knows nothing from before. *)
Transform(t) ==
    /\ phase = "capturing" /\ t > tf.to /\ t <= now
    /\ tf' = [from |-> IF tf = NoTf THEN t ELSE tf.from, to |-> t]
    /\ UNCHANGED <<underWay, queue, frames, info>>
    /\ Check

DeadlinePasses ==
    /\ phase = "capturing"
    /\ phase' = "raised"
    /\ UNCHANGED <<now, sim, underWay, node, called, calls>>

CaptureNext ==
    \/ Tick \/ Begin \/ Info \/ DeadlinePasses
    \/ \E t \in Times : \/ Transform(t)
                        \/ \E k \in Kinds : Image(k, t) \/ Lose(k, t)

CaptureSpec == CaptureInit /\ [][CaptureNext]_grabbing

(***************************************************************************)
(* Properties.                                                             *)
(***************************************************************************)
SinceTheCall == phase = "returned" => frames.rgb > called /\ frames.depth > called

(* Where the clock is not simulated, both images of a capture were taken   *)
(* after the motion that came before it: an image that was still under way *)
(* as the capture began is no part of what it returns.                     *)
TakenSinceTheCall == ~sim => SinceTheCall

(* The capture says that it rejects images from before it began; under     *)
(* simulated time it compares them with a clock that has not been set.     *)
AlwaysSinceTheCall == SinceTheCall
=============================================================================
