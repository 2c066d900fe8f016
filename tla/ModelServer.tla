----------------------------- MODULE ModelServer -----------------------------
(***************************************************************************)
(* A model server (zenoh_rpc.serve) and the processes that query it: one   *)
(* inference at a time, a short queue, deadlines on both sides, restarts.  *)
(*                                                                         *)
(* `model' is which server this is.  Only SAM3 is waited for, by           *)
(* actions.get_ready; the processes of the others ask at once.  A caller   *)
(* is a place for one process after another: a mission, and its pick.      *)
(***************************************************************************)
EXTENDS Naturals, Sequences, FiniteSets

CONSTANTS
    Models,         \* the servers tried: "sam3", "graspgenx", "vgn"
    Callers,        \* the processes that may query at one time
    MaxCalls,       \* bound: calls made from one caller
    MaxCrashes,     \* bound: crashes of the server
    Capacity        \* MODEL_QUEUE_SIZE

ASSUME ServerAssumption ==
    /\ Models \subseteq {"sam3", "graspgenx", "vgn"}
    /\ IsFiniteSet(Callers)
    /\ MaxCalls \in Nat
    /\ MaxCrashes \in Nat
    /\ Capacity \in Nat \ {0}

VARIABLES
    model,
    server,         \* "down" (also while it loads) or "ready"
    crashes,
    queue,          \* the requests that wait for the worker
    worker,         \* the worker: its request, and how far it is with it
    overdue,        \* the requests at the server whose deadline has passed
    requests,       \* requests under way
    replies,        \* replies under way
    caller,         \* each caller's process, its calls and whether one is open
    inferred        \* history: the processes an open call of which was inferred

vars == <<model, server, crashes, queue, worker, overdue, requests, replies,
          caller, inferred>>
serving == <<server, crashes, queue, worker, overdue>>

Ids == Callers \X (1..MaxCalls)
NoId == <<>>
Idle == [at |-> "idle", id |-> NoId, out |-> "none"]
Current(c) == <<c, caller[c].n>>
(* Whether the query is still open at its caller. *)
Waiting(id) == caller[id[1]].asked /\ Current(id[1]) = id
Held == { queue[k] : k \in DOMAIN queue } \cup ({worker.id} \ {NoId})
(* A reply to a query that is over is dropped by its caller's session. *)
Tell(id, kind) == replies' = IF Waiting(id) THEN replies \cup {[id |-> id, kind |-> kind]}
                             ELSE replies
Hangs(c) == replies' = { r \in replies : r.id # Current(c) }

(* What one inference may give: instances or grasps, none, or an exception *)
(* (bad parameters, a payload that does not decode, an unknown gripper).   *)
Outcomes == {"found", "none", "error"}

(* What the client makes of a reply: SAM3's and VGN's empty answers are    *)
(* answers, GraspGenX's is an error; a refusal and a failed inference      *)
(* raise RuntimeError.                                                     *)
Decoded(kind) ==
    CASE kind = "found" -> "answer"
      [] kind = "none" -> IF model = "graspgenx" THEN "error" ELSE "answer"
      [] OTHER -> "error"

NewProcess == IF model = "sam3" THEN "wait" ELSE "work"

Init ==
    /\ model \in Models
    /\ server = "down"
    /\ crashes = 0
    /\ queue = <<>>
    /\ worker = Idle
    /\ overdue = {}
    /\ requests = {}
    /\ replies = {}
    /\ caller = [c \in Callers |-> [at |-> NewProcess, n |-> 0, asked |-> FALSE]]
    /\ inferred = {}

(***************************************************************************)
(* The server.  Nothing is served before the model is loaded and warm.     *)
(***************************************************************************)
StartServer ==
    /\ server = "down"
    /\ server' = "ready"
    /\ UNCHANGED <<model, crashes, queue, worker, overdue, requests, replies, caller, inferred>>

(* The container restarts; the queue and the inference are gone. *)
CrashServer ==
    /\ server = "ready" /\ crashes < MaxCrashes
    /\ server' = "down"
    /\ crashes' = crashes + 1
    /\ queue' = <<>>
    /\ worker' = Idle
    /\ overdue' = {}
    /\ UNCHANGED <<model, requests, replies, caller, inferred>>

Undelivered(id) ==
    /\ id \in requests /\ server = "down"
    /\ requests' = requests \ {id}
    /\ UNCHANGED <<model, serving, replies, caller, inferred>>

(* Variant: the request at work counts as well. *)
HasRoomForAll == Len(queue) + Cardinality({worker.id} \ {NoId}) < Capacity
HasRoom == Len(queue) < Capacity

Enqueue(id) ==
    /\ id \in requests /\ server = "ready"
    /\ requests' = requests \ {id}
    /\ \/ /\ HasRoom
          /\ queue' = Append(queue, id)
          /\ UNCHANGED replies
       \/ /\ ~HasRoom
          /\ Tell(id, "busy")
          /\ UNCHANGED queue
    /\ UNCHANGED <<model, server, crashes, worker, overdue, caller, inferred>>

(* The deadline counts from the receipt, so it comes after the caller's own. *)
DeadlinePasses(id) ==
    /\ id \in Held \ overdue /\ ~Waiting(id)
    /\ overdue' = overdue \cup {id}
    /\ UNCHANGED <<model, server, crashes, queue, worker, requests, replies, caller, inferred>>

(***************************************************************************)
(* The worker.                                                             *)
(***************************************************************************)
Take ==
    /\ worker.at = "idle" /\ queue # <<>>
    /\ worker' = [Idle EXCEPT !.at = "got", !.id = Head(queue)]
    /\ queue' = Tail(queue)
    /\ UNCHANGED <<model, server, crashes, overdue, requests, replies, caller, inferred>>

Free == worker' = Idle /\ overdue' = overdue \ {worker.id}
(* Variant: an exception in the handler ends the worker's thread. *)
Survives(out) == IF out = "error"
                 THEN worker' = [worker EXCEPT !.at = "dead"] /\ UNCHANGED overdue
                 ELSE Free
Release(out) == Free

Expired ==
    /\ worker.at \in {"got", "inferred"} /\ worker.id \in overdue
    /\ Tell(worker.id, "timeout")
    /\ Free
    /\ UNCHANGED <<model, server, crashes, queue, requests, caller, inferred>>

Infer ==
    /\ worker.at = "got" /\ worker.id \notin overdue
    /\ \E out \in Outcomes \ {"error"} :
        worker' = [worker EXCEPT !.at = "inferred", !.out = out]
    /\ inferred' = inferred \cup { c \in Callers : worker.id = Current(c) /\ Waiting(worker.id) }
    /\ UNCHANGED <<model, server, crashes, queue, overdue, requests, replies, caller>>

InferenceFails ==
    /\ worker.at = "got" /\ worker.id \notin overdue
    /\ Tell(worker.id, "error")
    /\ Release("error")
    /\ UNCHANGED <<model, server, crashes, queue, requests, caller, inferred>>

Reply ==
    /\ worker.at = "inferred" /\ worker.id \notin overdue
    /\ Tell(worker.id, worker.out)
    /\ Release(worker.out)
    /\ UNCHANGED <<model, server, crashes, queue, requests, caller, inferred>>

Worker == Take \/ Expired \/ Infer \/ InferenceFails \/ Reply

(***************************************************************************)
(* A caller's process: get_ready's wait for SAM3, then its calls.          *)
(***************************************************************************)
Ask(c) ==
    /\ caller[c].at \in {"wait", "work"} /\ ~caller[c].asked
    /\ caller[c].n < MaxCalls
    /\ caller' = [caller EXCEPT ![c].n = @ + 1, ![c].asked = TRUE]
    /\ requests' = requests \cup {<<c, caller[c].n + 1>>}
    /\ UNCHANGED <<model, serving, replies, inferred>>

(* Variant: any reply shows that the server is there. *)
AnyReplyWillDo(at, what) == IF at = "wait" THEN "work" ELSE at
(* Where the process goes after a call: the wait is over with an answer,   *)
(* also one that found nothing, and goes on after a RuntimeError.          *)
After(at, what) == IF at = "wait" /\ what = "answer" THEN "work" ELSE at

Receive(c) ==
    /\ caller[c].asked
    /\ \E r \in replies :
        /\ r.id = Current(c)
        /\ replies' = replies \ {r}
        /\ caller' = [caller EXCEPT ![c].asked = FALSE,
                                    ![c].at = After(@, Decoded(r.kind))]
    /\ UNCHANGED <<model, serving, requests, inferred>>

(* No reply in time, or nobody to ask: query raises TimeoutError, which    *)
(* get_ready's `except RuntimeError' lets through.                         *)
GiveUp(c) ==
    /\ caller[c].asked
    /\ caller' = [caller EXCEPT ![c].asked = FALSE,
                                ![c].at = IF @ = "wait" THEN "failed" ELSE "over"]
    /\ Hangs(c)
    /\ UNCHANGED <<model, serving, requests, inferred>>

(* The process ends at any point: its work is done, the startup deadline   *)
(* has passed, or it was interrupted.                                      *)
Ends(c) ==
    /\ caller[c].at \in {"wait", "work"}
    /\ caller' = [caller EXCEPT ![c].at = "over", ![c].asked = FALSE]
    /\ Hangs(c)
    /\ UNCHANGED <<model, serving, requests, inferred>>

Restart(c) ==
    /\ caller[c].at \in {"over", "failed"} /\ caller[c].n < MaxCalls
    /\ caller' = [caller EXCEPT ![c].at = NewProcess]
    /\ inferred' = inferred \ {c}
    /\ UNCHANGED <<model, serving, requests, replies>>

Caller(c) == Ask(c) \/ Receive(c) \/ GiveUp(c) \/ Ends(c) \/ Restart(c)

Next ==
    \/ StartServer \/ CrashServer \/ Worker
    \/ \E id \in Ids : Undelivered(id) \/ Enqueue(id) \/ DeadlinePasses(id)
    \/ \E c \in Callers : Caller(c)

(* The worker's thread runs while the server does, and inferences end. *)
Spec == Init /\ [][Next]_vars /\ WF_vars(Worker)

(***************************************************************************)
(* Properties.                                                             *)
(***************************************************************************)
(* The type of the state; the queue never outgrows its size, and no        *)
(* request is at the server twice.                                         *)
TypeOK ==
    /\ model \in Models /\ server \in {"down", "ready"} /\ crashes \in 0..MaxCrashes
    /\ Len(queue) <= Capacity /\ \A k \in DOMAIN queue : queue[k] \in Ids
    /\ worker \in [at : {"idle", "got", "inferred"}, id : Ids \cup {NoId}, out : Outcomes]
    /\ overdue \subseteq Held /\ requests \subseteq Ids /\ inferred \subseteq Callers
    /\ Cardinality(Held) = Len(queue) + Cardinality({worker.id} \ {NoId})
    /\ \A r \in replies : r.id \in Ids /\ r.kind \in Outcomes \cup {"busy", "timeout"}
    /\ caller \in [Callers -> [at : {"wait", "work", "failed", "over"}, n : 0..MaxCalls,
                               asked : BOOLEAN]]

(* SAM3 counts as ready only after an inference that succeeded for a call  *)
(* of this very wait (actions.get_ready): a refusal, a failed inference,   *)
(* or what an earlier process asked for is no proof.                       *)
ReadyMeansServed ==
    \A c \in Callers :
        model = "sam3" /\ caller[c].at = "work" => c \in inferred

(* With no more callers than places, a caller that is refused is refused   *)
(* for the sake of someone gone: an abandoned request holds a place        *)
(* (zenoh_rpc.enqueue does not look for expired ones).                     *)
BusyForTheGone ==
    [][\A r \in replies' \ replies :
        r.kind = "busy" /\ Waiting(r.id) /\ Cardinality(Callers) <= Capacity =>
            \E k \in DOMAIN queue : ~Waiting(queue[k])]_vars

(* Every request that the queue took leaves it, whatever the ones before   *)
(* it did: failed inferences and callers that are gone do not stop the     *)
(* worker (zenoh_rpc.serve's worker).                                      *)
PlacesAreFreed == \A id \in Ids : id \in Held ~> id \notin Held

(* What "[WAIT] SAM3 response (start docker/sam3/run_sam3.sh on host)"     *)
(* (actions.py:226) and the loop around it promise: until its deadline, a  *)
(* wait ends with SAM3 ready and not because it is not.  The code breaks   *)
(* it: a server that is not up shows as TimeoutError.                      *)
WaitsForSam3 == \A c \in Callers : caller[c].at # "failed"
=============================================================================
