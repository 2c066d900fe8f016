---------------------------- MODULE ServerProofs ----------------------------
(***************************************************************************)
(* Proofs about the two servers, of the models and of the dashboard.       *)
(*                                                                         *)
(* ModelServer, for every number of callers and calls, every size of the   *)
(* queue and any number of crashes: what counts as ready was served, and   *)
(* who is refused is refused for someone gone.                             *)
(***************************************************************************)
EXTENDS ModelServer, Dashboard, FiniteSetTheorems, TLAPS

Known == Outcomes \cup {"busy", "timeout"}
Answers == {"found", "none"}

(* What of TypeOK the proofs need. *)
CallerTypes ==
    /\ caller \in [Callers -> [at : {"wait", "work", "failed", "over"}, n : Nat,
                               asked : BOOLEAN]]
    /\ \A c \in Callers : caller[c].asked => caller[c].at \in {"wait", "work"}
    /\ inferred \subseteq Callers
ServerTypes ==
    /\ queue \in Seq(Ids) /\ requests \subseteq Ids
    /\ worker \in [at : {"idle", "got", "inferred"}, id : Ids \cup {NoId},
                   out : Outcomes]
    /\ worker.at = "idle" <=> worker.id = NoId
    /\ worker.at = "inferred" => worker.out \in Answers
    /\ replies \subseteq [id : Ids, kind : Known]

(* A caller's calls are numbered: nothing anywhere is of a later one.      *)
Asked(id) == id[2] <= caller[id[1]].n
Numbered ==
    /\ \A id \in Held \cup requests : Asked(id)
    /\ \A r \in replies : Asked(r.id)

(* A session drops its reply with the query: every reply finds it open.    *)
RepliesFindTheirQuery == \A r \in replies : Waiting(r.id)

(* An answer on its way, or about to be sent, is the proof of an inference *)
(* for the process that waits for it.                                      *)
AnswersAreInferred ==
    /\ \A r \in replies : r.kind \in Answers => r.id[1] \in inferred
    /\ worker.at = "inferred" /\ Waiting(worker.id) => worker.id[1] \in inferred

(* A request is at one place: under way, in the queue, at work, or         *)
(* answered, and nowhere twice.                                            *)
AtOnePlace ==
    /\ requests \cap Held = {}
    /\ \A r \in replies : r.id \notin Held \cup requests
    /\ \A r, s \in replies : r.id = s.id => r = s
    /\ \A j, k \in DOMAIN queue : queue[j] = queue[k] => j = k
    /\ \A k \in DOMAIN queue : queue[k] # worker.id

(* The inductive invariant. *)
IInv ==
    /\ CallerTypes /\ ServerTypes /\ Numbered /\ AtOnePlace
    /\ RepliesFindTheirQuery /\ AnswersAreInferred /\ ReadyMeansServed

(* An id is its caller and the number of the call. *)
LEMMA IdParts == \A id \in Ids : id = <<id[1], id[2]>> /\ id[1] \in Callers /\ id[2] \in 1..MaxCalls
BY DEF Ids

(* No id is empty. *)
LEMMA NoIdIsNone == NoId \notin Ids
BY DEF NoId, Ids

(* Nothing was asked yet. *)
LEMMA InitHolds == Init => IInv
<1> SUFFICES ASSUME Init PROVE IInv
  OBVIOUS
<1> USE DEF Init, Idle
<1>1. CallerTypes
  BY DEF CallerTypes, NewProcess
<1>2. ServerTypes
  BY DEF ServerTypes, NoId, Outcomes
<1>3. Held = {}
  BY DEF Held
<1>4. ReadyMeansServed
  BY DEF ReadyMeansServed, NewProcess
<1> QED
  BY <1>1, <1>2, <1>3, <1>4 DEF IInv, Numbered, AtOnePlace, RepliesFindTheirQuery, AnswersAreInferred

(***************************************************************************)
(* The queue.                                                              *)
(***************************************************************************)
(* What Append and Tail do to what a sequence without repetitions holds.   *)
LEMMA Appended ==
  ASSUME NEW S, NEW q \in Seq(S), NEW x \in S, \A k \in DOMAIN q : q[k] # x,
         \A j, k \in DOMAIN q : q[j] = q[k] => j = k
  PROVE  LET p == Append(q, x)
         IN  /\ p \in Seq(S) /\ \A k \in DOMAIN p : p[k] = x \/ \E j \in DOMAIN q : p[k] = q[j]
             /\ \A j, k \in DOMAIN p : p[j] = p[k] => j = k
<1> DEFINE p == Append(q, x)
<1>1. p \in Seq(S) /\ DOMAIN p = 1..(Len(q) + 1) /\ DOMAIN q = 1..Len(q) /\ Len(q) \in Nat
  OBVIOUS
<1>2. p[Len(q) + 1] = x /\ \A k \in 1..Len(q) : p[k] = q[k]
  OBVIOUS
<1> HIDE DEF p
<1>3. \A k \in DOMAIN p : (k \in DOMAIN q /\ p[k] = q[k]) \/ (k = Len(q) + 1 /\ p[k] = x)
  BY <1>1, <1>2
<1> QED
  BY <1>1, <1>3 DEF p

LEMMA TakenOff ==
  ASSUME NEW S, NEW q \in Seq(S), q # <<>>, \A j, k \in DOMAIN q : q[j] = q[k] => j = k
  PROVE  /\ Tail(q) \in Seq(S) /\ Head(q) = q[1] /\ 1 \in DOMAIN q
         /\ \A k \in DOMAIN Tail(q) : k + 1 \in DOMAIN q /\ Tail(q)[k] = q[k + 1] /\ Tail(q)[k] # q[1]
         /\ \A j, k \in DOMAIN Tail(q) : Tail(q)[j] = Tail(q)[k] => j = k
<1>1. /\ Tail(q) \in Seq(S) /\ Head(q) = q[1] /\ 1 \in DOMAIN q
      /\ DOMAIN q = 1..Len(q) /\ Len(q) \in Nat /\ DOMAIN Tail(q) = 1..(Len(q) - 1)
      /\ \A k \in 1..(Len(q) - 1) : Tail(q)[k] = q[k + 1]
  OBVIOUS
<1>2. \A k \in DOMAIN Tail(q) : k + 1 \in DOMAIN q /\ k + 1 # 1 /\ k \in Int
  BY <1>1
<1>3. \A k \in DOMAIN Tail(q) : Tail(q)[k] = q[k + 1]
  BY <1>1
<1>4. \A j, k \in DOMAIN Tail(q) : j + 1 = k + 1 => j = k
  BY <1>2
<1> QED
  BY <1>1, <1>2, <1>3, <1>4

(***************************************************************************)
(* The steps.                                                              *)
(***************************************************************************)
(* A reply reaches a query that is still open, or nobody.                  *)
LEMMA Told ==
  ASSUME IInv, NEW id \in Ids, NEW kind \in Known, Tell(id, kind), UNCHANGED <<caller, inferred>>,
         Asked(id), kind \in Answers /\ Waiting(id) => id[1] \in inferred
  PROVE  /\ replies' \subseteq [id : Ids, kind : Known]
         /\ \A r \in replies' : Asked(r.id)' /\ Waiting(r.id)'
         /\ \A r \in replies' : r.kind \in Answers => r.id[1] \in inferred'
         /\ \A r \in replies' : r \in replies \/ (r.id = id /\ r.kind = kind)
BY DEF IInv, Tell, Asked, Waiting, Current, ServerTypes, Numbered, RepliesFindTheirQuery, AnswersAreInferred

(* What the server's steps leave: the callers.                             *)
LEMMA ServerKeeps ==
  ASSUME IInv, UNCHANGED <<model, caller>>, inferred \subseteq inferred', inferred' \subseteq Callers,
         ServerTypes', AtOnePlace', Held' \cup requests' \subseteq Held \cup requests,
         \A r \in replies' : Asked(r.id)' /\ Waiting(r.id)',
         \A r \in replies' : r.kind \in Answers => r.id[1] \in inferred',
         worker'.at = "inferred" /\ Waiting(worker'.id) => worker'.id[1] \in inferred'
  PROVE  IInv'
<1>1. CallerTypes' /\ ReadyMeansServed'
  BY DEF IInv, CallerTypes, ReadyMeansServed
<1>2. Numbered'
  BY DEF IInv, Numbered, Asked
<1>3. RepliesFindTheirQuery' /\ AnswersAreInferred'
  BY DEF RepliesFindTheirQuery, AnswersAreInferred, Waiting, Current
<1> QED
  BY <1>1, <1>2, <1>3 DEF IInv

LEMMA CrashKeeps == IInv /\ CrashServer => IInv'
<1> SUFFICES ASSUME IInv, CrashServer PROVE IInv'
  OBVIOUS
<1> USE DEF CrashServer
<1>1. Held' = {}
  BY DEF Held, Idle
<1>2. ServerTypes'
  BY DEF IInv, ServerTypes, Idle, NoId, Outcomes
<1>3. AtOnePlace'
  BY <1>1 DEF IInv, AtOnePlace
<1>4. \A r \in replies' : Asked(r.id)' /\ Waiting(r.id)'
  BY DEF IInv, Numbered, RepliesFindTheirQuery, Asked, Waiting, Current
<1> QED
  BY <1>1, <1>2, <1>3, <1>4, ServerKeeps DEF IInv, AnswersAreInferred, CallerTypes, Idle

LEMMA UndeliveredKeeps == ASSUME NEW id \in Ids PROVE IInv /\ Undelivered(id) => IInv'
<1> SUFFICES ASSUME IInv, Undelivered(id) PROVE IInv'
  OBVIOUS
<1> USE DEF Undelivered, serving
<1>1. Held' = Held
  BY DEF Held
<1>2. ServerTypes'
  BY DEF IInv, ServerTypes
<1>3. AtOnePlace'
  BY <1>1 DEF IInv, AtOnePlace
<1>4. \A r \in replies' : Asked(r.id)' /\ Waiting(r.id)'
  BY DEF IInv, Numbered, RepliesFindTheirQuery, Asked, Waiting, Current
<1> QED
  BY <1>1, <1>2, <1>3, <1>4, ServerKeeps DEF IInv, AnswersAreInferred, CallerTypes

LEMMA EnqueueKeeps == ASSUME NEW id \in Ids PROVE IInv /\ Enqueue(id) => IInv'
<1> SUFFICES ASSUME IInv, Enqueue(id) PROVE IInv'
  OBVIOUS
<1> USE DEF Enqueue
<1>1. id \in requests /\ id \notin Held /\ Asked(id) /\ requests' = requests \ {id}
  BY DEF IInv, AtOnePlace, Numbered
<1>2. UNCHANGED <<model, caller, inferred, worker>>
  OBVIOUS
<1>3. CASE queue' = Append(queue, id) /\ UNCHANGED replies
  <2>1. \A k \in DOMAIN queue : queue[k] # id
    BY <1>1 DEF Held
  <2>2. /\ queue' \in Seq(Ids)
        /\ \A k \in DOMAIN queue' : queue'[k] = id \/ \E j \in DOMAIN queue : queue'[k] = queue[j]
        /\ \A j, k \in DOMAIN queue' : queue'[j] = queue'[k] => j = k
    BY <1>3, <2>1, Appended DEF IInv, ServerTypes, AtOnePlace
  <2>3. Held' \subseteq Held \cup {id}
    BY <1>2, <2>2 DEF Held
  <2>4. worker.id # id
    BY <1>1, NoIdIsNone DEF Held
  <2>5. ServerTypes'
    BY <1>1, <1>2, <1>3, <2>2 DEF IInv, ServerTypes
  <2>6. AtOnePlace'
    <3>1. requests' \cap Held' = {}
      BY <1>1, <2>3 DEF IInv, AtOnePlace
    <3>2. \A r \in replies' : r.id \notin Held' \cup requests'
      BY <1>1, <1>3, <2>3 DEF IInv, AtOnePlace
    <3>3. \A r, s \in replies' : r.id = s.id => r = s
      BY <1>3 DEF IInv, AtOnePlace
    <3>4. \A k \in DOMAIN queue' : queue'[k] # worker'.id
      BY <1>2, <2>2, <2>4 DEF IInv, AtOnePlace
    <3> QED
      BY <2>2, <3>1, <3>2, <3>3, <3>4 DEF AtOnePlace
  <2>7. \A r \in replies' : Asked(r.id)' /\ Waiting(r.id)'
    BY <1>2, <1>3 DEF IInv, Numbered, RepliesFindTheirQuery, Asked, Waiting, Current
  <2> QED
    BY <1>1, <1>2, <1>3, <2>3, <2>5, <2>6, <2>7, ServerKeeps DEF IInv, AnswersAreInferred, CallerTypes
<1>4. CASE Tell(id, "busy") /\ UNCHANGED queue
  <2>1. /\ replies' \subseteq [id : Ids, kind : Known]
        /\ \A r \in replies' : Asked(r.id)' /\ Waiting(r.id)'
        /\ \A r \in replies' : r.kind \in Answers => r.id[1] \in inferred'
        /\ \A r \in replies' : r \in replies \/ (r.id = id /\ r.kind = "busy")
    BY <1>1, <1>2, <1>4, Told DEF Known, Answers
  <2>2. Held' = Held
    BY <1>2, <1>4 DEF Held
  <2>3. ServerTypes'
    BY <1>1, <1>2, <1>4, <2>1 DEF IInv, ServerTypes
  <2>4. AtOnePlace'
    <3>1. \A r, s \in replies' : r.id = s.id => r = s
      BY <1>1, <2>1, <2>3 DEF IInv, AtOnePlace, ServerTypes
    <3> QED
      BY <1>1, <1>2, <1>4, <2>1, <2>2, <3>1 DEF IInv, AtOnePlace
  <2> QED
    BY <1>1, <1>2, <2>1, <2>2, <2>3, <2>4, ServerKeeps DEF IInv, AnswersAreInferred, CallerTypes
<1> QED
  BY <1>3, <1>4

LEMMA TakeKeeps == IInv /\ Take => IInv'
<1> SUFFICES ASSUME IInv, Take PROVE IInv'
  OBVIOUS
<1> USE DEF Take
<1>1. /\ Tail(queue) \in Seq(Ids) /\ Head(queue) = queue[1] /\ 1 \in DOMAIN queue
      /\ \A k \in DOMAIN Tail(queue) :
            k + 1 \in DOMAIN queue /\ Tail(queue)[k] = queue[k + 1] /\ Tail(queue)[k] # queue[1]
      /\ \A j, k \in DOMAIN Tail(queue) : Tail(queue)[j] = Tail(queue)[k] => j = k
  BY TakenOff DEF IInv, ServerTypes, AtOnePlace
<1>2. queue[1] \in Ids
  BY <1>1 DEF IInv, ServerTypes
<1>3. worker' = [at |-> "got", id |-> queue[1], out |-> "none"]
  BY <1>1 DEF Idle
<1>4. Held' \subseteq Held
  BY <1>1, <1>3 DEF Held
<1>5. ServerTypes'
  BY <1>1, <1>2, <1>3, NoIdIsNone DEF IInv, ServerTypes, Outcomes
<1>6. AtOnePlace'
  BY <1>1, <1>3, <1>4 DEF IInv, AtOnePlace
<1>7. \A r \in replies' : Asked(r.id)' /\ Waiting(r.id)'
  BY DEF IInv, Numbered, RepliesFindTheirQuery, Asked, Waiting, Current
<1> QED
  BY <1>3, <1>4, <1>5, <1>6, <1>7, ServerKeeps DEF IInv, AnswersAreInferred, CallerTypes

(* The worker is done with its request, and says what came of it.          *)
LEMMA DoneKeeps ==
  ASSUME IInv, NEW kind \in Known, worker.at # "idle", Tell(worker.id, kind), Free,
         UNCHANGED <<model, queue, requests, caller, inferred>>,
         kind \in Answers => worker.at = "inferred"
  PROVE  IInv'
<1>1. worker.id \in Ids /\ Asked(worker.id)
  <2>1. worker.id \in Ids
    BY DEF IInv, ServerTypes
  <2> QED
    BY <2>1, NoIdIsNone DEF IInv, Numbered, Held
<1>2. /\ replies' \subseteq [id : Ids, kind : Known]
      /\ \A r \in replies' : Asked(r.id)' /\ Waiting(r.id)'
      /\ \A r \in replies' : r.kind \in Answers => r.id[1] \in inferred'
      /\ \A r \in replies' : r \in replies \/ (r.id = worker.id /\ r.kind = kind)
  BY <1>1, Told DEF IInv, AnswersAreInferred
<1>3. worker' = Idle
  BY DEF Free
<1>4. Held' \subseteq Held
  BY <1>3 DEF Held, Idle
<1>5. ServerTypes'
  BY <1>2, <1>3 DEF IInv, ServerTypes, Idle, Outcomes
<1>6. AtOnePlace'
  <2>1. \A k \in DOMAIN queue : queue[k] # NoId
    BY NoIdIsNone DEF IInv, ServerTypes
  <2>2. worker.id \in Held /\ worker.id \notin Held'
    BY <1>1, <1>3, NoIdIsNone DEF Held, Idle, IInv, AtOnePlace
  <2>3. \A r, s \in replies' : r.id = s.id => r = s
    BY <1>2, <1>5, <2>2 DEF IInv, AtOnePlace, ServerTypes
  <2>4. \A r \in replies' : r.id \notin Held' \cup requests'
    BY <1>2, <1>4, <2>2 DEF IInv, AtOnePlace
  <2> QED
    BY <1>3, <1>4, <2>1, <2>3, <2>4 DEF IInv, AtOnePlace, Idle
<1> QED
  BY <1>2, <1>3, <1>4, <1>5, <1>6, ServerKeeps DEF IInv, CallerTypes, Idle

(* An inference for a query that is still open is its process's proof.     *)
LEMMA InferKeeps == IInv /\ Infer => IInv'
<1> SUFFICES ASSUME IInv, Infer PROVE IInv'
  OBVIOUS
<1>1. PICK out \in Outcomes \ {"error"} : worker' = [worker EXCEPT !.at = "inferred", !.out = out]
  BY DEF Infer
<1>2. /\ worker.at = "got" /\ UNCHANGED <<model, queue, requests, replies, caller>>
      /\ inferred' = inferred \cup {c \in Callers : worker.id = Current(c) /\ Waiting(worker.id)}
  BY DEF Infer
<1>3. /\ worker'.at = "inferred" /\ worker'.id = worker.id /\ worker'.out = out
      /\ worker.id \in Ids /\ worker' \in [at : {"idle", "got", "inferred"}, id : Ids \cup {NoId}, out : Outcomes]
  BY <1>1, <1>2 DEF IInv, ServerTypes
<1>4. Held' = Held
  BY <1>2, <1>3 DEF Held
<1>5. ServerTypes'
  BY <1>2, <1>3, NoIdIsNone DEF IInv, ServerTypes, Outcomes, Answers
<1>6. AtOnePlace'
  BY <1>2, <1>3, <1>4 DEF IInv, AtOnePlace
<1>7. \A r \in replies' : Asked(r.id)' /\ Waiting(r.id)'
  BY <1>2 DEF IInv, Numbered, RepliesFindTheirQuery, Asked, Waiting, Current
<1>8. Waiting(worker'.id) => worker'.id[1] \in inferred'
  BY <1>2, <1>3, IdParts DEF Waiting, Current
<1> QED
  BY <1>2, <1>3, <1>4, <1>5, <1>6, <1>7, <1>8, ServerKeeps DEF IInv, AnswersAreInferred, CallerTypes

(* What the server and the link do.                                        *)
LEMMA ServerStep == IInv /\ (StartServer \/ CrashServer \/ Worker
                            \/ \E id \in Ids : Undelivered(id) \/ Enqueue(id) \/ DeadlinePasses(id)) => IInv'
<1> SUFFICES ASSUME IInv, StartServer \/ CrashServer \/ Worker
                            \/ \E id \in Ids : Undelivered(id) \/ Enqueue(id) \/ DeadlinePasses(id)
             PROVE  IInv'
  OBVIOUS
<1>1. CASE UNCHANGED <<model, queue, worker, requests, replies, caller, inferred>>
  BY <1>1 DEF IInv, CallerTypes, ServerTypes, Numbered, Asked, Held, AtOnePlace, RepliesFindTheirQuery,
              Waiting, Current, AnswersAreInferred, ReadyMeansServed
<1>2. CASE StartServer \/ \E id \in Ids : DeadlinePasses(id)
  BY <1>1, <1>2 DEF StartServer, DeadlinePasses
<1>3. CASE CrashServer \/ Take \/ Infer
  BY <1>3, CrashKeeps, TakeKeeps, InferKeeps
<1>4. CASE \E id \in Ids : Undelivered(id) \/ Enqueue(id)
  BY <1>4, UndeliveredKeeps, EnqueueKeeps
<1>5. CASE Expired
  BY <1>5, DoneKeeps DEF Expired, Known, Answers
<1>6. CASE InferenceFails
  BY <1>6, DoneKeeps DEF InferenceFails, Release, Known, Outcomes, Answers
<1>7. CASE Reply
  BY <1>7, DoneKeeps DEF Reply, Release, Known, Outcomes, IInv, ServerTypes, Answers
<1> QED
  BY <1>2, <1>3, <1>4, <1>5, <1>6, <1>7 DEF Worker

(***************************************************************************)
(* The callers.                                                            *)
(***************************************************************************)
(* A call that starts is of a number nobody has seen.                      *)
LEMMA AskKeeps == ASSUME NEW c \in Callers PROVE IInv /\ Ask(c) => IInv'
<1> SUFFICES ASSUME IInv, Ask(c) PROVE IInv'
  OBVIOUS
<1> DEFINE id == <<c, caller[c].n + 1>>
<1>1. /\ caller' = [caller EXCEPT ![c].n = @ + 1, ![c].asked = TRUE]
      /\ caller[c].at \in {"wait", "work"} /\ ~caller[c].asked /\ caller[c].n < MaxCalls
      /\ requests' = requests \cup {id} /\ UNCHANGED <<model, queue, worker, replies, inferred>>
  BY DEF Ask, serving
<1>2. /\ \A d \in Callers \ {c} : caller'[d] = caller[d]
      /\ caller'[c].at = caller[c].at /\ caller'[c].n = caller[c].n + 1 /\ caller'[c].asked
      /\ caller[c].n \in Nat /\ \A d \in Callers : caller[d].n \in Nat
      /\ caller' \in [Callers -> [at : {"wait", "work", "failed", "over"}, n : Nat, asked : BOOLEAN]]
  BY <1>1 DEF IInv, CallerTypes
<1>3. id \in Ids
  BY <1>1, <1>2, ServerAssumption DEF Ids, ServerAssumption
<1>4. \A other \in Ids : Asked(other) => Asked(other)' /\ other # id
  BY <1>2, IdParts DEF Asked
<1>5. \A other \in Ids : other[1] = c => (Asked(other) => ~Waiting(other)')
  BY <1>2, IdParts DEF Asked, Waiting, Current
<1>6. \A other \in Ids : other[1] # c => (Waiting(other)' <=> Waiting(other))
  BY <1>2, IdParts DEF Waiting, Current
<1>7. /\ Held' = Held /\ Held \subseteq Ids /\ \A x \in Held \cup requests : x \in Ids /\ Asked(x)
      /\ \A r \in replies : r.id \in Ids /\ Asked(r.id) /\ Waiting(r.id)
  BY <1>1 DEF Held, IInv, ServerTypes, Numbered, RepliesFindTheirQuery
<1>8. CallerTypes' /\ ReadyMeansServed'
  BY <1>1, <1>2 DEF IInv, CallerTypes, ReadyMeansServed
<1>9. ServerTypes'
  BY <1>1, <1>3 DEF IInv, ServerTypes
<1>10. Numbered'
  BY <1>1, <1>2, <1>4, <1>7 DEF Numbered, Asked
<1>11. AtOnePlace'
  BY <1>1, <1>4, <1>7 DEF IInv, AtOnePlace
<1>12. \A r \in replies : r.id[1] # c
  BY <1>1, <1>7, IdParts DEF Waiting
<1>13. RepliesFindTheirQuery'
  BY <1>1, <1>6, <1>7, <1>12 DEF RepliesFindTheirQuery
<1>14. AnswersAreInferred'
  <2>1. worker.at = "inferred" => worker.id \in Ids /\ Asked(worker.id)
    BY <1>7, NoIdIsNone DEF Held, IInv, ServerTypes
  <2> QED
    BY <1>1, <1>5, <1>6, <2>1 DEF IInv, AnswersAreInferred, Waiting, Current
<1> QED
  BY <1>8, <1>9, <1>10, <1>11, <1>13, <1>14 DEF IInv

(* The caller's process is at `to', with no call open.                     *)
Types == [Callers -> [at : {"wait", "work", "failed", "over"}, n : Nat, asked : BOOLEAN]]
Closed(c, to) ==
    /\ caller' \in Types /\ \A d \in Callers \ {c} : caller'[d] = caller[d]
    /\ caller'[c].at = to /\ caller'[c].n = caller[c].n /\ ~caller'[c].asked

(* A call that ends, by its answer or without one: its replies are gone,   *)
(* and what comes later finds nobody.                                      *)
LEMMA ClosingKeeps ==
  ASSUME IInv, NEW c \in Callers, NEW to \in {"wait", "work", "failed", "over"}, Closed(c, to),
         replies' \subseteq replies, \A r \in replies' : r.id # Current(c),
         inferred' \subseteq inferred, inferred \subseteq inferred' \cup {c},
         UNCHANGED <<model, queue, worker, requests>>,
         model = "sam3" /\ to = "work" => c \in inferred'
  PROVE  IInv'
<1>1. /\ \A d \in Callers \ {c} : caller'[d] = caller[d]
      /\ caller'[c].at = to /\ caller'[c].n = caller[c].n /\ ~caller'[c].asked
      /\ caller' \in [Callers -> [at : {"wait", "work", "failed", "over"}, n : Nat, asked : BOOLEAN]]
  BY DEF Closed, Types
<1>2. /\ Held' = Held /\ Held \subseteq Ids
      /\ \A r \in replies : r.id \in Ids /\ Asked(r.id) /\ Waiting(r.id)
  BY DEF Held, IInv, ServerTypes, Numbered, RepliesFindTheirQuery
<1>3. \A id \in Ids : Asked(id)' = Asked(id)
  BY <1>1, IdParts DEF Asked
<1>4. \A id \in Ids : Waiting(id)' <=> Waiting(id) /\ id[1] # c
  BY <1>1, IdParts DEF Waiting, Current
<1>5. \A r \in replies' : r.id[1] # c
  BY <1>2 DEF Waiting
<1>6. CallerTypes' /\ ReadyMeansServed'
  BY <1>1 DEF IInv, CallerTypes, ReadyMeansServed
<1>7. ServerTypes' /\ AtOnePlace'
  BY <1>2 DEF IInv, ServerTypes, AtOnePlace
<1>8. Numbered'
  BY <1>2, <1>3 DEF IInv, Numbered, ServerTypes
<1>9. RepliesFindTheirQuery'
  BY <1>2, <1>4, <1>5 DEF RepliesFindTheirQuery
<1>10. AnswersAreInferred'
  <2>1. worker.at = "inferred" => worker.id \in Ids
    BY NoIdIsNone DEF IInv, ServerTypes
  <2> QED
    BY <1>2, <1>4, <1>5, <2>1 DEF IInv, AnswersAreInferred
<1> QED
  BY <1>6, <1>7, <1>8, <1>9, <1>10 DEF IInv

(* What a caller's process does. *)
LEMMA CallerStep == ASSUME NEW c \in Callers PROVE IInv /\ Caller(c) => IInv'
<1> SUFFICES ASSUME IInv, Caller(c) PROVE IInv'
  OBVIOUS
<1>1. /\ caller \in Types /\ caller[c] \in [at : {"wait", "work", "failed", "over"}, n : Nat, asked : BOOLEAN]
      /\ caller[c].asked => caller[c].at \in {"wait", "work"}
  BY DEF IInv, CallerTypes, Types
<1>3. CASE Ask(c)
  BY <1>3, AskKeeps
<1>4. CASE Receive(c)
  <2>1. PICK r \in replies : /\ r.id = Current(c) /\ replies' = replies \ {r}
                             /\ caller' = [caller EXCEPT ![c].asked = FALSE,
                                              ![c].at = After(@, Decoded(r.kind))]
    BY <1>4 DEF Receive
  <2>2. caller[c].asked /\ UNCHANGED <<model, queue, worker, requests, inferred>>
    BY <1>4 DEF Receive, serving
  <2> DEFINE to == After(caller[c].at, Decoded(r.kind))
  <2>3. to \in {"wait", "work"}
    BY <1>1, <2>2 DEF After
  <2>4. Closed(c, to)
    <3> HIDE DEF to
    <3>1. caller' = [caller EXCEPT ![c].asked = FALSE, ![c].at = to]
      BY <2>1 DEF to
    <3> QED
      BY <1>1, <2>3, <3>1 DEF Closed, Types
  <2>5. model = "sam3" /\ to = "work" => c \in inferred
    <3>1. CASE caller[c].at = "work"
      BY <3>1 DEF IInv, ReadyMeansServed
    <3>2. CASE caller[c].at = "wait" /\ to = "work"
      BY <2>1, <3>2 DEF After, Decoded, IInv, AnswersAreInferred, Answers, Current
    <3> QED
      BY <1>1, <2>2, <3>1, <3>2
  <2>6. \A s \in replies' : s.id # Current(c)
    BY <2>1 DEF IInv, AtOnePlace
  <2> HIDE DEF to
  <2> QED
    BY <2>1, <2>2, <2>3, <2>4, <2>5, <2>6, ClosingKeeps
<1>5. CASE GiveUp(c)
  <2> DEFINE to == IF caller[c].at = "wait" THEN "failed" ELSE "over"
  <2>1. Closed(c, to)
    BY <1>1, <1>5 DEF GiveUp, Closed, Types
  <2>2. to \in {"failed", "over"}
    OBVIOUS
  <2> HIDE DEF to
  <2> QED
    BY <1>5, <2>1, <2>2, ClosingKeeps DEF GiveUp, Hangs, serving
<1>6. CASE Ends(c)
  <2>1. Closed(c, "over")
    BY <1>1, <1>6 DEF Ends, Closed, Types
  <2> QED
    BY <1>6, <2>1, ClosingKeeps DEF Ends, Hangs, serving
<1>7. CASE Restart(c)
  <2>1. ~caller[c].asked
    BY <1>1, <1>7 DEF Restart
  <2>2. Closed(c, NewProcess)
    BY <1>1, <1>7, <2>1 DEF Restart, Closed, Types, NewProcess
  <2>3. \A r \in replies : r.id # Current(c)
    BY <2>1 DEF IInv, RepliesFindTheirQuery, Waiting, Current
  <2> QED
    BY <1>7, <2>2, <2>3, ClosingKeeps DEF Restart, NewProcess, serving
<1> QED
  BY <1>3, <1>4, <1>5, <1>6, <1>7 DEF Caller

(* The inductive invariant holds throughout. *)
LEMMA ServersKeepIInv == Spec => []IInv
<1>1. Init => IInv
  BY InitHolds
<1>2. IInv /\ [Next]_vars => IInv'
  <2> SUFFICES ASSUME IInv, [Next]_vars PROVE IInv'
    OBVIOUS
  <2>1. CASE UNCHANGED vars
    BY <2>1 DEF vars, IInv, CallerTypes, ServerTypes, Numbered, Asked, Held, AtOnePlace,
                RepliesFindTheirQuery, Waiting, Current, AnswersAreInferred, ReadyMeansServed
  <2>2. CASE \E c \in Callers : Caller(c)
    BY <2>2, CallerStep
  <2> QED
    BY <2>1, <2>2, ServerStep DEF Next
<1> QED
  BY <1>1, <1>2, PTL DEF Spec

(* SAM3 counts as ready only after an inference that succeeded for an open *)
(* call of this very process (actions.get_ready), whatever crashed, was    *)
(* refused or came late.                                                   *)
THEOREM ReadyIsServed == Spec => []ReadyMeansServed
BY ServersKeepIInv, PTL DEF IInv

(***************************************************************************)
(* Who is refused.                                                         *)
(***************************************************************************)
(* A caller has one open query: as many open ones as there are ids.        *)
LEMMA OpenIdsAreOfCallers ==
  ASSUME NEW p \in Ids, NEW q \in Ids, Waiting(p), Waiting(q), p[1] = q[1]
  PROVE  p = q
BY DEF Waiting, Current

(* Only a full queue makes the server say that it is busy.                 *)
LEMMA BusyIsOfAFullQueue ==
  ASSUME IInv, Next, NEW r \in replies' \ replies, r.kind = "busy"
  PROVE  r.id \in requests /\ Waiting(r.id) /\ Len(queue) >= Capacity
<1>1. CASE \E id \in Ids : Enqueue(id)
  <2>1. PICK id \in Ids : Enqueue(id)
    BY <1>1
  <2>2. id \in requests /\ ~HasRoom /\ Tell(id, "busy")
    BY <2>1 DEF Enqueue
  <2>3. Waiting(id) /\ r.id = id
    BY <2>2 DEF Tell
  <2>4. Len(queue) \in Nat
    BY DEF IInv, ServerTypes
  <2> QED
    BY <2>2, <2>3, <2>4, ServerAssumption DEF HasRoom, ServerAssumption
<1>2. CASE Worker
  <2>1. CASE Reply
    <3>1. worker.at = "inferred" /\ Tell(worker.id, worker.out)
      BY <2>1 DEF Reply
    <3>2. worker.out # "busy"
      BY <3>1 DEF IInv, ServerTypes, Answers
    <3> QED
      BY <3>1, <3>2 DEF Tell
  <2>2. CASE Expired \/ InferenceFails
    <3>1. Tell(worker.id, "timeout") \/ Tell(worker.id, "error")
      BY <2>2 DEF Expired, InferenceFails
    <3> QED
      BY <3>1 DEF Tell
  <2>3. CASE Take \/ Infer
    BY <2>3 DEF Take, Infer
  <2> QED
    BY <1>2, <2>1, <2>2, <2>3 DEF Worker
<1>3. CASE StartServer \/ CrashServer \/ (\E id \in Ids : Undelivered(id) \/ DeadlinePasses(id))
  BY <1>3 DEF StartServer, CrashServer, Undelivered, DeadlinePasses
<1>4. CASE \E c \in Callers : Caller(c)
  BY <1>4 DEF Caller, Ask, Receive, GiveUp, Ends, Restart, Hangs
<1> QED
  BY <1>1, <1>2, <1>3, <1>4 DEF Next

(* With a place for every caller, a full queue and one more open query     *)
(* cannot all be of callers that still wait: two would be of one.          *)
LEMMA SomeoneIsGone ==
  ASSUME IInv, NEW id \in Ids, id \in requests, Waiting(id), Len(queue) >= Capacity,
         Cardinality(Callers) <= Capacity
  PROVE  \E k \in DOMAIN queue : ~Waiting(queue[k])
<1> SUFFICES ASSUME \A k \in DOMAIN queue : Waiting(queue[k]) PROVE FALSE
  OBVIOUS
<1>1. queue \in Seq(Ids) /\ Len(queue) \in Nat /\ DOMAIN queue = 1..Len(queue)
  BY DEF IInv, ServerTypes
<1>2. \A j, k \in DOMAIN queue : queue[j] = queue[k] => j = k
  BY DEF IInv, AtOnePlace
<1>3. \A k \in DOMAIN queue : queue[k] # id /\ queue[k] \in Ids
  BY <1>1 DEF IInv, AtOnePlace, Held
<1> DEFINE S == 0..Len(queue)
           at(k) == IF k = 0 THEN id ELSE queue[k]
           f == [k \in S |-> at(k)[1]]
<1>4. \A k \in S : at(k) \in Ids /\ Waiting(at(k))
  BY <1>1, <1>3
<1>5. \A j, k \in S : at(j) = at(k) => j = k
  BY <1>1, <1>2, <1>3
<1>6. f \in [S -> Callers]
  BY <1>4, IdParts
<1>7. \A j, k \in S : f[j] = f[k] => j = k
  <2> HIDE DEF at
  <2>1. ASSUME NEW j \in S, NEW k \in S, f[j] = f[k] PROVE j = k
    <3>1. at(j)[1] = at(k)[1]
      BY <2>1
    <3> QED
      BY <1>4, <1>5, <3>1, OpenIdsAreOfCallers
  <2> QED
    BY <2>1
<1>8. IsFiniteSet(Callers) /\ Cardinality(Callers) \in Nat /\ Capacity \in Nat
  BY ServerAssumption, FS_CardinalityType DEF ServerAssumption
<1>9. IsFiniteSet(S) /\ Cardinality(S) = Len(queue) + 1
  BY <1>1, FS_Interval
<1>10. Cardinality(Callers) < Cardinality(S)
  BY <1>1, <1>8, <1>9
<1> HIDE DEF f, S
<1> QED
  BY <1>6, <1>7, <1>8, <1>9, <1>10, FS_PigeonHole

(* With no more callers than places, whoever is refused is refused for the *)
(* sake of someone gone (zenoh_rpc.enqueue).                               *)
THEOREM RefusedForTheGone == Spec => BusyForTheGone
<1>1. IInv /\ [Next]_vars =>
        [\A r \in replies' \ replies :
            r.kind = "busy" /\ Waiting(r.id) /\ Cardinality(Callers) <= Capacity =>
                \E k \in DOMAIN queue : ~Waiting(queue[k])]_vars
  <2> SUFFICES ASSUME IInv, Next, NEW r \in replies' \ replies, r.kind = "busy",
                      Cardinality(Callers) <= Capacity
               PROVE  \E k \in DOMAIN queue : ~Waiting(queue[k])
    OBVIOUS
  <2>1. r.id \in requests /\ Waiting(r.id) /\ Len(queue) >= Capacity
    BY BusyIsOfAFullQueue
  <2>2. r.id \in Ids
    BY <2>1 DEF IInv, ServerTypes
  <2> QED
    BY <2>1, <2>2, SomeoneIsGone
<1> QED
  BY <1>1, ServersKeepIInv, PTL DEF Spec, BusyForTheGone

(***************************************************************************)
(* The dashboard, for any pages and any number of runs: a living run stays *)
(* within reach, a click that takes over finds it gone, and no run is      *)
(* replaced before it is saved.                                            *)
(***************************************************************************)

(* The processes and their followers, and the requests. *)
ProcessTypes ==
  /\ process \in [Runs -> {"none", "alive", "gone"}]
  /\ follower \in [Runs -> {"none", "done", "dead", "failed"} \cup Following]
RequestTypes ==
  /\ pc \in [Pages -> {"idle", "looking", "waiting", "granted"}]
  /\ op \in [Pages -> Ops \cup {"none"}]
  /\ DOMAIN found = Pages

(* Runs are numbered as they begin: nobody knows of a later one. *)
RunsNumbered == begun \in Nat /\ cur \in 0..begun /\ \A p \in Pages : found[p] \in 0..begun

(* The follower of a living run reads on, or has died. *)
AliveIsFollowed == \A r \in Alive : follower[r] \in {"reading", "dead"}

(* A request has found a run only from its first look on. *)
FoundOnLook == \A p \in Pages : pc[p] \in {"idle", "looking"} => found[p] = 0

(* The page's run is on, or saved, or its follower is at that or has failed. *)
CurIsKept == cur \in running \/ Saved(cur) \/ (cur \in Runs /\ follower[cur] \in {"saving", "failed"})

(* The inductive invariant. *)
RunsIInv ==
  /\ ProcessTypes /\ RequestTypes /\ RunsNumbered
  /\ StopReaches /\ AliveIsFollowed /\ FoundOnLook /\ TakenOver /\ CurIsKept

(* The next run is one that nobody has found yet. *)
LEMMA NextIsNew ==
  ASSUME NEW n \in Nat
  PROVE  n + 1 \in Nat /\ n + 1 \in 0..(n + 1) /\ \A r \in 0..n : r \in 0..(n + 1) /\ r # n + 1
OBVIOUS

(* Nothing is on, and nobody has clicked.                                  *)
LEMMA NoRunYet == DashboardInit => RunsIInv
BY DEF DashboardInit, RunsIInv, ProcessTypes, RequestTypes, RunsNumbered, StopReaches, AliveIsFollowed, FoundOnLook,
       TakenOver, Gone, CurIsKept, Saved, Alive

(* A request's own part: what it has found is the page's run, and only     *)
(* Waited grants a request that found one.                                 *)
Asking(p) == Click(p) \/ Look(p) \/ Waited(p) \/ SendGoal(p) \/ Stop(p)
LEMMA AskingKeeps == ASSUME RunsIInv, NEW p \in Pages, Asking(p) PROVE RunsIInv'
<1> USE DEF shared, Respond, GoOn, Interrupt
<1>1. /\ cur' = cur /\ begun' = begun /\ child' = child /\ running' = running /\ saved' = saved
      /\ process' = process /\ follower' = follower
  BY DEF Asking, Click, Look, Waited, SendGoal, Stop
<1>2. ProcessTypes' /\ StopReaches' /\ AliveIsFollowed' /\ CurIsKept'
  BY <1>1 DEF RunsIInv, ProcessTypes, StopReaches, AliveIsFollowed, Alive, CurIsKept, Saved
<1>3. RequestTypes'
  BY DEF RunsIInv, RequestTypes, Asking, Click, Look, Waited, SendGoal, Stop
<1>4. found'[p] \in {0, cur, found[p]} /\ \A q \in Pages : q # p => found'[q] = found[q] /\ pc'[q] = pc[q]
  BY DEF RunsIInv, RequestTypes, Asking, Click, Look, Waited, SendGoal, Stop
<1>5. RunsNumbered'
  <2>1. 0 \in 0..begun
    BY DEF RunsIInv, RunsNumbered
  <2> QED
    BY <1>1, <1>4, <2>1 DEF RunsIInv, RunsNumbered
<1>6. FoundOnLook'
  BY <1>4 DEF RunsIInv, RequestTypes, FoundOnLook, Asking, Click, Look, Waited, SendGoal, Stop
<1>7. pc'[p] = "granted" =>
        \/ found'[p] = 0
        \/ found'[p] = found[p] /\ follower[child] \notin Following
  BY DEF RunsIInv, RequestTypes, FoundOnLook, Asking, Click, Look, Waited, SendGoal, Stop
<1>8. follower[child] \notin Following => \A r \in Alive : follower[r] = "dead"
  BY DEF RunsIInv, StopReaches, AliveIsFollowed, Following
<1>9. TakenOver'
  BY <1>1, <1>4, <1>7, <1>8 DEF RunsIInv, TakenOver, Gone, Alive
<1> QED
  BY <1>2, <1>3, <1>5, <1>6, <1>9 DEF RunsIInv

(* A run begins, or the page is cleared, only when none is marked as       *)
(* running, and so none is alive.                                          *)
LEMMA ReplacingKeeps == ASSUME RunsIInv, NEW p \in Pages, Begin(p) \/ Clear(p) PROVE RunsIInv'
<1>1. pc'[p] = "idle" /\ found'[p] = 0 /\ RequestTypes'
  BY DEF RunsIInv, RequestTypes, Begin, Clear, Busy, Respond
<1>2. \A q \in Pages : q # p => found'[q] = found[q] /\ pc'[q] = pc[q]
  BY DEF RunsIInv, RequestTypes, Begin, Clear, Busy, Respond
<1>3. FoundOnLook'
  BY <1>1, <1>2 DEF RunsIInv, FoundOnLook
<1>4. CASE UNCHANGED shared
  <2>1. ProcessTypes' /\ StopReaches' /\ AliveIsFollowed' /\ CurIsKept'
    BY <1>4 DEF shared, RunsIInv, ProcessTypes, StopReaches, AliveIsFollowed, Alive, CurIsKept, Saved
  <2>2. RunsNumbered'
    <3>1. 0 \in 0..begun
      BY DEF RunsIInv, RunsNumbered
    <3> QED
      BY <1>1, <1>2, <1>4, <3>1 DEF shared, RunsIInv, RunsNumbered
  <2>3. TakenOver'
    BY <1>1, <1>2, <1>4 DEF shared, RunsIInv, TakenOver, Gone, Alive
  <2> QED
    BY <1>1, <1>3, <2>1, <2>2, <2>3 DEF RunsIInv
<1>5. CASE cur \notin running /\ cur' = 0 /\ UNCHANGED <<begun, child, running, process, follower, told, saved>>
  <2>1. Alive = {} /\ Alive' = {}
    BY <1>5 DEF RunsIInv, StopReaches, Alive
  <2>2. ProcessTypes' /\ StopReaches' /\ AliveIsFollowed' /\ CurIsKept'
    BY <1>5, <2>1 DEF RunsIInv, ProcessTypes, StopReaches, AliveIsFollowed, CurIsKept, Saved
  <2>3. RunsNumbered'
    <3>1. 0 \in 0..begun
      BY DEF RunsIInv, RunsNumbered
    <3> QED
      BY <1>1, <1>2, <1>5, <3>1 DEF RunsIInv, RunsNumbered
  <2>4. TakenOver'
    BY <2>1 DEF TakenOver, Gone
  <2> QED
    BY <1>1, <1>3, <2>2, <2>3, <2>4 DEF RunsIInv
<1>6. CASE /\ cur \notin running /\ Mark(begun + 1) /\ UNCHANGED <<told, saved>>
           /\ \/ /\ child' = begun + 1
                 /\ process' = [process EXCEPT ![begun + 1] = "alive"]
                 /\ follower' = [follower EXCEPT ![begun + 1] = "reading"]
              \/ UNCHANGED <<child, process, follower>>
  <2>1. Alive = {} /\ ProcessTypes
    BY <1>6 DEF RunsIInv, StopReaches
  <2>2. ProcessTypes'
    BY <1>6, <2>1 DEF ProcessTypes, Following
  <2>3. \A r \in Alive' : r = begun + 1 /\ child' = begun + 1 /\ follower'[r] = "reading"
    BY <1>6, <2>1 DEF ProcessTypes, Alive
  <2>4. StopReaches' /\ AliveIsFollowed'
    BY <1>6, <2>3 DEF StopReaches, AliveIsFollowed, Mark
  <2>5. CurIsKept'
    BY <1>6 DEF CurIsKept, Mark
  <2>6. begun \in Nat /\ \A q \in Pages : found[q] \in 0..begun
    BY DEF RunsIInv, RunsNumbered
  <2>7. /\ begun + 1 \in Nat /\ begun + 1 \in 0..(begun + 1)
        /\ \A q \in Pages : found[q] \in 0..(begun + 1) /\ found[q] # begun + 1
    BY <2>6, NextIsNew
  <2>8. RunsNumbered'
    <3>1. 0 \in 0..(begun + 1)
      BY <2>6
    <3> QED
      BY <1>1, <1>2, <1>6, <2>7, <3>1 DEF RunsNumbered, Mark
  <2>9. TakenOver'
    BY <1>1, <1>2, <2>3, <2>7 DEF TakenOver, Gone
  <2> QED
    BY <1>1, <1>3, <2>2, <2>4, <2>5, <2>8, <2>9 DEF RunsIInv
<1> QED
  BY <1>4, <1>5, <1>6 DEF Begin, Clear, Busy

(* A process only goes, and its follower marks over only what is gone.     *)
LEMMA ProcessKeeps ==
  ASSUME RunsIInv, NEW r \in Runs, Exit(r) \/ Follow(r) \/ Save(r) \/ FollowerDies(r) PROVE RunsIInv'
<1> USE DEF request
<1>1. UNCHANGED <<cur, begun, child, pc, op, found>>
  BY DEF Exit, Follow, Save, FollowerDies
<1>2. ProcessTypes' /\ Alive' \subseteq Alive
  BY DEF RunsIInv, ProcessTypes, Following, Exit, Follow, Save, FollowerDies, Alive
<1>3. RequestTypes' /\ RunsNumbered' /\ FoundOnLook'
  BY <1>1 DEF RunsIInv, RequestTypes, RunsNumbered, FoundOnLook
<1>4. StopReaches'
  BY <1>1, <1>2 DEF RunsIInv, StopReaches, Exit, Follow, Save, FollowerDies, Alive
<1>5. AliveIsFollowed'
  BY <1>2 DEF RunsIInv, ProcessTypes, AliveIsFollowed, Following, Exit, Follow, Save, FollowerDies, Alive
<1>6. CurIsKept'
  BY <1>1, <1>2 DEF RunsIInv, ProcessTypes, CurIsKept, Saved, Exit, Follow, Save, FollowerDies
<1>7. \A s \in Alive' : follower[s] = "dead" => follower'[s] = "dead"
  BY <1>2 DEF RunsIInv, ProcessTypes, Exit, Follow, Save, FollowerDies, Alive
<1>8. TakenOver'
  BY <1>1, <1>2, <1>7 DEF RunsIInv, TakenOver, Gone
<1> QED
  BY <1>2, <1>3, <1>4, <1>5, <1>6, <1>8 DEF RunsIInv

(* RunsIInv holds whatever the pages click and the runs do. *)
LEMMA ClicksKeepIInv == DashboardSpec => []RunsIInv
<1>1. RunsIInv /\ UNCHANGED dashboard => RunsIInv'
  BY DEF dashboard, shared, request, RunsIInv, ProcessTypes, RequestTypes, RunsNumbered, StopReaches,
         Alive, AliveIsFollowed, FoundOnLook, TakenOver, Gone, CurIsKept, Saved
<1>2. RunsIInv /\ [DashboardNext]_dashboard => RunsIInv'
  BY <1>1, AskingKeeps, ReplacingKeeps, ProcessKeeps DEF DashboardNext, Serve, Asking
<1> QED
  BY NoRunYet, <1>2, PTL DEF DashboardSpec

(* A run whose process lives is the page's, marked as running, and the one *)
(* that Stop, Reset and take_over would signal, for any number of pages    *)
(* that click at once (web/server.py begin, take_over, reset, stop).       *)
THEOREM AliveIsReached == DashboardSpec => []StopReaches
<1>1. RunsIInv => StopReaches
  BY DEF RunsIInv
<1> QED
  BY <1>1, ClicksKeepIInv, PTL

(* A click that is carried out finds the run that it took over gone, if    *)
(* that run's follower lived to see it (web/server.py take_over).          *)
THEOREM TakenOverIsGone == DashboardSpec => []TakenOver
<1>1. RunsIInv => TakenOver
  BY DEF RunsIInv
<1> QED
  BY <1>1, ClicksKeepIInv, PTL

(* No run leaves the page before it is saved, unless its file could not be *)
(* written: the run is marked over before it is, but the lock is kept      *)
(* (web/server.py follow, reset, begin).                                   *)
THEOREM ReplacedIsSaved == DashboardSpec => SavedBeforeReplaced
<1>1. RunsIInv /\ [DashboardNext]_dashboard =>
        [cur' # cur => Saved(cur) \/ follower[cur] = "failed"]_dashboard
  <2> SUFFICES ASSUME RunsIInv, [DashboardNext]_dashboard, cur' # cur
               PROVE  Saved(cur) \/ follower[cur] = "failed"
    OBVIOUS
  <2>1. PICK p \in Pages : Begin(p) \/ Clear(p)
    BY DEF DashboardNext, Serve, Click, Look, Waited, SendGoal, Stop, Exit, Follow, Save, FollowerDies,
           shared, dashboard
  <2>2. cur \notin running /\ LockFree
    BY <2>1 DEF Begin, Clear, Busy, shared
  <2> QED
    BY <2>2 DEF RunsIInv, CurIsKept, LockFree
<1> QED
  BY <1>1, ClicksKeepIInv, PTL DEF DashboardSpec, SavedBeforeReplaced
=============================================================================
