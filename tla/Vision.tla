------------------------------- MODULE Vision -------------------------------
(***************************************************************************)
(* One camera stream of the vision transport: the transmitter beside the   *)
(* camera (tx_node.cpp) encodes and sends only while it believes that a    *)
(* receiver (rx_node.cpp) has a listener.  The receivers, which may be     *)
(* several at one transmitter, tell it so on the stream's _demand key.     *)
(***************************************************************************)
EXTENDS Naturals, Sequences

CONSTANTS
    Receivers,      \* the receivers of this stream
    MaxChanges,     \* bound: times that listeners come or go
    MaxFaults,      \* bound: lost demand messages and processes that end
    MaxUnderWay     \* bound: demand messages of one receiver under way

ASSUME VisionAssumption == {MaxChanges, MaxFaults, MaxUnderWay} \subseteq Nat

VARIABLES
    listens,        \* whether a receiver's output topic has a subscriber
    said,           \* the demand that a receiver announced last
    link,           \* each receiver's demand messages under way
    arriving,       \* whether a frame is on its way to a receiver
    demand,         \* demand_active
    source,         \* whether the transmitter subscribes to the camera
    latest,         \* whether a frame waits for the worker
    hand,           \* whether the worker has one to encode
    unsaid,         \* history: the end of its demand was never told
    changes, faults

receiving == <<listens, said, link, arriving>>
sending == <<demand, source, latest, hand>>
vars == <<receiving, sending, unsaid, changes, faults>>

Init ==
    /\ listens = [r \in Receivers |-> FALSE]
    /\ said = [r \in Receivers |-> "down"]
    /\ link = [r \in Receivers |-> <<>>]
    /\ arriving = [r \in Receivers |-> FALSE]
    /\ demand = FALSE /\ source = FALSE
    /\ latest = FALSE /\ hand = FALSE
    /\ unsaid = [r \in Receivers |-> FALSE]
    /\ changes = 0 /\ faults = 0

Fault == faults < MaxFaults /\ faults' = faults + 1

(***************************************************************************)
(* A receiver.                                                             *)
(***************************************************************************)
(* Somebody subscribes to the output topic, or the last one leaves. *)
Change(r) ==
    /\ changes < MaxChanges /\ changes' = changes + 1
    /\ listens' = [listens EXCEPT ![r] = ~@]
    /\ UNCHANGED <<said, link, arriving, sending, unsaid, faults>>

RxStarts(r) ==
    /\ said[r] = "down"
    /\ said' = [said EXCEPT ![r] = "nothing"]
    /\ UNCHANGED <<listens, link, arriving, sending, unsaid, changes, faults>>

(* It says nothing as it goes; what it had under way goes with it. *)
RxStops(r) ==
    /\ said[r] # "down" /\ Fault
    /\ said' = [said EXCEPT ![r] = "down"]
    /\ link' = [link EXCEPT ![r] = <<>>]
    /\ arriving' = [arriving EXCEPT ![r] = FALSE]
    /\ unsaid' = [unsaid EXCEPT ![r] = \/ @ \/ said[r] = "active"
                                       \/ \E k \in DOMAIN link[r] : link[r][k] = "inactive"]
    /\ UNCHANGED <<listens, sending, changes>>

(* A failed put is only logged, and counts as said. *)
PublishDemand(r, d) ==
    \/ /\ Len(link[r]) < MaxUnderWay
       /\ link' = [link EXCEPT ![r] = Append(@, d)]
       /\ unsaid' = [unsaid EXCEPT ![r] = @ /\ d = "active"]
       /\ UNCHANGED faults
    \/ /\ Fault
       /\ unsaid' = [unsaid EXCEPT ![r] = @ \/ d = "inactive"]
       /\ UNCHANGED link

Demand(r) == IF listens[r] THEN "active" ELSE "inactive"

(* Variant: the demand is told when it changes, and never again. *)
DueOnce(r) == Demand(r) # said[r]

(* Variant: only an active demand is told. *)
DueWhileActive(r) == Demand(r) = "active"

(* An active demand is told again every second, an inactive one never. *)
Due(r) == Demand(r) # said[r] \/ Demand(r) = "active"

PublishDemandUpdates(r) ==
    /\ said[r] # "down" /\ Due(r)
    /\ said' = [said EXCEPT ![r] = Demand(r)]
    /\ PublishDemand(r, Demand(r))
    /\ UNCHANGED <<listens, arriving, sending, changes>>

(* A frame is decoded and published, or fails to decode and is counted. *)
PublishFrame(r) ==
    /\ arriving[r]
    /\ arriving' = [arriving EXCEPT ![r] = FALSE]
    /\ UNCHANGED <<listens, said, link, sending, unsaid, changes, faults>>

(***************************************************************************)
(* The transmitter.                                                        *)
(***************************************************************************)
(* All receivers of a stream share one flag: the last message sets it. *)
OnDemand(r) ==
    /\ link[r] # <<>>
    /\ demand' = (Head(link[r]) = "active")
    /\ link' = [link EXCEPT ![r] = Tail(@)]
    /\ UNCHANGED <<listens, said, arriving, source, latest, hand, unsaid, changes, faults>>

Subscribe ==
    /\ demand /\ ~source
    /\ source' = TRUE
    /\ UNCHANGED <<latest, hand>>
(* The frame that waits is dropped; only the worker's is still sent. *)
Unsubscribe ==
    /\ ~demand /\ source
    /\ source' = FALSE
    /\ latest' = FALSE
    /\ UNCHANGED hand
ReconcileSourceSubscriptions ==
    /\ Subscribe \/ Unsubscribe
    /\ UNCHANGED <<receiving, demand, unsaid, changes, faults>>

(* A frame that the rate limiter accepts takes the place of the last one. *)
Offer ==
    /\ source
    /\ latest' = TRUE
    /\ UNCHANGED <<receiving, demand, source, hand, unsaid, changes, faults>>

WorkerTakes ==
    /\ ~hand /\ latest
    /\ hand' = TRUE /\ latest' = FALSE
    /\ UNCHANGED <<receiving, demand, source, unsaid, changes, faults>>

(* The frame is put, or it fails to encode and is counted. *)
Process ==
    /\ hand
    /\ hand' = FALSE
    /\ \/ arriving' = [r \in Receivers |-> said[r] # "down"]
       \/ UNCHANGED arriving
    /\ UNCHANGED <<listens, said, link, demand, source, latest, unsaid, changes, faults>>

(* The transmitter ends and a new one starts; it must be told again. *)
TxRestarts ==
    /\ Fault
    /\ demand' = FALSE /\ source' = FALSE
    /\ latest' = FALSE /\ hand' = FALSE
    /\ link' = [r \in Receivers |-> <<>>]
    /\ arriving' = [r \in Receivers |-> FALSE]
    /\ unsaid' = [r \in Receivers |-> FALSE]
    /\ UNCHANGED <<listens, said, changes>>

Next ==
    \/ \E r \in Receivers : \/ Change(r) \/ RxStarts(r) \/ RxStops(r)
                            \/ PublishDemandUpdates(r) \/ PublishFrame(r) \/ OnDemand(r)
    \/ ReconcileSourceSubscriptions \/ Offer \/ WorkerTakes \/ Process \/ TxRestarts

(* The timers, the executors and the worker run; the camera goes on, and   *)
(* not every frame fails.  Nobody must listen, start or stop.              *)
Fairness ==
    /\ \A r \in Receivers : /\ WF_vars(PublishDemandUpdates(r)) /\ WF_vars(OnDemand(r))
                            /\ WF_vars(PublishFrame(r))
    /\ WF_vars(ReconcileSourceSubscriptions) /\ WF_vars(Offer) /\ WF_vars(WorkerTakes)
    /\ WF_vars(Process)
    /\ \A r \in Receivers : SF_vars(Process /\ arriving'[r])

Spec == Init /\ [][Next]_vars /\ Fairness

(***************************************************************************)
(* Properties.                                                             *)
(***************************************************************************)
Live(r) == said[r] # "down" /\ listens[r]

(* A receiver that keeps a listener publishes frames again and again,      *)
(* whatever the other receivers at the transmitter said last, whichever    *)
(* messages were lost and whoever restarted: it says so every second.      *)
ListenersAreServed ==
    \A r \in Receivers : <>[]Live(r) => []<><<PublishFrame(r)>>_vars

(* When nobody listens any more, the transmitter stops encoding for good,  *)
(* unless an end of demand was lost or died with its receiver.             *)
StopsForNobody ==
    <>[](\A r \in Receivers : ~Live(r) /\ ~unsaid[r]) => <>[](~source /\ ~hand)

(* The transport's README promises that nothing is sent until something    *)
(* subscribes; a receiver that is stopped while it has a listener leaves   *)
(* the transmitter sending.                                                *)
StopsAlways ==
    <>[](\A r \in Receivers : ~Live(r)) => <>[](~source /\ ~hand)
=============================================================================
