--------------------------- MODULE DeliveryContract ---------------------------
(***************************************************************************)
(* What RaiFlow promises the owner of a webhook endpoint                   *)
(* (rfcs/0003-event-model.md): an event that is persisted is owed to every *)
(* endpoint that matches it, from the same moment on; what is owed stays   *)
(* owed until the endpoint has acknowledged it, or RaiFlow gives it up, or *)
(* the endpoint is deleted; and what is settled is never owed again.       *)
(***************************************************************************)
EXTENDS Naturals, Sequences

CONSTANTS
    Endpoint,
    Type,      \* event types
    Filter,    \* [Endpoint -> SUBSET Type]: what an endpoint has asked for
    MaxEvents

VARIABLES
    announced,    \* the persisted events, by their types
    registered,   \* the endpoints there are
    duty,         \* [Job -> Duty]
    acknowledged  \* [Job -> BOOLEAN]: the endpoint has answered with a 2xx

Job  == (1..MaxEvents) \X Endpoint
Duty == {"none", "owed", "delivered", "failed"}

Init ==
    /\ announced = << >>
    /\ registered = {}
    /\ duty = [j \in Job |-> "none"]
    /\ acknowledged = [j \in Job |-> FALSE]

(* An event is persisted, and owed at once to every endpoint it matches.   *)
Persist(type) ==
    /\ announced' = Append(announced, type)
    /\ duty' = [j \in Job |->
                    IF /\ j[1] = Len(announced) + 1
                       /\ j[2] \in registered /\ type \in Filter[j[2]]
                    THEN "owed" ELSE duty[j]]
    /\ UNCHANGED <<registered, acknowledged>>

Register(e) ==
    /\ registered' = registered \cup {e}
    /\ UNCHANGED <<announced, duty, acknowledged>>

Acknowledge(j) ==
    /\ j[1] <= Len(announced)
    /\ acknowledged' = [acknowledged EXCEPT ![j] = TRUE]
    /\ UNCHANGED <<announced, registered, duty>>

Settle(j) ==
    /\ duty[j] = "owed"
    /\ \/ acknowledged[j] /\ duty' = [duty EXCEPT ![j] = "delivered"]
       \/ duty' = [duty EXCEPT ![j] = "failed"]
    /\ UNCHANGED <<announced, registered, acknowledged>>

Forget(e) ==
    /\ registered' = registered \ {e}
    /\ duty' = [j \in Job |-> IF j[2] = e THEN "none" ELSE duty[j]]
    /\ UNCHANGED <<announced, acknowledged>>

Next ==
    \/ \E type \in Type : Persist(type)
    \/ \E j \in Job : Acknowledge(j) \/ Settle(j)
    \/ \E e \in Endpoint : Register(e) \/ Forget(e)

Spec == Init /\ [][Next]_<<announced, registered, duty, acknowledged>>
===============================================================================
