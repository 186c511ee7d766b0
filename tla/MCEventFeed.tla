----------------------------- MODULE MCEventFeed -----------------------------
EXTENDS EventFeed

CONSTANTS w1, w2, e1, e2, A, B

Filters == [e \in Endpoint |-> IF e = e1 THEN {A} ELSE {A, B}]

(* Two workers and an endpoint with faults; one event of each endpoint; a  *)
(* consumer that pages through a log, its handler or its file failing.     *)
Setups ==
    {[endpoints |-> {e1}, events |-> 2, maxFaults |-> 2, reads |-> FALSE, maxSpent |-> 0],
     [endpoints |-> {e1, e2}, events |-> 1, maxFaults |-> 1, reads |-> FALSE, maxSpent |-> 0],
     [endpoints |-> {}, events |-> 4, maxFaults |-> 0, reads |-> TRUE, maxSpent |-> 2]}
===============================================================================
