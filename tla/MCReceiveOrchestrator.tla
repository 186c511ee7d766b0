------------------------ MODULE MCReceiveOrchestrator ------------------------
(* Instances of ReceiveOrchestrator for TLC.                               *)
EXTENDS ReceiveOrchestrator

CONSTANTS p1, p2, a1, a2, t1, t2

(* Two sends to one account, the smaller one below the higher minimum.     *)
OneOwner == [t \in Task |-> a1]
OneAndTwo == (t1 :> 1 @@ t2 :> 2)

(* One process, two tasks and a send that can take a signed block's place; *)
(* one process that fails more often; two processes that race for one task *)
(* on a database that fails.                                               *)
Setups ==
    {[crew |-> {p1}, arriving |-> {t1, t2}, diskFails |-> FALSE,
      maxFaults |-> 2, maxSends |-> 1],
     [crew |-> {p1}, arriving |-> {t1}, diskFails |-> FALSE,
      maxFaults |-> 4, maxSends |-> 1],
     [crew |-> {p1, p2}, arriving |-> {t1}, diskFails |-> TRUE,
      maxFaults |-> 1, maxSends |-> 1]}
===============================================================================
