------------------------------- MODULE MCRpcPool -------------------------------
(* One operation with each kind of fallback and one without: three that    *)
(* queue for one slot, two over two endpoints of which one is taken away   *)
(* while they are under way, one over nano-core's own endpoints beside the *)
(* health reports.                                                         *)
EXTENDS RpcPool, TLC

CONSTANTS c1, c2, c3, u1, u2, k1, k2

Ops    == c1 :> "accountsReceivableBatch" @@ c2 :> "healthCheck" @@ c3 :> "process"
Setups == {[call |-> {c1, c2, c3}, asker |-> {}, nodes |-> <<{u2}>>],
           [call |-> {c1, c3}, asker |-> {}, nodes |-> <<{u1, u2}, {u2}>>],
           [call |-> {c2}, asker |-> {k1, k2}, nodes |-> <<{}, {u2}>>]}
===============================================================================
