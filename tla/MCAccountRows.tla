----------------------------- MODULE MCAccountRows -----------------------------
EXTENDS AccountRows

CONSTANTS a1, a2, d1, u1, s1, s2, w1, w2

Balances == [h \in 0..3 |-> <<0, 2, 1, 2>>[h + 1]]

(* An account that is created, and one that is there; its calls; its       *)
(* sends beside the synchronisation; and a second process.                 *)
Setups ==
    {[exists |-> {}, actors |-> {a1, a2, u1, s1}, workers |-> {w1}, shared |-> FALSE,
      faults |-> 0, crashes |-> 1],
     [exists |-> {a1}, actors |-> {a2, d1, s1}, workers |-> {w1}, shared |-> TRUE,
      faults |-> 1, crashes |-> 0],
     [exists |-> {a1}, actors |-> {s1, u1}, workers |-> {w1, w2}, shared |-> FALSE,
      faults |-> 1, crashes |-> 0],
     [exists |-> {a1}, actors |-> {s1, u1}, workers |-> {w1}, shared |-> TRUE,
      faults |-> 0, crashes |-> 1]}
===============================================================================
