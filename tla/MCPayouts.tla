------------------------------- MODULE MCPayouts -------------------------------
EXTENDS Payouts

CONSTANTS d1, d2, a1, a2, a3, a4, p1, p2, k1, k2

Amounts   == [d \in Deposit |-> IF d = d1 THEN 2 ELSE 1]
RefundsOf == [c \in Call |-> d1]
Keys      == [c \in Call |-> IF c = a4 THEN k2 ELSE k1]
AskedFor  == [c \in Call |-> IF c = a1 THEN 1 ELSE 2]

(* The sweep in overlapping passes, with a failure; in one pass, with two, *)
(* of an invoice that another one may hide; and refunds of one deposit     *)
(* beside a pass.                                                          *)
Setups ==
    {[deposits |-> {d1, d2}, calls |-> {}, passes |-> {p1, p2},
      keyless |-> FALSE, maxFaults |-> 1],
     [deposits |-> {d1, d2}, calls |-> {}, passes |-> {p1},
      keyless |-> TRUE, maxFaults |-> 2],
     [deposits |-> {d1}, calls |-> Call, passes |-> {p1},
      keyless |-> FALSE, maxFaults |-> 1]}
===============================================================================
