--------------------------- MODULE MCInvoiceCreation ---------------------------
EXTENDS InvoiceCreation

CONSTANTS c1, c2, c3, c4, c5, c6, k1, k2, r1

Refs    == [c \in Call |-> IF c \in {c3, c4, c5} THEN r1 ELSE None]
KeysOf  == [c \in Call |-> CASE c \in {c1, c2} -> k1 [] c \in {c3, c4} -> k2 [] OTHER -> None]
Amounts == [c \in Call |-> IF c = c5 THEN 2 ELSE 1]

(* A repeated key, a repeated invoiceKey, and both.                        *)
Setups ==
    {[calls |-> {c1, c2, c6}, failures |-> 1, crashes |-> 0],
     [calls |-> {c1, c2, c6}, failures |-> 0, crashes |-> 1],
     [calls |-> {c1, c3, c4}, failures |-> 1, crashes |-> 0],
     [calls |-> {c3, c4, c5}, failures |-> 1, crashes |-> 1]}
===============================================================================
