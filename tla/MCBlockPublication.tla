-------------------------- MODULE MCBlockPublication --------------------------
(* Instances of BlockPublication for TLC.                                  *)
EXTENDS BlockPublication

CONSTANTS b1, b2, c1, c2, c3, k1, l1, l2, l3

BlocksOf == [c \in Call |-> IF c = c3 THEN b2 ELSE b1]
KeysOf   == [c \in Call |-> IF c = c3 THEN None ELSE k1]

(* A payment that is published twice by its key, and dust.                 *)
Ample ==
    [sends |-> {b1, b2}, payments |-> {b1}, limit |-> 9, maxFaults |-> 1,
     maxCrashes |-> 1]

(* The recovery lists less than there is; one block is not a send.         *)
Scarce ==
    [sends |-> {b1}, payments |-> {b1}, limit |-> 1, maxFaults |-> 0,
     maxCrashes |-> 2]

PublicationSetups == {Ample, Scarce}
===============================================================================
