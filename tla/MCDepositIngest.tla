--------------------------- MODULE MCDepositIngest ---------------------------
(* Instances of DepositIngest for TLC.  One run sweeps two set-ups: a      *)
(* process on its own, with two invoices and four blocks, and two          *)
(* processes that race for one invoice.                                    *)
EXTENDS DepositIngest

CONSTANTS p1, p2, i1, i2, x1, b1, b2, b3, b4

OneAddress == [i \in Invoice |-> x1]
AllToOne   == [b \in Block |-> x1]

(* Blocks of 2, 4 and 2, and one of 1 that is dust: an invoice of 6 that   *)
(* wants at least that, and one of 4 that wants exactly that.              *)
SixAndFour    == [i \in Invoice |-> IF i = i1 THEN 6 ELSE 4]
LeastAndExact == [i \in Invoice |-> IF i = i1 THEN "at_least" ELSE "exact"]
Amounts       == [b \in Block |-> CASE b = b2 -> 4 [] b = b4 -> 1 [] OTHER -> 2]

VARIABLE running    \* the processes of this behaviour

mcvars == <<vars, running>>
Alone == running = {p1}

MCInit == Init /\ running \in {{p1}, {p1, p2}}

(* A lone process: failures, no expiry, and the dust comes on its own.     *)
LonesBounds ==
    /\ past' = {} /\ canceling'[p1][i2] = "idle"
    /\ handling'[p1][b4] = "idle" \/
        /\ log' = << >> /\ faults' = 0
        /\ \A b \in Block \ {b4} : handling'[p1][b] = "idle"

(* Two processes: two blocks and one invoice, which p2 may cancel and      *)
(* whose time may pass.                                                    *)
PairsBounds ==
    /\ faults' = 0 /\ status'[i2] = "absent" /\ canceling'[p1][i1] = "idle"
    /\ \A p \in Process : handling'[p][b3] = "idle" /\ handling'[p][b4] = "idle"

Within ==
    /\ UNCHANGED running
    /\ \A p \in Process \ running :
        /\ \A b \in Block : handling'[p][b] = "idle"
        /\ \A i \in Invoice : canceling'[p][i] = "idle"
    /\ IF Alone THEN LonesBounds ELSE PairsBounds

MCNext == Next /\ Within
MCSpec ==
    /\ MCInit /\ [][MCNext]_mcvars
    /\ \A p \in Process : WF_mcvars(ExpiryCheck(p) /\ Within)
===============================================================================
