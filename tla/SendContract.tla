----------------------------- MODULE SendContract -----------------------------
(***************************************************************************)
(* What the send pipeline promises the application about one send after    *)
(* another: an accepted send moves the money at most once, its status      *)
(* follows what the network has, a failed send never moves any, and        *)
(* confirmed and failed are final.                                         *)
(***************************************************************************)
CONSTANT Send

VARIABLES
    outcome,  \* [Send -> the status the application reads]
    moved     \* [Send -> BOOLEAN]: the transfer is on the network

vars == <<outcome, moved>>

Init ==
    /\ outcome = [s \in Send |-> "absent"]
    /\ moved = [s \in Send |-> FALSE]

Become(s, from, to) ==
    /\ outcome[s] \in from
    /\ outcome' = [outcome EXCEPT ![s] = to]
    /\ UNCHANGED moved

Accept(s) == Become(s, {"absent"}, "queued")

Transfer(s) ==
    /\ outcome[s] = "queued" /\ ~ moved[s]
    /\ moved' = [moved EXCEPT ![s] = TRUE]
    /\ UNCHANGED outcome

ReportPublished(s) == moved[s] /\ Become(s, {"queued"}, "published")
ReportConfirmed(s) == moved[s] /\ Become(s, {"published"}, "confirmed")
ReportFailed(s)    == ~ moved[s] /\ Become(s, {"queued"}, "failed")

Next ==
    \E s \in Send :
        \/ Accept(s) \/ Transfer(s)
        \/ ReportPublished(s) \/ ReportConfirmed(s) \/ ReportFailed(s)

Spec == Init /\ [][Next]_vars
===============================================================================
