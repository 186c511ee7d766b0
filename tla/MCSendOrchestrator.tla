-------------------------- MODULE MCSendOrchestrator --------------------------
(* Instances of SendOrchestrator for TLC.  One run sweeps two set-ups: a   *)
(* process on its own, and two processes on one database.                  *)
EXTENDS SendOrchestrator

CONSTANTS i1, i2, a1, s1, s2, alice, bob,
          TeamFaults    \* bound on the failures when two processes run

(* Two different transfers, or twice the same one, from one account.       *)
OneSource == (s1 :> a1 @@ s2 :> a1)
Differing == (s1 :> alice @@ s2 :> bob)
Same == (s1 :> alice @@ s2 :> alice)
OneEach == (s1 :> 1 @@ s2 :> 1)
OneAndTwo == (s1 :> 1 @@ s2 :> 2)
Two == [a \in Account |-> 2]
LoneAndPair == {{i1}, {i1, i2}}
Lone == {{i1}}

(* A lone process may meet a deposit at any time; two processes start      *)
(* after it, so that both transfers can be paid.                           *)
Within ==
    ~ Alone => deposits' = 1 /\ faults' <= TeamFaults

MCNext == Next /\ Within

MCFairness ==
    /\ \A i \in Instance : WF_vars(i \in running /\ Publish(i) /\ Within)
    /\ \A i \in Instance, s \in Send :
          WF_vars(i \in running /\ Confirm(i, s) /\ Within)
    /\ \A a \in Account : WF_vars(LeaseOfTheDeadExpires(a) /\ Within)

MCSpec == Init /\ [][MCNext]_vars /\ MCFairness

===============================================================================
