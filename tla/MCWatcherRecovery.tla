-------------------------- MODULE MCWatcherRecovery --------------------------
(* Instances of WatcherRecovery for TLC.                                   *)
EXTENDS WatcherRecovery

CONSTANTS q1, q2

(* A watched account whose owner receives at any time, all three sources.  *)
Sources ==
    [sends |-> {1, 2}, passes |-> {q1}, custodial |-> FALSE, hasSocket |-> TRUE,
     late |-> FALSE, pageSize |-> 2, batchSize |-> 3, maxOutages |-> 2,
     maxChanges |-> 0, maxFaults |-> 0]

(* A custodial account without a socket: polls and two passes, failures.   *)
Polled ==
    [sends |-> {1, 2}, passes |-> {q1, q2}, custodial |-> TRUE, hasSocket |-> FALSE,
     late |-> FALSE, pageSize |-> 2, batchSize |-> 2, maxOutages |-> 1,
     maxChanges |-> 0, maxFaults |-> 2]

(* The history alone, of which a first scan leaves the oldest out.         *)
History ==
    [sends |-> {1, 2, 3}, passes |-> {q1}, custodial |-> FALSE, hasSocket |-> FALSE,
     late |-> FALSE, pageSize |-> 0, batchSize |-> 2, maxOutages |-> 1,
     maxChanges |-> 0, maxFaults |-> 2]

(* All three sources, and an ingestion that fails or a process that dies   *)
(* under what another source relies on.                                    *)
Production ==
    [sends |-> {1, 2}, passes |-> {q1}, custodial |-> FALSE, hasSocket |-> TRUE,
     late |-> FALSE, pageSize |-> 2, batchSize |-> 2, maxOutages |-> 0,
     maxChanges |-> 0, maxFaults |-> 1]

(* An account that is added, taken out and added again, with a socket that  *)
(* closes, while others come and go.                                        *)
Rewatched ==
    [sends |-> {1, 2}, passes |-> {q1}, custodial |-> TRUE, hasSocket |-> TRUE,
     late |-> TRUE, pageSize |-> 2, batchSize |-> 2, maxOutages |-> 1,
     maxChanges |-> 3, maxFaults |-> 0]

WatcherSetups == {Sources, Polled, History, Production, Rewatched}
===============================================================================
