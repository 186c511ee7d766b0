-------------------------------- MODULE RpcPool --------------------------------
(***************************************************************************)
(* The calls to the Nano nodes (packages/rpc/src/index.ts).  Every JSON-RPC *)
(* request takes a slot of a FIFO semaphore that has one slot per          *)
(* configured endpoint, then goes through nano-core's EndpointPool, which  *)
(* tries the endpoints that are not cooling down.  An application error is *)
(* an answer; only a transport failure cools an endpoint.  Two operations  *)
(* fall back to another action when a provider denies the first.  A change *)
(* of the nodes makes a new transport and a new semaphore, and clients     *)
(* that were handed out before keep the old ones.  Beside the calls runs   *)
(* the health report: one shared round of probes and a cache.              *)
(***************************************************************************)
EXTENDS Integers, Sequences, FiniteSets

CONSTANTS
    Call,        \* operations of RpcClient under way
    Op,          \* Op[c]: the method that was called
    Url,         \* the endpoints there are
    Default,     \* nano-core's own, used when none is configured
    BatchSize,   \* accounts in one accountsReceivableBatch
    Asker,       \* callers of getHealthReport
    Setup,       \* the set-ups of a run: who calls and asks, and the
                 \* endpoints configured, before and after each change
    MaxFailures, \* transport failures and failed probes (a bound)
    None

ASSUME PoolAssumption ==
    /\ Op \in [Call -> {"healthCheck", "accountInfo", "accountsReceivable",
                        "accountsReceivableBatch", "accountHistory",
                        "blockInfo", "process"}]
    /\ IsFiniteSet(Url) /\ Default \subseteq Url /\ Default # {}
    /\ BatchSize \in Nat \ {0} /\ MaxFailures \in Nat
    /\ None \notin Url \cup {"ok", "none", "throws", "exhausted"}
    /\ \A s \in Setup :
           /\ s.call \subseteq Call /\ s.asker \subseteq Asker
           /\ s.nodes \in Seq(SUBSET Url) /\ s.nodes # << >>

VARIABLES
    setup,    \* the set-up, fixed
    pools,    \* the transports and semaphores made so far, the last is current
    call,     \* where each operation is
    active,   \* active[p]: the endpoint that pool p answered from last
    state,    \* currentState, what the listeners were last told
    failed,   \* <<pool, url>> of every transport failure
    probe,    \* healthProbe, the round of probes under way
    cache,    \* healthCache
    asker,    \* where each caller of getHealthReport is
    failures  \* spent of MaxFailures

calls  == <<setup, pools, call, active, state, failed>>
health == <<probe, cache, asker>>
vars   == <<calls, health, failures>>

(* The transport and the semaphore made for the n-th set of nodes.         *)
Nodes    == setup.nodes
Urls(n)  == IF Nodes[n] = {} THEN Default ELSE Nodes[n]
Slots(n) == IF Nodes[n] = {} THEN 1 ELSE Cardinality(Nodes[n])

NewPool(n) == [urls |-> Urls(n), running |-> 0, queue |-> << >>, cooling |-> {}]

NotCalled == [at |-> "idle", pool |-> 1, step |-> 1, url |-> None,
              tried |-> {}, result |-> None]

NoProbe == [urls |-> {}, left |-> {}, healthy |-> {}, on |-> FALSE]

Init ==
    /\ setup \in Setup
    /\ pools = <<NewPool(1)>>
    /\ call = [c \in Call |-> NotCalled]
    /\ active = <<None>>
    /\ state = [status |-> "disconnected", active |-> None, previous |-> None]
    /\ failed = {}
    /\ probe = NoProbe
    /\ cache = [urls |-> {}, healthy |-> {}, fresh |-> FALSE]
    /\ asker = [k \in Asker |-> "idle"]
    /\ failures = 0

Fault == failures < MaxFailures /\ failures' = failures + 1

-------------------------------------------------------------------------------
(* Semaphore                                                               *)

Current == Len(pools)

Free(p) == pools[p].running < Slots(p)

(* The call as it is once it holds a slot, or waits for one.               *)
Trying(c, p, n)  == [NotCalled EXCEPT !.at = "trying", !.pool = p, !.step = n]
Waiting(c, p, n) == [NotCalled EXCEPT !.at = "waiting", !.pool = p, !.step = n]

Acquire(c, p, n) ==
    IF Free(p)
    THEN /\ pools' = [pools EXCEPT ![p].running = @ + 1]
         /\ call' = [call EXCEPT ![c] = Trying(c, p, n)]
    ELSE /\ pools' = [pools EXCEPT ![p].queue = Append(@, c)]
         /\ call' = [call EXCEPT ![c] = Waiting(c, p, n)]

(* release of c's slot, which leaves c as the record d: the slot is handed *)
(* to the longest waiting, or returned.                                    *)
Release(c, d) ==
    LET p == call[c].pool
        q == pools[p].queue
    IN  IF q # << >>
        THEN /\ pools' = [pools EXCEPT ![p].queue = Tail(@)]
             /\ call' = [call EXCEPT ![Head(q)].at = "trying", ![c] = d]
        ELSE /\ pools' = [pools EXCEPT ![p].running = @ - 1]
             /\ call' = [call EXCEPT ![c] = d]

-------------------------------------------------------------------------------
(* The operations: what an answer to the step-th request of one means.     *)

(* An object with the fields asked for, one without them, and the errors:  *)
(* not found, an action the provider denies, any other.                    *)
Answers == {"result", "malformed", "notFound", "unsupported", "refused"}

(* Fields are checked, or taken as they are.                               *)
Strict(answer)  == IF answer = "result" THEN "ok" ELSE "throws"
Lenient(answer) == IF answer = "malformed" THEN "ok" ELSE Strict(answer)
Lookup(answer)  == IF answer = "notFound" THEN "none" ELSE Lenient(answer)

Process(answer)        == Strict(answer)
AccountHistory(answer) == Lenient(answer)
AccountInfo(answer)    == Lookup(answer)
BlockInfo(answer)      == Lookup(answer)

(* "again": the same operation has one more request to make.               *)
HealthCheck(step, answer) ==
    IF step = 1 /\ answer = "unsupported" THEN "again" ELSE Strict(answer)

AccountsReceivable(step, answer) ==
    IF step = 1 /\ answer = "unsupported" THEN "again" ELSE Lookup(answer)

(* The accounts are asked for one by one when the batch is denied.         *)
AccountsReceivableBatch(step, answer) ==
    CASE step = 1 -> AccountsReceivable(step, answer)
      [] step > 1 /\ Lookup(answer) = "throws" -> "throws"
      [] OTHER -> IF step = 1 + BatchSize THEN "ok" ELSE "again"

Meaning(c, step, answer) ==
    CASE Op[c] = "healthCheck"             -> HealthCheck(step, answer)
      [] Op[c] = "accountInfo"             -> AccountInfo(answer)
      [] Op[c] = "accountsReceivable"      -> AccountsReceivable(step, answer)
      [] Op[c] = "accountsReceivableBatch" -> AccountsReceivableBatch(step, answer)
      [] Op[c] = "accountHistory"          -> AccountHistory(answer)
      [] Op[c] = "blockInfo"               -> BlockInfo(answer)
      [] OTHER                             -> Process(answer)

Ended(c, result) == [NotCalled EXCEPT !.at = "ended", !.pool = call[c].pool,
                                      !.result = result]

(* The record that c is left as by that answer: it ends, or is about to    *)
(* make its next request, with no slot in between.                         *)
After(c, answer) ==
    LET m == Meaning(c, call[c].step, answer)
    IN  IF m = "again"
        THEN [NotCalled EXCEPT !.at = "next", !.pool = call[c].pool,
                               !.step = call[c].step + 1]
        ELSE Ended(c, m)

(* An operation starts, on the client of this or of an earlier pool.       *)
Start(c) ==
    /\ c \in setup.call /\ call[c].at = "idle"
    /\ \E p \in 1..Current : Acquire(c, p, 1)
    /\ UNCHANGED <<setup, active, state, failed, health, failures>>

Continue(c) ==
    /\ call[c].at = "next"
    /\ Acquire(c, call[c].pool, call[c].step)
    /\ UNCHANGED <<setup, active, state, failed, health, failures>>

-------------------------------------------------------------------------------
(* postJson over EndpointPool                                              *)

Usable(c) == LET p == call[c].pool
             IN  pools[p].urls \ (pools[p].cooling \cup call[c].tried)

(* The pool of nano-core picks an endpoint; the request is sent.           *)
Send(c) ==
    /\ call[c].at = "trying"
    /\ \E u \in Usable(c) : call' = [call EXCEPT ![c].at = "sent", ![c].url = u]
    /\ UNCHANGED <<setup, pools, active, state, failed, health, failures>>

(* The head of the answer is in, which clears the 15 s timer.              *)
Respond(c) ==
    /\ call[c].at = "sent"
    /\ call' = [call EXCEPT ![c].at = "body"]
    /\ UNCHANGED <<setup, pools, active, state, failed, health, failures>>

(* The pool tells who listens when the endpoint it uses changes.           *)
Tell(p, status, now) ==
    /\ active' = [active EXCEPT ![p] = now]
    /\ state' = [status |-> status, active |-> now, previous |-> active[p]]

(* Regression: an application error is a failure of the endpoint.          *)
AnswerCools(c) ==
    /\ call[c].at = "body"
    /\ \/ Release(c, After(c, "result"))
       \/ /\ pools' = [pools EXCEPT ![call[c].pool].cooling = @ \cup {call[c].url}]
          /\ call' = [call EXCEPT ![c].at = "trying", ![c].url = None,
                                  ![c].tried = @ \cup {call[c].url}]
    /\ UNCHANGED <<setup, active, state, failed, health, failures>>

(* A JSON object came back, an application error or not.                   *)
Answer(c) ==
    /\ call[c].at = "body"
    /\ \E answer \in Answers : Release(c, After(c, answer))
    /\ LET p == call[c].pool
       IN  IF active[p] = call[c].url THEN UNCHANGED <<active, state>>
           ELSE Tell(p, IF active[p] = None THEN "connected" ELSE "failover",
                     call[c].url)
    /\ UNCHANGED <<setup, failed, health, failures>>

(* The transport fails: no connection, the timer, 429 or a rate limit, an  *)
(* HTTP error, no JSON object.  The endpoint cools down.                   *)
Fail(c) ==
    /\ call[c].at \in {"sent", "body"}
    /\ Fault
    /\ pools' = [pools EXCEPT ![call[c].pool].cooling = @ \cup {call[c].url}]
    /\ failed' = failed \cup {<<call[c].pool, call[c].url>>}
    /\ call' = [call EXCEPT ![c].at = "trying", ![c].url = None,
                            ![c].tried = @ \cup {call[c].url}]
    /\ UNCHANGED <<setup, active, state, health>>

(* Regression: the slot is kept when the request throws.                   *)
ExhaustKeepsSlot(c) ==
    /\ call[c].at = "trying" /\ Usable(c) = {}
    /\ call' = [call EXCEPT ![c] = Ended(c, "exhausted")]
    /\ Tell(call[c].pool, "disconnected", None)
    /\ UNCHANGED <<setup, pools, failed, health, failures>>

(* No endpoint is left: the pool throws, which rejects the operation.      *)
Exhaust(c) ==
    /\ call[c].at = "trying" /\ Usable(c) = {}
    /\ Release(c, Ended(c, "exhausted"))
    /\ Tell(call[c].pool, "disconnected", None)
    /\ UNCHANGED <<setup, failed, health, failures>>

(* A cooldown ends.                                                        *)
Warm(p) ==
    /\ \E u \in pools[p].cooling :
           pools' = [pools EXCEPT ![p].cooling = @ \ {u}]
    /\ UNCHANGED <<setup, call, active, state, failed, health, failures>>

(* addNode, removeNode: refreshClient.                                     *)
Refresh ==
    /\ Current < Len(Nodes)
    /\ pools' = Append(pools, NewPool(Current + 1))
    /\ active' = Append(active, None)
    /\ cache' = [cache EXCEPT !.fresh = FALSE]
    /\ UNCHANGED <<setup, call, state, failed, probe, asker, failures>>

-------------------------------------------------------------------------------
(* getHealthReport                                                         *)

(* A fresh cache answers unless the caller forces a round; a round that    *)
(* is under way is shared.                                                 *)
Ask(k) ==
    /\ k \in setup.asker /\ asker[k] = "idle"
    /\ \E force \in BOOLEAN :
           IF cache.fresh /\ ~ force
           THEN /\ asker' = [asker EXCEPT ![k] = "answered"]
                /\ UNCHANGED probe
           ELSE /\ asker' = [asker EXCEPT ![k] = "waiting"]
                /\ IF probe.on THEN UNCHANGED probe
                   ELSE probe' = [urls |-> pools[Current].urls, healthy |-> {},
                                  left |-> pools[Current].urls, on |-> TRUE]
    /\ UNCHANGED <<calls, cache, failures>>

(* probeEndpoint, on a transport of its own.  It never throws: version, or *)
(* block_count where version is denied, or a rate limit, count as healthy. *)
Probe ==
    /\ probe.on
    /\ \E u \in probe.left :
           \/ /\ probe' = [probe EXCEPT !.left = @ \ {u}, !.healthy = @ \cup {u}]
              /\ UNCHANGED failures
           \/ /\ Fault
              /\ probe' = [probe EXCEPT !.left = @ \ {u}]
    /\ UNCHANGED <<calls, cache, asker>>

(* The round is cached and answers everyone who waits for it.              *)
Report ==
    /\ probe.on /\ probe.left = {}
    /\ cache' = [urls |-> probe.urls, healthy |-> probe.healthy, fresh |-> TRUE]
    /\ probe' = NoProbe
    /\ asker' = [k \in Asker |-> IF asker[k] = "waiting" THEN "answered" ELSE asker[k]]
    /\ UNCHANGED <<calls, failures>>

(* 30 seconds pass.                                                        *)
Expire ==
    /\ cache.fresh
    /\ cache' = [cache EXCEPT !.fresh = FALSE]
    /\ UNCHANGED <<calls, probe, asker, failures>>

-------------------------------------------------------------------------------
CallStep(c) == Continue(c) \/ Send(c) \/ Respond(c) \/ Answer(c) \/ Exhaust(c)

Next ==
    \/ \E c \in Call : Start(c) \/ CallStep(c) \/ Fail(c)
    \/ \E p \in 1..Current : Warm(p)
    \/ Refresh
    \/ \E k \in Asker : Ask(k)
    \/ Probe \/ Report \/ Expire

Spec == Init /\ [][Next]_vars

(* A request ends: what no timer of this code covers, the reading of the   *)
(* body, is bounded by the HTTP client.                                    *)
FairSpec ==
    /\ Spec
    /\ \A c \in Call : WF_vars(CallStep(c))
    /\ WF_vars(Probe) /\ WF_vars(Report)

-------------------------------------------------------------------------------
(* Properties                                                              *)

TypeOK ==
    /\ setup \in Setup
    /\ pools \in Seq([urls : SUBSET Url, running : Nat, queue : Seq(Call),
                      cooling : SUBSET Url])
    /\ call \in [Call -> [at : {"idle", "waiting", "trying", "sent", "body",
                                "next", "ended"},
                          pool : Nat, step : Nat, url : Url \cup {None},
                          tried : SUBSET Url,
                          result : {None, "ok", "none", "throws", "exhausted"}]]
    /\ active \in Seq(Url \cup {None})
    /\ failed \in SUBSET (Nat \X Url)
    /\ probe \in [urls : SUBSET Url, left : SUBSET Url, healthy : SUBSET Url,
                  on : BOOLEAN]
    /\ cache \in [urls : SUBSET Url, healthy : SUBSET Url, fresh : BOOLEAN]
    /\ asker \in [Asker -> {"idle", "waiting", "answered"}]
    /\ failures \in 0..MaxFailures

Holders(p) == {c \in Call : call[c].pool = p
                            /\ call[c].at \in {"trying", "sent", "body"}}

(* What the semaphore counts is what is in flight: a slot is held by       *)
(* exactly one operation, never more than there are, and an operation      *)
(* waits only while all are held.                                          *)
SlotsAreAccounted ==
    \A p \in 1..Current :
        /\ pools[p].running = Cardinality(Holders(p))
        /\ pools[p].running <= Slots(p)
        /\ pools[p].queue # << >> => pools[p].running = Slots(p)

(* An operation is told that no endpoint is left only if each endpoint of  *)
(* its pool has failed as a transport, for it or for another: application  *)
(* errors never wear a pool out.                                           *)
OnlyFailuresExhaust ==
    \A c \in Call : call[c].result = "exhausted" =>
        \A u \in pools[call[c].pool].urls : <<call[c].pool, u>> \in failed

(* Every operation that was started and every health report that was asked *)
(* for is answered, whatever fails, is retried on another endpoint, waits  *)
(* in a queue or is overtaken by a change of the nodes.                    *)
RequestsEnd ==
    /\ \A c \in Call : call[c].at # "idle" ~> call[c].at = "ended"
    /\ \A k \in Asker : asker[k] = "waiting" ~> asker[k] = "answered"
===============================================================================
