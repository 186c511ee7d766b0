--------------------------- MODULE SendOrchestrator ---------------------------
(***************************************************************************)
(* The durable send pipeline: packages/runtime/src/send-orchestrator.ts    *)
(* over the SQLite stores of packages/storage/src/index.ts, the account    *)
(* operation lease of packages/runtime/src/account-operation-executor.ts   *)
(* and the Nano network.                                                   *)
(*                                                                         *)
(* An instance is one runtime process; several may share the database.  A  *)
(* step is what happens between two awaits: one statement on the database, *)
(* one call to a node.  A crash loses an instance's own variables and      *)
(* keeps the database.  Time is not counted: a lease may expire whenever   *)
(* its holder stalls, and does expire when its holder is gone.             *)
(***************************************************************************)
EXTENDS NanoLedger, FiniteSets

CONSTANTS
    Instance,     \* runtime processes that may share the database
    Teams,        \* the sets of them that a behaviour may run
    Account,      \* Nano accounts the custody engine can sign for
    Managed,      \* the accounts with a row in "accounts"; the others are
                  \* invoice addresses (resolveSource)
    Send,         \* identifiers of send rows
    Source,       \* [Send -> Account]
    Destination,  \* [Send -> destinations]
    Amount,       \* [Send -> Nat \ {0}]
    Opening,      \* [Account -> Nat]: the balance each account starts with
    None,         \* NULL
    MaxFaults,    \* bound on failures: crashes, stalls, refused or timed out
                  \* calls, insufficient work
    MaxDeposits   \* bound on the receive blocks other workers publish

ASSUME ConstantsAssumption ==
    /\ Managed \subseteq Account
    /\ Source \in [Send -> Account]
    /\ Amount \in [Send -> Nat \ {0}]
    /\ DOMAIN Destination = Send
    /\ Opening \in [Account -> Nat]
    /\ None \notin Instance /\ None \notin Send
    /\ IsFiniteSet(Send)
    /\ Teams \subseteq SUBSET Instance
    /\ MaxFaults \in Nat
    /\ MaxDeposits \in Nat

VARIABLES
    \* the database
    created,      \* [Send -> Nat]: created_at of the send rows, in order
    status,       \* [Send -> SendStatus]
    hash,         \* [Send -> block or << >>]: sends.block_hash
    intent,       \* [Send -> [block, work]]: send_block_intents
    lease,        \* [Account -> the instance whose lease is current, or None]
    cached,       \* [Account -> block]: accounts.frontier
    events,       \* the persisted events, as <<type, send>>
    \* the network
    chain,        \* [Account -> the account's chain]
    wire,         \* requests that timed out and that a node may still handle
    \* each instance
    pc,           \* where its tick stands
    todo,         \* the sends its tick still has to publish
    current,      \* the send it is publishing
    draft,        \* the block it signed or loaded, with its work
    retried,      \* whether this publish has already regenerated the work
    confirming,   \* confirmingSends: the sends it polls block_info for
    \* bounds
    faults,
    deposits,
    running       \* the processes that work on the database, for good

database == <<created, status, hash, intent, lease, cached, events>>
network  == <<chain, wire>>
local    == <<pc, todo, current, draft, retried, confirming>>
bounds   == <<faults, deposits, running>>
vars     == <<database, network, local, bounds>>

-------------------------------------------------------------------------------
(* Types.                                                                  *)

SendStatus == {"absent", "queued", "published", "confirmed", "failed"}
EventType  == {"send.published", "send.confirmed", "send.failed"}
Work       == {"valid", "low"}

(* The states of a publish that are followed by assertCurrent(), and the   *)
(* step each one leads to when the lease is still held.                    *)
AfterCheck ==
    [acquired |-> "load",       drafted |-> "create", ready    |-> "process",
     reworked |-> "updateWork", short   |-> "fail",   rejected |-> "fail",
     accepted |-> "publish"]

(* The states in which a statement or a call may fail and abandon the      *)
(* publish: the error is swallowed and the send keeps its status.          *)
Fallible == {"load", "prepare", "create", "process", "rework", "updateWork",
             "fail", "emitFailed", "publish", "cache", "emitPublished"}

PC == {"idle", "next", "release"} \cup DOMAIN AfterCheck \cup Fallible

Operation(s) == SendOp(Destination[s], Amount[s])
NoBlock   == [block |-> << >>, work |-> "valid"]
Signed(b) == b.block # << >>

(* An instance publishes its current send, from the send's account, while  *)
(* it is neither idle nor between two sends.                               *)
Publishing(i) == pc[i] \notin {"idle", "next"}
Home(i) == Source[current[i]]
Holds(i) == lease[Home(i)] = i

-------------------------------------------------------------------------------
Init ==
    /\ created = [s \in Send |-> 0]
    /\ status = [s \in Send |-> "absent"]
    /\ hash = [s \in Send |-> << >>]
    /\ intent = [s \in Send |-> NoBlock]
    /\ lease = [a \in Account |-> None]
    /\ cached = [a \in Account |-> << >>]
    /\ events = {}
    /\ chain = [a \in Account |-> << >>]
    /\ wire = {}
    /\ pc = [i \in Instance |-> "idle"]
    /\ todo = [i \in Instance |-> {}]
    /\ current = [i \in Instance |-> None]
    /\ draft = [i \in Instance |-> NoBlock]
    /\ retried = [i \in Instance |-> FALSE]
    /\ confirming = [i \in Instance |-> {}]
    /\ faults = 0
    /\ deposits = 0
    /\ running \in Teams

Goto(i, state) == pc' = [pc EXCEPT ![i] = state]
Fault ==
    /\ faults < MaxFaults /\ faults' = faults + 1
    /\ UNCHANGED <<deposits, running>>

(* queueSend and queueRefund insert the row of a new send.                 *)
QueueSend(s) ==
    /\ status[s] = "absent"
    /\ status' = [status EXCEPT ![s] = "queued"]
    /\ created' = [created EXCEPT ![s] =
                        1 + Cardinality({t \in Send : status[t] # "absent"})]
    /\ UNCHANGED <<hash, intent, lease, cached, events, network, local,
                   bounds>>

-------------------------------------------------------------------------------
(* tick(): one snapshot of the queued and of the published sends, then the *)
(* queued ones one after the other, the newest first (listByStatus).       *)

(* Regression: the snapshot lists published sends for publication too.     *)
SendsNotConfirmed == {s \in Send : status[s] \in {"queued", "published"}}

QueuedSends == {s \in Send : status[s] = "queued"}

(* Regression: a tick does not resume the polling of published sends.      *)
TickForgetsPublished(i) ==
    /\ pc[i] = "idle"
    /\ todo' = [todo EXCEPT ![i] = QueuedSends]
    /\ Goto(i, "next")
    /\ UNCHANGED <<database, network, current, draft, retried, confirming,
                   bounds>>

Tick(i) ==
    /\ pc[i] = "idle"
    /\ todo' = [todo EXCEPT ![i] = QueuedSends]
    /\ confirming' =
        [confirming EXCEPT ![i] = @ \cup {s \in Send : status[s] = "published"}]
    /\ Goto(i, "next")
    /\ UNCHANGED <<database, network, current, draft, retried, bounds>>

EndTick(i) ==
    /\ pc[i] = "next" /\ todo[i] = {}
    /\ Goto(i, "idle")
    /\ UNCHANGED <<database, network, todo, current, draft, retried,
                   confirming,
                   bounds>>

NextUp(i, s) ==
    /\ pc[i] = "next" /\ s \in todo[i]
    /\ \A t \in todo[i] : created[t] <= created[s]

(* Another operation holds the account, or the lookup of the source or of  *)
(* its lease fails: the send waits for a later tick.                       *)
Skip(i, s) ==
    /\ todo' = [todo EXCEPT ![i] = @ \ {s}]
    /\ UNCHANGED <<database, network, pc, current, draft, retried, confirming>>

SkipLocked(i) ==
    \E s \in todo[i] :
        /\ NextUp(i, s) /\ lease[Source[s]] # None
        /\ Skip(i, s)
        /\ UNCHANGED bounds

LookupFails(i) ==
    \E s \in todo[i] : NextUp(i, s) /\ Fault /\ Skip(i, s)

-------------------------------------------------------------------------------
(* AccountOperationExecutor.run                                            *)

Acquire(i) ==
    /\ \E s \in todo[i] :
        /\ NextUp(i, s) /\ lease[Source[s]] = None
        /\ lease' = [lease EXCEPT ![Source[s]] = i]
        /\ current' = [current EXCEPT ![i] = s]
        /\ todo' = [todo EXCEPT ![i] = @ \ {s}]
    /\ Goto(i, "acquired")
    /\ UNCHANGED <<created, status, hash, intent, cached, events, network,
                   draft, retried, confirming, bounds>>

AssertCurrent(i) ==
    /\ pc[i] \in DOMAIN AfterCheck
    /\ Goto(i, IF Holds(i) THEN AfterCheck[pc[i]] ELSE "release")
    /\ UNCHANGED <<database, network, todo, current, draft, retried,
                   confirming, bounds>>

Release(i) ==
    /\ pc[i] = "release"
    /\ lease' = IF Holds(i) THEN [lease EXCEPT ![Home(i)] = None] ELSE lease
    /\ current' = [current EXCEPT ![i] = None]
    /\ draft' = [draft EXCEPT ![i] = NoBlock]
    /\ retried' = [retried EXCEPT ![i] = FALSE]
    /\ Goto(i, "next")
    /\ UNCHANGED <<created, status, hash, intent, cached, events, network,
                   todo, confirming, bounds>>

(* The lease runs out while its holder is stalled and cannot renew it, or  *)
(* after its holder crashed or moved on.                                   *)
Working(i, a) == Publishing(i) /\ Home(i) = a

Expire(a) ==
    /\ lease' = [lease EXCEPT ![a] = None]
    /\ UNCHANGED <<created, status, hash, intent, cached, events, network,
                   local>>

LeaseOutlivesStall(a) ==
    /\ lease[a] # None /\ Working(lease[a], a)
    /\ Fault
    /\ Expire(a)

LeaseOfTheDeadExpires(a) ==
    /\ lease[a] # None /\ ~ Working(lease[a], a)
    /\ Expire(a)
    /\ UNCHANGED bounds

-------------------------------------------------------------------------------
(* publishSendUnderLease, up to the saved intent                           *)

Load(i) ==
    /\ pc[i] = "load"
    /\ LET saved == intent[current[i]] IN
        /\ draft' = [draft EXCEPT ![i] = saved]
        /\ Goto(i, IF Signed(saved) THEN "ready" ELSE "prepare")
    /\ UNCHANGED <<database, network, todo, current, retried, confirming,
                   bounds>>

(* Work generation is a call that may return work the node will refuse.    *)
GenerateWork(w) ==
    \/ w = "valid" /\ UNCHANGED bounds
    \/ w = "low" /\ Fault

Affordable(s) == Balance(Opening[Source[s]], chain[Source[s]]) >= Amount[s]

(* Regression: the block is broadcast before its intent is saved.          *)
PrepareUnsaved(i) ==
    /\ pc[i] = "prepare"
    /\ draft' = [draft EXCEPT ![i] = [work |-> "valid", block |->
            Append(chain[Home(i)], Operation(current[i]))]]
    /\ Goto(i, IF Affordable(current[i]) THEN "ready" ELSE "short")
    /\ UNCHANGED <<database, network, todo, current, retried, confirming,
                   bounds>>

Prepare(i) ==
    /\ pc[i] = "prepare"
    /\ LET s == current[i] IN
        \/ /\ ~ Affordable(s)
           /\ Goto(i, "short")
           /\ UNCHANGED <<draft, bounds>>
        \/ /\ Affordable(s)
           /\ \E w \in Work :
                /\ GenerateWork(w)
                /\ draft' = [draft EXCEPT ![i] =
                        [block |-> Append(chain[Source[s]], Operation(s)), work |-> w]]
           /\ Goto(i, "drafted")
    /\ UNCHANGED <<database, network, todo, current, retried, confirming>>

(* createIfAbsent: the first intent of a send wins, and is what is used.   *)
KeepFirst(saved, new) == IF Signed(saved) THEN saved ELSE new

CreateIntent(i) ==
    /\ pc[i] = "create"
    /\ LET s == current[i]
           kept == KeepFirst(intent[s], draft[i])
       IN  /\ intent' = [intent EXCEPT ![s] = kept]
           /\ draft' = [draft EXCEPT ![i] = kept]
    /\ Goto(i, "ready")
    /\ UNCHANGED <<created, status, hash, lease, cached, events, network,
                   todo, current, retried, confirming, bounds>>

-------------------------------------------------------------------------------
(* publish(): process, and block_info when the node says "Old block"       *)

(* Regression: every error but a work rejection counts as an old block.    *)
TrustAnyAnswer(verdict, again) ==
    CASE verdict \in {"accepted", "old block", "fork"} -> "accepted"
      [] verdict = "work rejected" -> IF again THEN "rejected" ELSE "rework"

(* What the caller does with the node's answer; a fork is an error like    *)
(* any other and leaves the send queued.                                   *)
AfterProcess(verdict, again) ==
    CASE verdict \in {"accepted", "old block"} -> "accepted"
      [] verdict = "work rejected" -> IF again THEN "rejected" ELSE "rework"
      [] verdict = "fork" -> "release"

Process(i) ==
    /\ pc[i] = "process"
    /\ LET a == Home(i)
           verdict == Verdict(draft[i].block, draft[i].work, chain[a])
       IN  /\ chain' = IF verdict = "accepted"
                       THEN [chain EXCEPT ![a] = draft[i].block] ELSE chain
           /\ Goto(i, AfterProcess(verdict, retried[i]))
    /\ UNCHANGED <<database, wire, todo, current, draft, retried, confirming,
                   bounds>>

(* The call times out: a node may handle the request later, or never.      *)
ProcessTimesOut(i) ==
    /\ pc[i] = "process"
    /\ Fault
    /\ wire' = wire \cup {[account |-> Home(i),
                           block |-> draft[i].block, work |-> draft[i].work]}
    /\ Goto(i, "release")
    /\ UNCHANGED <<database, chain, todo, current, draft, retried, confirming>>

NodeHandlesLate(m) ==
    /\ m \in wire
    /\ wire' = wire \ {m}
    /\ chain' = IF Verdict(m.block, m.work, chain[m.account]) = "accepted"
                THEN [chain EXCEPT ![m.account] = m.block] ELSE chain
    /\ UNCHANGED <<database, local, bounds>>

(* The one retry after "Block work is less than threshold".                *)
Rework(i) ==
    /\ pc[i] = "rework"
    /\ \E w \in Work :
        /\ GenerateWork(w)
        /\ draft' = [draft EXCEPT ![i].work = w]
    /\ Goto(i, "reworked")
    /\ UNCHANGED <<database, network, todo, current, retried, confirming>>

UpdateWork(i) ==
    /\ pc[i] = "updateWork"
    /\ intent' = [intent EXCEPT ![current[i]].work = draft[i].work]
    /\ retried' = [retried EXCEPT ![i] = TRUE]
    /\ Goto(i, "ready")
    /\ UNCHANGED <<created, status, hash, lease, cached, events, network,
                   todo, current, draft, confirming, bounds>>

-------------------------------------------------------------------------------
(* The outcome: sends, accounts and events rows, one statement each        *)

Fail(i) ==
    /\ pc[i] = "fail"
    /\ status' = [status EXCEPT ![current[i]] = "failed"]
    /\ Goto(i, "emitFailed")
    /\ UNCHANGED <<created, hash, intent, lease, cached, events, network,
                   todo, current, draft, retried, confirming, bounds>>

EmitFailed(i) ==
    /\ pc[i] = "emitFailed"
    /\ events' = events \cup {<<"send.failed", current[i]>>}
    /\ Goto(i, "release")
    /\ UNCHANGED <<created, status, hash, intent, lease, cached, network,
                   todo, current, draft, retried, confirming, bounds>>

MarkPublished(i) ==
    /\ pc[i] = "publish"
    /\ status' = [status EXCEPT ![current[i]] = "published"]
    /\ hash' = [hash EXCEPT ![current[i]] = draft[i].block]
    /\ Goto(i, IF Home(i) \in Managed THEN "cache" ELSE "emitPublished")
    /\ UNCHANGED <<created, intent, lease, cached, events, network,
                   todo, current, draft, retried, confirming, bounds>>

CacheFrontier(i) ==
    /\ pc[i] = "cache"
    /\ cached' = [cached EXCEPT ![Home(i)] = draft[i].block]
    /\ Goto(i, "emitPublished")
    /\ UNCHANGED <<created, status, hash, intent, lease, events, network,
                   todo, current, draft, retried, confirming, bounds>>

EmitPublished(i) ==
    /\ pc[i] = "emitPublished"
    /\ events' = events \cup {<<"send.published", current[i]>>}
    /\ confirming' = [confirming EXCEPT ![i] = @ \cup {current[i]}]
    /\ Goto(i, "release")
    /\ UNCHANGED <<created, status, hash, intent, lease, cached, network,
                   todo, current, draft, retried, bounds>>

-------------------------------------------------------------------------------
(* confirmPublishedSend: polls block_info, then reads the row, updates it  *)
(* and emits.  Its awaits are taken as one step here.  The runtime's other *)
(* path to "confirmed", a watched block, has the same effect.              *)

Confirm(i, s) ==
    /\ s \in confirming[i]
    /\ OnChain(hash[s], chain[Source[s]])
    /\ IF status[s] # "confirmed"
       THEN /\ status' = [status EXCEPT ![s] = "confirmed"]
            /\ events' = events \cup {<<"send.confirmed", s>>}
       ELSE UNCHANGED <<status, events>>
    /\ confirming' = [confirming EXCEPT ![i] = @ \ {s}]
    /\ UNCHANGED <<created, hash, intent, lease, cached, network,
                   pc, todo, current, draft, retried, bounds>>

(* The polling deadline passes; a later tick polls again.                  *)
StopConfirming(i, s) ==
    /\ s \in confirming[i]
    /\ Fault
    /\ confirming' = [confirming EXCEPT ![i] = @ \ {s}]
    /\ UNCHANGED <<database, network, pc, todo, current, draft, retried>>

-------------------------------------------------------------------------------
(* Failures, and the other writers of an account chain.                    *)

(* A statement or a call fails before it has an effect.                    *)
CallFails(i) ==
    /\ pc[i] \in Fallible
    /\ Fault
    /\ Goto(i, "release")
    /\ UNCHANGED <<database, network, todo, current, draft, retried,
                   confirming>>

(* The process dies and is started again: its lease stays in the database. *)
Crash(i) ==
    /\ pc[i] # "idle" \/ confirming[i] # {}
    /\ Fault
    /\ Goto(i, "idle")
    /\ todo' = [todo EXCEPT ![i] = {}]
    /\ current' = [current EXCEPT ![i] = None]
    /\ draft' = [draft EXCEPT ![i] = NoBlock]
    /\ retried' = [retried EXCEPT ![i] = FALSE]
    /\ confirming' = [confirming EXCEPT ![i] = {}]
    /\ UNCHANGED <<database, network>>

(* The receive orchestrator publishes a receive block for a deposit, under *)
(* the same lease; its whole turn is one step here.                        *)
ReceiveDeposit(a) ==
    /\ lease[a] = None
    /\ deposits < MaxDeposits
    /\ deposits' = deposits + 1
    /\ chain' = [chain EXCEPT ![a] = Append(@, ReceiveOp(deposits, 1))]
    /\ UNCHANGED <<database, wire, local, faults, running>>

-------------------------------------------------------------------------------
Publish(i) ==
    \/ Tick(i) \/ EndTick(i) \/ SkipLocked(i) \/ Acquire(i)
    \/ AssertCurrent(i) \/ Release(i)
    \/ Load(i) \/ Prepare(i) \/ CreateIntent(i)
    \/ Process(i) \/ Rework(i) \/ UpdateWork(i)
    \/ Fail(i) \/ EmitFailed(i)
    \/ MarkPublished(i) \/ CacheFrontier(i) \/ EmitPublished(i)

Disturb(i) == LookupFails(i) \/ ProcessTimesOut(i) \/ CallFails(i) \/ Crash(i)

Next ==
    \/ \E s \in Send : QueueSend(s)
    \/ \E i \in running : Publish(i) \/ Disturb(i)
    \/ \E i \in running, s \in Send : Confirm(i, s) \/ StopConfirming(i, s)
    \/ \E a \in Account : LeaseOutlivesStall(a) \/ LeaseOfTheDeadExpires(a)
    \/ \E a \in Account : ReceiveDeposit(a)
    \/ \E m \in wire : NodeHandlesLate(m)

Spec == Init /\ [][Next]_vars

(* The interval timer keeps ticking and an operation that is not disturbed *)
(* goes on; a lease nobody renews runs out; a polled block is confirmed.   *)
Fairness ==
    /\ \A i \in Instance : WF_vars(i \in running /\ Publish(i))
    /\ \A i \in Instance, s \in Send : WF_vars(i \in running /\ Confirm(i, s))
    /\ \A a \in Account : WF_vars(LeaseOfTheDeadExpires(a))

FairSpec == Spec /\ Fairness

-------------------------------------------------------------------------------
(* Properties                                                              *)

Op == [kind : {"send"}, link : {Destination[s] : s \in Send},
       amount : {Amount[s] : s \in Send}]
      \cup [kind : {"receive"}, link : Nat, amount : {1}]
SignedBlock == [block : Seq(Op), work : Work]

TypeOK ==
    /\ created \in [Send -> Nat]
    /\ status \in [Send -> SendStatus]
    /\ hash \in [Send -> Seq(Op)]
    /\ intent \in [Send -> SignedBlock]
    /\ lease \in [Account -> Instance \cup {None}]
    /\ cached \in [Account -> Seq(Op)]
    /\ events \subseteq EventType \X Send
    /\ chain \in [Account -> Seq(Op)]
    /\ wire \subseteq [account : Account, block : Seq(Op), work : Work]
    /\ pc \in [Instance -> PC]
    /\ todo \in [Instance -> SUBSET Send]
    /\ current \in [Instance -> Send \cup {None}]
    /\ draft \in [Instance -> SignedBlock]
    /\ retried \in [Instance -> BOOLEAN]
    /\ confirming \in [Instance -> SUBSET Send]
    /\ faults \in 0..MaxFaults
    /\ deposits \in 0..MaxDeposits
    /\ running \in Teams

Transfers(a, op) == {n \in DOMAIN chain[a] : chain[a][n] = op}
Requests(a, op) == {s \in Send : Source[s] = a /\ Operation(s) = op}

(* SECURITY.md's double send: whatever fails, times out or is retried, an  *)
(* account's chain never holds more transfers of an amount to a            *)
(* destination than there are sends asking for it.                         *)
NeverPaidTwice ==
    \A s \in Send :
        LET a == Source[s]
            op == Operation(s)
        IN  Cardinality(Transfers(a, op)) <= Cardinality(Requests(a, op))

(* A send reported as published or confirmed names the block of its own    *)
(* saved intent, and the network has that block: no answer that leaves the *)
(* outcome open is ever recorded as a success.  The account row's frontier *)
(* is a block of the chain too.                                            *)
ReportedIsOnChain ==
    /\ \A s \in Send : status[s] \in {"published", "confirmed"} =>
        /\ hash[s] = intent[s].block
        /\ OnChain(hash[s], chain[Source[s]])
    /\ \A a \in Account : cached[a] # << >> => OnChain(cached[a], chain[a])

Moved(s) == OnChain(intent[s].block, chain[Source[s]])

(* "Only deterministic preparation failures are terminal"                  *)
(* (send-orchestrator.ts): a send reported as failed has moved no money.   *)
FailedNeverPaid == \A s \in Send : status[s] = "failed" => ~ Moved(s)

(* A send is signed once: whichever workers race for it, the block of its  *)
(* saved intent is never replaced; only its work may be.                   *)
SignedOnce ==
    [][\A s \in Send : Signed(intent[s]) => intent'[s].block = intent[s].block]_vars

(* The saved block of a queued send can no longer extend the chain.        *)
Forked(s) ==
    /\ status[s] = "queued" /\ Signed(intent[s])
    /\ ~ Moved(s)
    /\ ~ IsPrefix(chain[Source[s]], Front(intent[s].block))

(* Every accepted send is eventually confirmed or failed, unless another   *)
(* block took the place of a signed one on its account's chain.            *)
EverySendSettles ==
    \A s \in Send :
        status[s] = "queued" ~>
            \/ status[s] \in {"confirmed", "failed"}
            \/ \E t \in Send : Source[t] = Source[s] /\ Forked(t)

(* rfcs/0003-event-model.md: send.failed fires on "Rejected, timeout, or   *)
(* fork", so a send whose block lost its place to another one is failed.   *)
ForkIsReported ==
    \A s \in Send : Forked(s) ~> status[s] = "failed"

(* rfcs/0003-event-model.md: "Every state change emits an event."          *)
FailureIsAnnounced ==
    \A s \in Send : status[s] = "failed" ~> <<"send.failed", s>> \in events

(* The contract, read off the rows and the chains.                         *)
Contract == INSTANCE SendContract WITH
    outcome <- status,
    moved <- [s \in Send |-> Moved(s)]

Alone == \A i, j \in running : i = j

(* The pipeline implements the contract when one process owns the database *)
(* (publishSendUnderLease and confirmPublishedSend are its only writers)   *)
(* and no two sends ask for the same transfer: every step is one of the    *)
(* contract's steps for one send, or changes nothing the contract sees.    *)
KeepsContract ==
    /\ Contract!Init
    /\ [][Alone => Contract!Next]_<<status, [s \in Send |-> Moved(s)]>>

(* Distinct idempotency keys are distinct sends: as many transfers reached *)
(* the chain as there are sends of that transfer reported as published.    *)
OneTransferPerReportedSend ==
    \A s \in Send :
        LET a == Source[s]
            op == Operation(s)
        IN  Cardinality(Transfers(a, op)) >=
                Cardinality({t \in Requests(a, op) :
                                status[t] \in {"published", "confirmed"}})
===============================================================================
