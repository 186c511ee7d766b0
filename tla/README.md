# RaiFlow in TLA+

RaiFlow is a payment runtime for the Nano network. An application asks it over
HTTP for invoices, accounts, sends and refunds; RaiFlow derives addresses, signs
blocks, watches the network for confirmed blocks, keeps everything in one SQLite
database and reports what happens as events and webhooks. This directory holds
TLA+ models of its components, the TLC configurations that check them on small
instances, and proofs that hold for every instance.

Sources are named relative to the repository's `packages/` directory.

## 1. Inventory

| Component | State | Operations | Hard because of | Module |
|---|---|---|---|---|
| Send pipeline: `runtime/src/send-orchestrator.ts`, stores in `storage/src/index.ts` | `sends`, `send_block_intents`; `processing`, `confirmingSends` | queue, tick, publish under a lease, work retry, fail, confirm | lost answers, replays, crashes between steps, several processes | `SendOrchestrator` |
| Account operation lease: `runtime/src/account-operation-executor.ts` | `account_operation_leases` | acquire, assertCurrent, release | checked, then used; expiry | in the two pipelines |
| Receive pipeline: `runtime/src/receive-orchestrator.ts` | `receive_tasks`, `receive_block_intents` | enqueue, process the next task, retry, confirm, recover | one task at a time, resumption after a crash, ambiguous broadcasts | `ReceiveOrchestrator` |
| Confirmed deposits: `runtime.ts` (`handleConfirmedBlock`, `cancelInvoice`, `runExpiryCheck`), ingest transaction | `invoices`, `deposits`, `payments`, `events`; sets of blocks in memory | ingest, cancel, expire | duplicate, late and reordered blocks; three ways to end an invoice | `DepositIngest` |
| Invoice creation: `createInvoice`, `invoice_accounts`, idempotency tables | rows, two kinds of keys | look up, allocate, insert, record, announce | several tables without a transaction, concurrent calls | `InvoiceCreation` |
| Refunds and sweep: `queueRefund`, `runInvoiceSweepCheck` | `refunds`, `sends`, `events` | queue a refund, queue a sweep, announce it | stale balances, overlapping passes, retries | `Payouts` |
| Webhook outbox: `runtime/src/webhook-outbox-worker.ts`, `webhook/src/delivery.ts` | `webhook_outbox`, `webhook_deliveries`, `webhooks` | emit, claim, deliver, record, delete | claims that expire while the delivery goes on | `WebhookOutbox` |
| Event feed: `GET /events`, `examples/shared/durable-event-consumer.mjs` | `events`, the consumer's file | page, handle, save the cursor | filtered pages, a consumer that dies | `EventFeed` |
| Watcher: `watcher/src/*.ts` | watch list, subscription, `seenHashes`, persisted cursors | add and remove an account, subscribe, poll, reconcile the history | three sources of one block, failures of the sink, a subscription that is replaced | `WatcherRecovery` |
| Accounts: `createManagedAccount`, `updateAccount`, `deleteAccount`, `runtime/src/account-state-sync.ts` | `accounts` rows, `watchedAccounts` | create, label, delete, synchronise | read-modify-write of whole rows, stale answers | `AccountRows` |
| Account streams: `handler.ts`, `runtime/src/subscription-manager.ts` | connections, subscriptions | connect, watch, unwatch, publish | additions that take time, clients that leave | `AccountStreams` |
| Block publication: `publishBlock`, `trackBlockConfirmation` | `events`, `confirmingBlocks` | publish, poll, recover | restarts while tracking, replays, a watcher with the same block | `BlockPublication` |
| RPC pool: `rpc/src/index.ts` | semaphores, transports, health cache | call, fail over, refresh, report | slots of replaced pools, everyone waiting | `RpcPool` |
| Schema: `storage/src/index.ts` | tables, `migrations` | nineteen migrations | rebuilding tables with rows | `Migrations` |
| Process entry: `runtime/src/main.ts`, `config/src/index.ts` | `schema_metadata`, the process | open, migrate, start, listen, stop | crashes in the first start, two processes | `Startup` |
| HTTP API: `runtime/src/handler.ts` | `idempotency_keys` | every route | a mutation cut short and sent again | `HttpApi` |
| Custody, SDK, dashboard, examples, site, bundles | none of the system's | signing; clients; rendering | | see section 6 |

How they interact: the HTTP handlers write rows (`sends`, `invoices`, `refunds`);
the send and receive orchestrators pick rows up on timers, take the lease of the
account they write to, and talk to a node through the pool; the watcher hands
confirmed blocks to `handleConfirmedBlock`, which confirms sends and receives
and runs the ingest transaction; every event is a row before anyone is told, and
the outbox worker and the feed deliver from rows. The shared state is the
database, and several runtime processes may share it (RFC 0004).

## 2. How the modules are composed

    NanoLedger     <- SendOrchestrator  implements SendContract
                   <- ReceiveOrchestrator
    SendContract   <- Payouts           (its sends are sends of the contract)
    WebhookOutbox  <- EventFeed         WebhookOutbox implements DeliveryContract
    Migrations     <- Startup <- AccountStreams <- HttpApi
    DepositIngest, WatcherRecovery, InvoiceCreation, AccountRows,
    BlockPublication, RpcPool           stand alone
    Null           the value None that several modules share

`WatcherRecovery` stands on the atomic commit that `DepositIngest` models, and
`Payouts` on the contract that `SendOrchestrator` is proved to implement in one process.
`HttpApi` composes a whole process: its life (`Startup`), its memory
(`AccountStreams`), and the requests it answers.

One action is what happens between two awaits: one SQL statement or transaction,
or one call to a node. A crash loses the memory of a process and keeps the
database. Two kinds of names bound a model: constants in the configuration, and
records of a set `Setup` (`RowSetup` in `AccountRows`, or the variable `running`
of `SendOrchestrator` and `MCDepositIngest`), which fix for one behaviour who
takes part and how often things may go wrong. One run sweeps all of its set-ups. `faults`, `failures`,
`crashes`, `outages` and the like count up to their bound in the guards.

What remains to be done: the await-by-await confirmation of a send
(`send-orchestrator.ts:249` beside `runtime.ts:1693`), and a clock and fencing
tokens for the lease.

## 3. Modules

`NanoLedger` is the Nano node as the runtime uses it: external code, modelled
from the calls in `rpc/src/index.ts`. A block hash commits to the whole history
of its account, so a block is the sequence of operations that ends with it; two
blocks are equal exactly when their hashes are. `Verdict` is what `process`
answers.

**`SendContract`, `SendOrchestrator`.** The contract is what the pipeline
promises of each send: accepted, moved at most once, published or confirmed only
when moved, failed only when not moved.

| In `SendOrchestrator` | In the code |
|---|---|
| `status`, `hash`, `created` | `sends` |
| `intent` | `send_block_intents`: a block and its work |
| `lease` | `account_operation_leases`: the instance whose lease is current; a token is an instance, since an instance runs one publish at a time |
| `cached` | `accounts.frontier` |
| `pc`, `todo`, `current`, `draft`, `retried` | the locals of `tick` and `publishSendUnderLease` |
| `running` | the processes of this behaviour; `Teams` are the sets it may be |
| `wire` | requests that timed out at the client and may still reach a node |
| `Tick` ... `Release` | `tick`, `publishSend`, `AccountOperationExecutor.run` |
| `Load`, `Prepare`, `CreateIntent` | lines 109-153 of `publishSendUnderLease` |
| `Process`, `Rework`, `UpdateWork` | the closure `publish` and the one work retry |
| `Fail`, `EmitFailed`, `MarkPublished`, `CacheFrontier`, `EmitPublished` | one statement each |
| `Confirm`, `StopConfirming` | `confirmPublishedSend` |
| `ProcessTimesOut`, `NodeHandlesLate`, `CallFails`, `LookupFails`, `Crash`, `LeaseOutlivesStall` | failures |
| `ReceiveDeposit` | a whole turn of the receive pipeline, under the same lease |

`assertCurrent` is a step of its own before the statement it guards, so a lease
may expire in between, as it may in the code. Time is not counted (a lease of a
stalled or dead holder may expire at any moment, a renewed one does not);
signing is deterministic; `process` and confirmation by the network are one;
`block_info` after "Old block" succeeds, because a node that has the block
answers for it.

**`ReceiveOrchestrator`.** A task is named by the send it receives.
`ProcessNext` is `processNext` with `processTaskUnderLease`, statement by
statement, over the snapshot `todo` and the retry counts `known` it was read
with; `WatchedSend` and `Enqueue` are the ingestion that creates tasks,
`ConfirmReceive` and `ReplaySource` are `recoverReceiveConfirmations`,
`PublishSend` is a turn of the send pipeline on the account. A process that is
started again may have another minimum.

**`DepositIngest`.** What happens to an invoice from its insertion to its end.
`Admit`, `Return`, `IgnoreDust` are `handleConfirmedBlock`; `Ingest`,
`RefuseBudget`, `Dispatch` and `IngestFails` the transaction, committed, rolled
back by the budget, or failing; `InvoiceOf`, `Disposed`, `StatusAfter`,
`PaymentNews` and `CompletionNews` its stages; `CancelChecks` ... `CancelAnnounces`
are `cancelInvoice` and `ListOverdue`, `Expire`, `AnnounceExpired` are
`runExpiryCheck`, one action for each statement. The byte budget is a
transaction that fails; filling the outbox belongs to the commit of the event;
the path without a database is left out.

**`InvoiceCreation`.** A call of `createInvoice` goes through `Advance`, one
disjunct for each await: look the key and the `invoiceKey` up, allocate an
index, insert, record the unscoped and the scoped key, announce, watch. `plain`
and `scoped` are the two forms of its row in `idempotency_keys`. `StatementFails`
ends a call with an error; `CreationCrash` empties what the watcher was told, and the
start watches the open invoices again.

**`Payouts`.** The money that leaves the address of one invoice. `QueueRefund`,
`ReplayRefund`, `RefuseRefund` are the outcomes of the transaction of
`refundStore.queue`; `Sweep` is `runInvoiceSweepCheck` for the invoice, from the
look at the tasks through the receivables and the balance to the insert;
`Swept` is `emitInvoiceSweptIfMissing`. `Look` compares the address with that of
`invoiceAccountStore.get`, which is the last one made for the `accountKey` when
the invoice has no `invoiceKey`: after `AnotherInvoice` it is no longer this
one's. Receiving is reduced to what the sweep looks at: the node's list, the
tasks and the balance.

**`DeliveryContract`, `WebhookOutbox`, `EventFeed`.** A job is one row of
`webhook_outbox`. `AppendEvent` is the transaction that stores an event and its
jobs; `RunOnce` is claim, attempt, answer and record; `ClaimFromStalled` is a
second worker that claims a row whose lease ran out; `RecordFails` is a record
refused because the row has another owner. `EventFeed` adds `GET /events` with
its page and its filter, and a consumer that keeps its cursor in a file.

**`WatcherRecovery`.** The watcher of one account. The sink is reduced to what
the sources can tell apart: it ingests a block, it fails, or it returns at once
because the block is processed or in progress. `SocketOpens` ... are
`establishSocket` and the listeners. The socket is one ordered `wire` in each
direction; instead of ids, an acknowledgement counts when no other is
`Outstanding`. `AddAccount`, `RemoveAccount` and `OtherAccount` are the calls of
`createInvoice`, `AccountStateSync` and `deleteAccount`, for this account or
another, each of which sends the subscription again. `PollBegins` ...
`PollFails` are `pollOnce`, `PassBegins` ... `PassFails` are `reconcile` and its
callers. Every send is at least the minimum; the history lists only receive blocks; the back-off after a
429 only costs time. Three sets are there for the properties: `relied`, what a
source was told is ingested while another one's ingestion was under way;
`misled`, what of it failed; `skipped`, what a first scan left out. `Stop` is the watcher's own; `main.ts` never calls it, it
closes the database and exits, which is `WatchCrash`.

**`AccountRows`.** The `accounts` row of one address and who writes it. `Hold`
and `Write` are the two halves of `accountStore.update`; in one process nothing
happens between them (`shared = FALSE` in a set-up), a second process does not
wait. `Creating`, `Deleting`, `Queueing`, `ReadForLabel` are the calls;
`ReadForCache` the update after a publication; `Syncing` is `reconcile` and
`initialSync`. The k-th block of the chain is the number k.

**`BlockPublication`.** `Publish` is `publishBlock`, `Step` a polling loop of
`trackBlockConfirmation`, `Break` its failing statements, `Recover` is
`recoverBlockConfirmations`, which lists the oldest `limit` events of each type.
`Enter`, `Commits` and `Breaks` are `handleConfirmedBlock`: `Poll` calls it for a
block that is a send, and goes straight to the announcement for another, and
for one that is handled or that another source is handling (`Other`); dust is
not stored. `left` and `lost` are what a loop left to another source, and what
of it failed; `forgotten` are published blocks that nothing polls. Recovery runs
beside the start, which does not wait for it (`runtime.ts:445`); the server
listens after it has read the events.

**`RpcPool`.** `Start` and `CallStep` are an operation with its requests: it
takes a slot, tries the endpoints that are not cooling, reads the body, falls
back to another action when the provider denies the first. `Refresh` is
`refreshClient`; `Ask`, `Probe`, `Report`, `Expire` are the health report. The
endpoint pool itself is a library's and external.

**`Migrations`, `Startup`, `AccountStreams`, `HttpApi`.** `Migrations` builds
the schema statement by statement, with the references and the rows that make
SQLite refuse a statement. `Startup` runs it in processes that open the
database, migrate it, check custody, start workers, listen, are signalled, die
and are started again. `AccountStreams` adds what a serving process keeps for
its streams: `Connect`, `Watch`, `Subscribe`, `Unwatch`, `Leave` are the routes
and the adapter of `main.ts`; `AnswerAdd`, `FinishAdd` are `initialSync`;
`Reconcile`, `AskNode`, `StoreInfo` are a pass. `HttpApi` adds the table of
routes, each with what it asks for in the order it asks, and the mutations as
courses of steps (look the key up, find what there is, do, tell, put the key) in
the order of each operation, under crashes, shutdowns and clients that send
again, once the first attempt has ended or beside it. A mutation may be done
again whenever its course gets there; what it then does, `Again` and
`Repeatable` say. What other requests do to the same resource is not modelled.

## 4. Runs

| Run | Set-ups | Question | Result |
|---|---|---|---|
| `send` | one process, sends of 1 and 2 from an account of 2, three failures, a deposit; or two processes after the deposit, one failure | Is anything paid twice or reported falsely, does one process implement `SendContract`, does every send settle? | holds |
| `send_twins` | one process, two equal sends, two failures | Is there a transfer for each send reported? | violated |
| `ingest` | one process, two invoices with different policies on one address, three payments and a dust block in every order and repeatedly, a budget of two deposits, cancellation, one failure; or two processes that pay, cancel and expire one invoice | Do rows, amounts and events agree, is the end final, does an overdue invoice end? | holds |
| `watcher` | all three sources with two outages; all three with a failing ingestion or a crash; poller and two passes with two of them; history alone, longer than a first scan; an account added, removed and added again over a socket that closes | Does a source forget a block that is not stored, is an acknowledged subscription the current one, is every block stored? | holds |
| `receive` | one process, two tasks, two failures; one task, four failures; two processes on a failing database; each with a send in between | Are reports true, is a task signed once, does it settle? | holds |
| `delivery` | two workers, one endpoint, two events, two failures; two endpoints; a consumer paging through four events | Is the history true, is `DeliveryContract` implemented, do jobs settle, does the consumer hear everything? | holds |
| `payouts` | two deposits and overlapping passes with one failure; one pass with two, of an invoice that another one may hide; four refund calls beside a pass | Do refunds stay within the deposit, does each payout leave once, does a sweep count what is known, is a completed invoice swept? | holds |
| `invoices` | a repeated key, a repeated `invoiceKey`, both; with a failing statement and with a crash | Do addresses follow keys, does a key answer one invoice, is it served? | holds |
| `accounts` | an account that is created, or is there; one or two processes; a refused answer, a crash | Does a send keep its account, a label stay, the row converge, is the account watched? | holds |
| `blocks` | a payment published twice by its key, and dust, with one failure, one restart and a second source; a payment and a block that is no send, with a recovery that lists one event of a type, two restarts | Is a block announced once, a payment after its ingestion, does it settle? | holds |
| `rpc` | three operations for one slot; two over a change of endpoints; one beside two callers of the health report | Do only failures exhaust a pool, is everyone answered? | holds |
| `process` | starts over databases of several ages, alone and in pairs, with accepted and refused configurations; streams; every route, whole and with one thing missing; mutations cut by a crash or a shutdown and sent again | Are the migrations true, is the API served in the end, do streams hear the latest, are answers true, does a request that is repeated after a success change nothing? | holds |

Bounds, and why they are enough. Two sends are needed for one to overtake the
other and for two equal blocks; two processes for a lease to change hands; an
account that can pay one send and not both makes "insufficient balance" and its
race with a deposit reachable; three failures allow a lost answer, a crash and a
refused work in one behaviour. Two invoices on an address let a match depend on
their age; three payments are a partial, a completing and a late one, or one
beyond the budget; each process may take every block again, which is what
duplicates are. The watcher needs two blocks for a page to be partly seen and a
cursor to stand between two, three for two entries behind a cursor. Its
`pageSize` stands for the 20 hashes of `accounts_receivable` and is never smaller
than what is receivable: a page full of seen hashes hides the rest
(`poller.ts:132`). `batchSize` is smaller than the history in one set-up, so that
a first scan leaves something out. The `limit` of `BlockPublication` stands for
the 10 000 events of each type that the recovery lists: 9 is more than there
can be, 1 is less than there are. `RetryLimit` is 2 where
the code has 3: what matters is that it can be reached and that an attempt after
a broadcast does not count. `MaxAttempts` is 2 where the code has 6, for a
retry and a last attempt. Two addresses in the range of `invoices` let it run
out. Every bound is checked in a guard. Deadlock is checked in
`send`, `send_twins`, `ingest` and `receive`; the other models really may stop, when every call is answered and nothing is left.

Fairness. It is weak fairness of the steps that a timer or the event loop of a
process that lives takes: the ticks of the two pipelines and of the worker, the
statements of a call that has begun, a poll and a pass, the expiry check, the
answer of a node that was asked and is not refused, the expiry of the lease of a
holder that is gone, and the supervisor's restart (`restart: unless-stopped`).
Nothing is assumed about failures, crashes, late requests, deposits, payments,
clients or that a socket opens again. In `send` and `receive` fairness is asked
of the disjunction of an instance's steps, not of each. In `process` a client
that has left connects again, as `EventSource` does.

What the liveness properties except is what the code does not do, and each
exception is written into the property: `EverySendSettles` and `TasksSettle` a
block that lost its place on the chain, `TasksSettle` and `ReceivedIsStored` two
processes, `CompletedIsSwept` what `LeftBehind` says (a failed or paid sweep, a
failed receive task, a younger invoice without `invoiceKey`), `FeedCatchesUp` a
page of opt-in events only, `InvoiceIsServed` a failed statement,
`PublishedSettles` a failed statement or a full list until a call tracks the
block again or a restart finds it (`forgotten`), `EveryBlockIsStored` an
ingestion that failed under a source that relied on it (`misled`) and a node that
lists nothing, `ServesInTheEnd` a half-made database, `StreamHearsLatest`
RaiFlow's own sends. Three safety properties have exceptions of the same kind:
`MemoryIsHonest` what is `misled` or `skipped`, `IngestedBeforeConfirmed` what
another source has, or had and lost, `ConfirmedOnce` replays and announcements
beyond the list. The exceptions were tried by taking them out: TLC then finds a violation.

## 5. What the code does that a document says otherwise

`send_twins` is a finding with a run (`OneTransferPerReportedSend`): two equal sends prepared on one frontier
share a block, both are reported published and one transfer is made.

The following have no run of their own. Where a definition is named, it is in
the module and TLC refutes it when it is added to the run's cfg.

- `FailureIsAnnounced` (`send`), `EndIsAnnounced` (`ingest`): a failed send and
  a canceled or expired invoice are stored in one statement and announced in a
  later one (`send-orchestrator.ts:193`, `runtime.ts:728`, `1842`); after a crash
  in between nothing announces them ("Every state change emits an event",
  `rfcs/0003-event-model.md`).
- `ForkIsReported` (`send`): a block that lost its place is replayed for ever.
  Two processes may also report a send failed that was paid (`FailedNeverPaid`),
  when a deposit comes after both have begun; `Within` lets it come before.
- `handleConfirmedBlock` returns at once while another source ingests the block
  (`runtime.ts:1675`). Poller and recovery then take it for stored, and it is
  lost when that ingestion fails (`misled` in the run `watcher`, against "It
  advances the cursor only after the sink succeeds", `rfcs/0002-observe-mode.md`);
  a polling loop announces it as confirmed although its deposit is not there
  (`lost` in `blocks`, against the comment at `runtime.ts:1503`). Of two passes
  the slower one sets the cursor back (`recovery.ts:74`); entries are then delivered again.
- `recoverBlockConfirmations` lists the oldest 10 000 events of each type
  (`runtime.ts:1569`): beyond them a published block is never tracked again
  (`forgotten`), and a terminal event is not seen, so its block may be announced
  at each restart.
- An ingestion or an announcement that throws comes after the block was taken out
  of `confirmingBlocks` (`runtime.ts:1501`): "Keep polling until the bounded
  confirmation deadline" (1535) ends at 1497. The event `block.failed` is stored
  outside the `try` (1541): when that fails nothing catches it.
- `Watcher.stop` ("release all resources", `watcher.ts:129`) leaves a pass over a
  history, and a connection that is being made (`websocket.ts:156`), at work:
  both go on to call the sink. Nothing in the process calls it.
- `DeletedIsEmpty` (`accounts`): `deleteAccount` looks at the cached balance
  (`runtime.ts:1003`), which only the synchronisation and sends write; a new
  account is not synchronised before a restart or a stream, and `initialSync`
  writes zero when the node does not answer (`account-state-sync.ts:264`). A
  funded account can be deleted ("zero balance only",
  `docs/architectural-review.md:169`; `rfcs/0003-event-model.md:319`).
- The send pipeline writes the row (`send-orchestrator.ts:215`) that
  `runtime.ts:921` calls the synchronisation's alone; `reconcile` then finds no
  difference and never announces the balance after RaiFlow's own sends
  (`rfcs/0003-event-model.md:144`).
- `SweptAfterSweep` (`payouts`): `emitInvoiceSweptIfMissing` is called for every
  confirmed send and takes a refund of the invoice for its sweep
  (`rfcs/0002-observe-mode.md:282`).
- A failed sweep, a deposit after the sweep, and the older invoices of an
  `accountKey` without `invoiceKey` are never swept (`runtime.ts:1257`, `1263`);
  a refund queued before its deposit is pocketed fails for good.
- `RetriedIsWatched` (`invoices`): after a failed statement the retry is answered
  by the invoice and returns before announcement and watching (`runtime.ts:514`,
  `533`, against the comment at 604). Two calls with one `invoiceKey` and
  different keys leave two open invoices on one address.
- `FailedIsRejected` (`blocks`): `block.failed` is stored for a block that was
  accepted and not confirmed in time (`rfcs/0003-event-model.md:162`). A replay
  by key tracks the block anew and may announce it twice.
- `GET /events` filters opt-in types after cutting the page (`handler.ts:747`):
  a page of 100 of them stops a consumer for ever.
- Requests: a body that is not JSON is a 500; a refund without custody is a 400
  where a send is a 501; a mutation cut between its effect and its key is
  refused when it is sent again (409, 404, 500), and its event is never stored;
  a retried webhook creation makes a second endpoint. The operations that rely on
  their key alone leave the time between the effect and the key open, to a crash
  as to a second request.
- Shutdown closes the database before the server (`main.ts:542`): requests under
  way fail with a 500 although their effect may be stored.
- A crash between the two statements that make `schema_metadata`
  (`storage/src/index.ts:178`) leaves a database that no process opens again; a
  filled database of the first migration cannot run the second.
- `main.ts:452` hands no abort to the handler: a connection that has gone stays
  subscribed. `POST /accounts/:id/watch` subscribes after the snapshot it waited
  for. Another client's `DELETE .../watch`, or a send before it, leaves a stream
  that is subscribed to an address nobody synchronises until a new request.
- A receive task may be reported failed although it was received, when the
  database fails three times or two processes work on it.

## 6. Proofs

Eight modules hold theorems; tlapm checks every leaf with SMT, Zenon and LS4.
They hold for every value of the constants that the named assumptions admit:
any number of processes, workers, calls, accounts, invoices, blocks and amounts,
any bound on failures, crashes and outages, and any set of set-ups. What a
module itself fixes stays fixed: `HttpApi` its routes and two attempts of one
client, `Migrations` the nineteen migrations. Every safety and every action
property that a passing run checks is the conclusion of a theorem.

Three proof modules extend two components, whose definitions, constants and
variables therefore have names of their own: `CreationSpec` in `InvoiceCreation`
beside `Spec` in `DepositIngest`, `RowSpec` in `AccountRows` beside `Spec` in
`Payouts`, `WatchSpec` in `WatcherRecovery` beside `Spec` in `BlockPublication`.

| Theorem | Says | Argument |
|---|---|---|
| `SendOrchestratorProofs!ReportsAreTrue`, `SignedOnlyOnce` | `ReportedIsOnChain`: a reported send names the block of its saved intent, and the chain has it; a send is signed once | `IInv` adds what an instance knows at each step: a send (`HasCurrent`), a block (`Drafted`), the saved one (`UsesIntent`), and after the node's answer that it is on the chain (`AcceptedIsOnChain`); what it knows stays true because no step removes a block from a chain or replaces a signed one |
| `SendOrchestratorProofs!NoDoublePayment` | `NeverPaidTwice` | `PaidInv`: every send block that a chain holds, or that a node may still handle, is the block of a saved intent for that transfer (`ChainIsSaved`, `SubmittedIsSaved`, `SignedForTheSend`); different positions of a chain are different blocks, so they belong to different sends |
| `SendOrchestratorProofs!ContractIsKept` | one process implements `SendContract`: `KeepsContract` | `AloneInv`: a send is given up only while its saved work is low (`GivesUpSafely`), and only blocks with valid work reach a chain (`ValidWorkIsSaved`), so a failed send has moved nothing and never will. The property asks it of behaviours with one process (`Alone`; with two, `FailedNeverPaid` fails), and the theorem of sends of which no two ask for the same transfer (`Unalike`; `send_twins` shows why) |
| `ReceiveOrchestratorProofs!OutcomesAreTrue`, `SignedOnlyOnce` | `ReportsAreTrue` and `SignedOnce` of the receive pipeline | `IInv`, as for sends, over the snapshot a process works from; `QuietInv`: with one process and a database that works, a task is failed only while its saved work is low, because an attempt after a broadcast does not count, and only valid work reaches a chain |
| `DepositIngestProofs!AmountsHold`, `NothingIsDropped`, `EndsAreFinal`, `EvidenceIsKept` | `CompletedWhenPaid`, `ProcessedIsStored`, `TerminalIsFinal`, `EvidenceIsPermanent` | the sum of the payments is kept because the deposits are finitely many and every payment names an invoice of its address (`Matching`); what is committed and not yet remembered is stored as well (`CommittedIsStored`); `StepOfTheBooks` reduces the steps to three kinds |
| `DepositIngestProofs!EventsAreTrue` | `EventsTellTheRows`: the events of an invoice tell what its rows say | `LogInv`: each event is in the log exactly once when its row is due, and never before (`DepositsTold`, `PaymentsTold`, `CompletionsTold`); the confirmations up to a position are the payments whose sum it carries (`PaymentsConfirmed`, `AddsUp`) |
| `WebhookOutboxProofs!HistoriesAreTrue`, `OutboxKeepsContract` | `HistoryIsTrue`, and the refinement of `DeliveryContract` (`KeepsDeliveryContract`) | a worker whose row is still its own makes the next attempt and has one left; a job that is owed has only seen retries |
| `DepositIngestProofs!AddressesFollowRefs`, `KeysAnswerOneInvoice` | an address belongs to one `invoiceKey` (`AddressFollowsRef`); a key is answered with one invoice (`KeyAnswersOneInvoice`) | what a call has and has not done at each of its steps (`StepsFit`), what it holds (`MineFits`), and that indices and key rows have one owner (`Addresses`, `UniqueKeys`, `KeysFit`) |
| `PayoutsProofs!SendsKeepAccount`, `OneAccountPerKey`, `LabelsAreKept` | a send has its account (`NoSendWithoutAccount`); one account for a key; no label is undone in one process (`LabelsStay`) | whoever has inserted or found the row finds it until a delete; in one process one writer is between its statements and knows the label |
| `BlockPublicationProofs!ConfirmationsAreTrue` | announced blocks are confirmed; a payment is ingested, or left to another source (`IngestedBeforeConfirmed`) | what a loop knows when it ingests and when it emits: a payment that is about to be announced is stored, or was left to a source that still has it or has lost it |
| `BlockPublicationProofs!AnnouncedOnce` | `ConfirmedOnce` | `OnceInv` counts tokens: one for each announcement made, for each loop that settles the block and for its place in `confirmingBlocks` (`Spent`), against one from its publication and one from each replay (`Allowed`); a restart empties the memory and brings a token back only for a block without a terminal event on the list that recovery reads |
| `PayoutsProofs!RefundsAreCovered` | `RefundsWithinDeposit` | refunds are sums over sets. Sums over finite sets are shown to exist, to be unique and to grow by the element that is added (`SumsExist`, `SumsAgree`, `SumFacts`), each by taking a least counterexample, since the prover has no induction; the transaction that queues a refund compares with the sum it then adds to |
| `PayoutsProofs!PaidOutOnce`, `SweepsCountAll`, `TypesHold` | `OnePayoutPerKey`, `SweepCountsWhatIsKnown`; the balance is never negative | a key's answer names a row (`RepliesAreRows`) and a key has one row (`OneRowPerKey`); at most one pass has a row (`OneSweep`); a stored deposit has arrived (`StoredHasArrived`), and what a pass knew is in the list it reads later (`PassesFit`); what has moved is a row (`MovedAreRows`) |
| `BlockPublicationProofs!AnswersMatch`, `SourcesAreHonest` | what the watcher takes for acknowledged is the subscription it wants (`SubscriptionIsCurrent`); `MemoryIsHonest`, for all sources and failing ingestions | `WatchIInv`: the last subscription sent is the one wanted (`SessionFits`); a pass that has called the sink waits for it (`CallersFit`), and what is left to another caller is with the sink (`ReliedFit`); the seen hashes, the cursor and what a pass has gone over hold only blocks that are stored, or that the sink had when it was asked (`Remembered`, `Trusted`), which an ingestion that fails moves from `relied` to `misled` |
| `RpcPoolProofs!TypeCorrect`, `SlotsAreCounted`, `AnswersNeverExhaust` | the running count of a semaphore is the number of its holders, none waits beside a free slot; `OnlyFailuresExhaust` | who is in a queue waits for that pool and is in it once (`QueuesFit`), so a release passes the slot to exactly one call; an endpoint that cools down, or that a call has tried, has failed as a transport (`FailuresAreKnown`); replaced pools keep their semaphores |
| `ProcessProofs!RepeatsAreHarmless`, `ClientIsToldTheTruth` | `RepeatsChangeNothing`, `AnswersAreTrue`, over the life of the process and its streams | `ApiIInv`: a request sent after a success, or once the key is recorded, has yet to come to the step that answers it, and what that step looks for is there (`RepeatsAreRepeated`): the key, or for the operations that leave a row of their own that row; whether the effect is made is known from who has passed its step (`EffectsArePassed`), each status an attempt may end with is accounted for (`AnswersAreKnown`). The ten courses are reduced to what they have in common (`Orderly`): one effect, told after it, the key recorded after it and looked for before it |
| `ProcessProofs!DatabaseIsMigrated` | `MigrationsAreTrue` | `LedgerInv`: the recorded migrations are the first n and the schema is what they make of the database as it was found (`Recorded`); a process at a migration has found its predecessors recorded (`Follows`). A migration and its record are one transaction that checks the record again, so a second process cannot repeat it |

The types are part of every invariant: all of them as a theorem of their own in
most modules, in `ProcessProofs` and for the watcher those that the argument
needs. The two pipelines begin with the same facts about prefixes and appended blocks of a chain.

The invariants are not inductive as they stand: whether recording a success is
right depends on what a process learned several steps earlier, while others
moved. Every inductive invariant therefore says, for each place a process may be
at, what it knows there; every preservation lemma has one case for each action.

The assumptions are the `ASSUME`s beside the constants, and TLC evaluates every
one of them in the runs. Most say which set a constant belongs to and that
model values differ. `PoolAssumption` asks for finitely many endpoints and at
least one in the library's own list, which stands in when none is configured
(`rpc/src/index.ts:477`); `StartupAssumption` that a process which is up at the beginning has migrated its
database. Two say more:

- `Unalike` in `ContractIsKept`: no two sends ask for the same transfer.
  Without it the statement is false, which is what `send_twins` shows.
- `MigrationsGrow`: from each release's schema, with rows or without, each
  migration makes the schema it makes of a new database and keeps the rows,
  unless SQLite refuses it. It is a closed formula about the nineteen migrations:
  each schema is a fold over statements, which the prover cannot compute, and TLC
  evaluates it in `process`. What the theorem adds to it are the processes: which
  of them run a migration, when they die, and in which order they look and write.

Model-checked only is everything under fairness, since liveness and ENABLED are
out of the prover's reach: `EverySendSettles`, `OverdueInvoicesEnd`,
`EveryBlockIsStored`, `TasksSettle`, `ReceivedIsStored`, `FeedCatchesUp`,
`JobsSettle`, `CompletedIsSwept`, `InvoiceIsServed`, `RowConverges`,
`AccountIsWatched`, `PublishedSettles`, `RequestsEnd`, `ServesInTheEnd` and
`StreamHearsLatest`; and `MigrationsGrow`, as said.

## 7. Not modelled

- the cryptography of custody, key derivation and the wallet file: an external
  library; signing is a step of the pipelines;
- the SDK, the dashboard, the site and the examples except the durable consumer:
  clients and pages without state of the system; `deploy/` holds compiled copies;
- parsing and rendering of requests, answers, YAML and node answers, logging;
- code that production does not run: the in-memory ingestion
  (`runtime.ts:1721-1835`), the in-memory lease and delivery stores, the fallback
  client of `watcher/src/rpc.ts`, `createWsClient` of `rpc/src/index.ts`;
- the lease's clock and tokens; the back-off of the watcher; the await-by-await confirmation of sends; the byte budget beyond a
  transaction that fails; memory held by connections that are gone.
