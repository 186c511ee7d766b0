---------------------------- MODULE DepositIngest ----------------------------
(***************************************************************************)
(* Invoices and confirmed deposits: handleConfirmedBlock, cancelInvoice    *)
(* and runExpiryCheck of packages/runtime/src/runtime.ts over the confirmed *)
(* deposit transaction and the invoice store of                            *)
(* packages/storage/src/index.ts.                                          *)
(*                                                                         *)
(* The watcher hands each confirmed send to a runtime process any number   *)
(* of times, in any order, through several sources at once.  A step is     *)
(* what happens between two awaits; a transaction on the database is one   *)
(* step.  A crash loses what a process remembers and keeps the database.   *)
(***************************************************************************)
EXTENDS Null, Integers, Sequences, FiniteSetsExt

CONSTANTS
    Process,    \* runtime processes that share the database
    Invoice,    \* identifiers of invoice rows
    Address,    \* addresses RaiFlow watches
    Block,      \* confirmed sends to these addresses, by hash
    PayAddress, \* [Invoice -> Address]
    Expected,   \* [Invoice -> Nat \ {0}]: expected_amount_raw
    Policy,     \* [Invoice -> CompletionPolicy]
    Expiring,   \* the invoices that have an expiry time
    Recipient,  \* [Block -> Address]
    Amount,     \* [Block -> Nat]
    Minimum,    \* minimumReceiveAmount
    MaxDepositsPerAccount,
    MaxFaults   \* bound on crashes and failing transactions

CompletionPolicy == {"at_least", "exact"}

ASSUME IngestAssumption ==
    /\ PayAddress \in [Invoice -> Address]
    /\ Expected \in [Invoice -> Nat \ {0}]
    /\ Policy \in [Invoice -> CompletionPolicy]
    /\ Expiring \subseteq Invoice
    /\ Recipient \in [Block -> Address]
    /\ Amount \in [Block -> Nat]
    /\ Minimum \in Nat
    /\ MaxDepositsPerAccount \in Nat
    /\ None \notin Invoice
    /\ MaxFaults \in Nat
    /\ IsFiniteSet(Invoice)

VARIABLES
    \* the database
    status,       \* [Invoice -> InvoiceStatus]
    received,     \* [Invoice -> received_amount_raw]
    created,      \* [Invoice -> Nat]: created_at, in order
    disposition,  \* [Block -> Disposition]: the deposits rows
    matched,      \* [Block -> Invoice or None]: deposits.invoice_id
    payment,      \* [Block -> Invoice or None]: payments.invoice_id
    task,         \* the blocks with a receive_tasks row
    log,          \* the events rows, in order
    keyed,        \* the invoices whose cancellation has an idempotency row
    \* each process
    handling,     \* [Process -> [Block -> HandlingState]]
    processed,    \* [Process -> SUBSET Block]: processedConfirmedBlocks
    canceling,    \* [Process -> [Invoice -> CancelState]]
    overdue,      \* [Process -> SUBSET Invoice]: the expiry check's list
    expired,      \* [Process -> Invoice or None]: expired, not announced yet
    \* the clock, and bounds
    past,         \* the invoices whose expiry time has passed
    faults

evidence == <<disposition, matched, payment, task>>
database == <<status, received, created, evidence, log, keyed>>
checks   == <<canceling, overdue, expired>>
memory   == <<handling, processed, checks>>
vars     == <<database, memory, past, faults>>

InvoiceStatus == {"absent", "open", "completed", "expired", "canceled"}
Disposition   == {"absent", "matched", "partial", "excess", "late", "unmatched"}
HandlingState == {"idle", "admitted", "committed"}
CancelState   == {"idle", "checked", "canceled", "keyed"}

Init ==
    /\ status = [i \in Invoice |-> "absent"]
    /\ received = [i \in Invoice |-> 0]
    /\ created = [i \in Invoice |-> 0]
    /\ disposition = [b \in Block |-> "absent"]
    /\ matched = [b \in Block |-> None]
    /\ payment = [b \in Block |-> None]
    /\ task = {}
    /\ log = << >>
    /\ keyed = {}
    /\ handling = [p \in Process |-> [b \in Block |-> "idle"]]
    /\ processed = [p \in Process |-> {}]
    /\ canceling = [p \in Process |-> [i \in Invoice |-> "idle"]]
    /\ overdue = [p \in Process |-> {}]
    /\ expired = [p \in Process |-> None]
    /\ past = {}
    /\ faults = 0

Fault == faults < MaxFaults /\ faults' = faults + 1

(* Events say what happened, to which block or invoice, and, when they     *)
(* carry the invoice, the amount it had received.                          *)
Event(type, block, invoice, amount) ==
    [type |-> type, block |-> block, invoice |-> invoice, amount |-> amount]
Logged(type, block, invoice) ==
    \E n \in DOMAIN log :
        log[n].type = type /\ log[n].block = block /\ log[n].invoice = invoice
Append1(when, event) == IF when THEN <<event>> ELSE << >>

(* createInvoice inserts an open invoice.                                  *)
CreateInvoice(i) ==
    /\ status[i] = "absent"
    /\ status' = [status EXCEPT ![i] = "open"]
    /\ created' = [created EXCEPT ![i] =
                        1 + Cardinality({j \in Invoice : status[j] # "absent"})]
    /\ UNCHANGED <<received, evidence, log, keyed, memory, past, faults>>

-------------------------------------------------------------------------------
(* handleConfirmedBlock                                                    *)

(* A block this process has ingested, or is ingesting, is not taken again. *)
Admit(p, b) ==
    /\ b \notin processed[p] /\ handling[p][b] = "idle"
    /\ handling' = [handling EXCEPT ![p][b] = "admitted"]
    /\ UNCHANGED <<database, processed, checks, past, faults>>

Return(p, b) == handling' = [handling EXCEPT ![p][b] = "idle"]

(* Below the minimum nothing is stored and nothing is remembered.          *)
IgnoreDust(p, b) ==
    /\ handling[p][b] = "admitted"
    /\ Amount[b] < Minimum
    /\ Return(p, b)
    /\ UNCHANGED <<database, processed, checks, past, faults>>

(* The ingest transaction                                                  *)

Stored(b) == disposition[b] # "absent"
AccountDeposits(a) == {b \in Block : Stored(b) /\ Recipient[b] = a}

DepositCount(b) == Cardinality(AccountDeposits(Recipient[b]))

(* Known evidence may be replayed at the limit, a new deposit may not.     *)
WithinBudget(b) == Stored(b) \/ DepositCount(b) < MaxDepositsPerAccount

InvoicesAt(a) == {i \in Invoice : status[i] # "absent" /\ PayAddress[i] = a}
OldestAt(a) ==
    IF InvoicesAt(a) = {} THEN None
    ELSE CHOOSE i \in InvoicesAt(a) :
            \A j \in InvoicesAt(a) : created[i] <= created[j]

(* A stored deposit keeps its invoice; a new one goes to the oldest        *)
(* invoice of its address, whatever that invoice's status.                 *)
InvoiceOf(b) == IF Stored(b) THEN matched[b] ELSE OldestAt(Recipient[b])

PaymentsOf(i) == {b \in Block : payment[b] = i}
Total(blocks) == MapThenSumSet(LAMBDA b : Amount[b], blocks)

Disposed(b, i) ==
    IF Stored(b) THEN disposition[b]
    ELSE IF i = None THEN "unmatched"
    ELSE IF status[i] # "open" THEN "late"
    ELSE LET projected == Total(PaymentsOf(i) \cup {b})
         IN  CASE projected > Expected[i] -> "excess"
               [] projected < Expected[i] -> "partial"
               [] OTHER -> "matched"

Complete(i, amount) ==
    IF Policy[i] = "exact" THEN amount = Expected[i] ELSE amount >= Expected[i]

(* The amount of an invoice is recomputed from its payments.               *)
SumPayments(i, b) == Total(PaymentsOf(i) \cup {b})

(* Regression: the policy is asked about the amount before this payment.   *)
StatusFromRow(i, amount) ==
    IF status[i] = "open" /\ Complete(i, received[i])
    THEN "completed" ELSE status[i]

StatusAfter(i, amount) ==
    IF status[i] = "open" /\ Complete(i, amount) THEN "completed" ELSE status[i]

(* Regression: the events of a payment are emitted on every delivery.      *)
AlwaysNews(b, i, amount) ==
    << Event("payment_received", b, i, amount),
       Event("payment_confirmed", b, i, amount) >>

PaymentNews(b, i, amount) ==
    Append1(~ Logged("payment_received", b, i),
            Event("payment_received", b, i, amount))
    \o Append1(~ Logged("payment_confirmed", b, i),
               Event("payment_confirmed", b, i, amount))

DepositNews(b) ==
    Append1(~ Logged("deposit.observed", b, None),
            Event("deposit.observed", b, None, Amount[b]))
CompletionNews(i, amount) ==
    Append1(/\ StatusAfter(i, amount) = "completed"
            /\ ~ Logged("completed", None, i),
            Event("completed", None, i, amount))

(* A deposit that counts: a payment, the amount and the status of its      *)
(* invoice, and their events, in one transaction with the deposit.         *)
Count(b, i) ==
    LET amount == SumPayments(i, b) IN
    /\ payment' = [payment EXCEPT ![b] = i]
    /\ received' = [received EXCEPT ![i] = amount]
    /\ status' = [status EXCEPT ![i] = StatusAfter(i, amount)]
    /\ log' = log \o DepositNews(b) \o PaymentNews(b, i, amount)
                  \o CompletionNews(i, amount)

DoNotCount(b) ==
    /\ log' = log \o DepositNews(b)
    /\ UNCHANGED <<payment, received, status>>

(* alreadyReceived: the recovery of account histories found the block      *)
(* behind a receive block, so no receive task is needed.                   *)
Ingest(p, b, alreadyReceived) ==
    /\ handling[p][b] = "admitted"
    /\ Amount[b] >= Minimum
    /\ WithinBudget(b)
    /\ LET i == InvoiceOf(b)
           d == Disposed(b, i)
       IN  /\ disposition' = [disposition EXCEPT ![b] = d]
           /\ matched' = [matched EXCEPT ![b] = i]
           /\ IF i = None \/ d = "late" THEN DoNotCount(b) ELSE Count(b, i)
    /\ task' = IF alreadyReceived THEN task ELSE task \cup {b}
    /\ handling' = [handling EXCEPT ![p][b] = "committed"]
    /\ UNCHANGED <<created, keyed, processed, checks, past, faults>>

RefuseBudget(p, b) ==
    /\ handling[p][b] = "admitted"
    /\ Amount[b] >= Minimum
    /\ ~ WithinBudget(b)
    /\ Return(p, b)
    /\ UNCHANGED <<database, processed, checks, past, faults>>

(* Listeners and webhooks are told after the commit.                       *)
Dispatch(p, b) ==
    /\ handling[p][b] = "committed"
    /\ Return(p, b)
    /\ processed' = [processed EXCEPT ![p] = @ \cup {b}]
    /\ UNCHANGED <<database, checks, past, faults>>

(* Regression: a block whose ingestion failed counts as processed.         *)
RememberFailed(p, b) ==
    /\ handling[p][b] = "admitted"
    /\ Fault
    /\ Return(p, b)
    /\ processed' = [processed EXCEPT ![p] = @ \cup {b}]
    /\ UNCHANGED <<database, checks, past>>

(* The database is full, locked or broken: nothing is committed.           *)
IngestFails(p, b) ==
    /\ handling[p][b] = "admitted"
    /\ Fault
    /\ Return(p, b)
    /\ UNCHANGED <<database, processed, checks, past>>

-------------------------------------------------------------------------------
(* cancelInvoice: the status is checked, then checked again by the         *)
(* transition; the key and the event follow.                               *)

CancelStep(p, i, from, to) ==
    /\ canceling[p][i] = from
    /\ canceling' = [canceling EXCEPT ![p][i] = to]

CancelChecks(p, i) ==
    /\ i \notin keyed /\ status[i] = "open"
    /\ CancelStep(p, i, "idle", "checked")
    /\ UNCHANGED <<database, handling, processed, overdue, expired, past,
                   faults>>

(* Regression: the transition trusts the status checked before.            *)
CancelUnchecked(p, i) ==
    /\ CancelStep(p, i, "checked", "canceled")
    /\ status' = [status EXCEPT ![i] = "canceled"]
    /\ UNCHANGED <<received, created, evidence, log, keyed, handling,
                   processed, overdue, expired, past, faults>>

CancelCommits(p, i) ==
    /\ status[i] = "open"
    /\ CancelStep(p, i, "checked", "canceled")
    /\ status' = [status EXCEPT ![i] = "canceled"]
    /\ UNCHANGED <<received, created, evidence, log, keyed, handling,
                   processed, overdue, expired, past, faults>>

CancelConflicts(p, i) ==
    /\ status[i] # "open"
    /\ CancelStep(p, i, "checked", "idle")
    /\ UNCHANGED <<database, handling, processed, overdue, expired, past,
                   faults>>

CancelRecordsKey(p, i) ==
    /\ CancelStep(p, i, "canceled", "keyed")
    /\ keyed' = keyed \cup {i}
    /\ UNCHANGED <<status, received, created, evidence, log, handling,
                   processed, overdue, expired, past, faults>>

CancelAnnounces(p, i) ==
    /\ CancelStep(p, i, "keyed", "idle")
    /\ log' = Append(log, Event("canceled", None, i, received[i]))
    /\ UNCHANGED <<status, received, created, evidence, keyed, handling,
                   processed, overdue, expired, past, faults>>

-------------------------------------------------------------------------------
(* runExpiryCheck: a list of open invoices, then one transition and one    *)
(* event for each.                                                         *)

TimePasses(i) ==
    /\ i \in Expiring \ past /\ status[i] # "absent"
    /\ past' = past \cup {i}
    /\ UNCHANGED <<database, memory, faults>>

(* Regression: an invoice that received something is not expired.          *)
ListUnpaid(p) ==
    /\ overdue[p] = {} /\ expired[p] = None
    /\ overdue' = [overdue EXCEPT ![p] =
                       {i \in past : status[i] = "open" /\ received[i] = 0}]
    /\ UNCHANGED <<database, handling, processed, canceling, expired, past,
                   faults>>

ListOverdue(p) ==
    /\ overdue[p] = {} /\ expired[p] = None
    /\ overdue' = [overdue EXCEPT ![p] = {i \in past : status[i] = "open"}]
    /\ UNCHANGED <<database, handling, processed, canceling, expired, past,
                   faults>>

Expire(p, i) ==
    /\ expired[p] = None /\ i \in overdue[p]
    /\ overdue' = [overdue EXCEPT ![p] = @ \ {i}]
    /\ IF status[i] = "open"
       THEN /\ status' = [status EXCEPT ![i] = "expired"]
            /\ expired' = [expired EXCEPT ![p] = i]
       ELSE UNCHANGED <<status, expired>>
    /\ UNCHANGED <<received, created, evidence, log, keyed, handling,
                   processed, canceling, past, faults>>

AnnounceExpired(p) ==
    /\ expired[p] # None
    /\ LET i == expired[p]
       IN  log' = Append(log, Event("expired", None, i, received[i]))
    /\ expired' = [expired EXCEPT ![p] = None]
    /\ UNCHANGED <<status, received, created, evidence, keyed, handling,
                   processed, canceling, overdue, past, faults>>

(* The process dies and is started again.                                  *)
Crash(p) ==
    /\ Fault
    /\ handling' = [handling EXCEPT ![p] = [b \in Block |-> "idle"]]
    /\ processed' = [processed EXCEPT ![p] = {}]
    /\ canceling' = [canceling EXCEPT ![p] = [i \in Invoice |-> "idle"]]
    /\ overdue' = [overdue EXCEPT ![p] = {}]
    /\ expired' = [expired EXCEPT ![p] = None]
    /\ UNCHANGED <<database, past>>

-------------------------------------------------------------------------------
Handle(p, b) ==
    \/ Admit(p, b) \/ IgnoreDust(p, b) \/ Dispatch(p, b)
    \/ \E alreadyReceived \in BOOLEAN : Ingest(p, b, alreadyReceived)
    \/ RefuseBudget(p, b)

Cancel(p, i) ==
    \/ CancelChecks(p, i) \/ CancelCommits(p, i) \/ CancelConflicts(p, i)
    \/ CancelRecordsKey(p, i) \/ CancelAnnounces(p, i)

ExpiryCheck(p) ==
    \/ ListOverdue(p) \/ AnnounceExpired(p)
    \/ \E i \in Invoice : Expire(p, i)

Next ==
    \/ \E i \in Invoice : CreateInvoice(i) \/ TimePasses(i)
    \/ \E p \in Process, b \in Block : Handle(p, b) \/ IngestFails(p, b)
    \/ \E p \in Process, i \in Invoice : Cancel(p, i)
    \/ \E p \in Process : ExpiryCheck(p) \/ Crash(p)

Spec == Init /\ [][Next]_vars

(* The expiry timer of a process keeps running.  Nothing makes a block     *)
(* arrive, nor an application cancel.                                      *)
FairSpec == Spec /\ \A p \in Process : WF_vars(ExpiryCheck(p))

-------------------------------------------------------------------------------
(* Properties                                                              *)

EventType == {"deposit.observed", "payment_received", "payment_confirmed",
              "completed", "canceled", "expired"}

(* The amounts that sets of blocks add up to.                              *)
Sums == {0} \cup {Total(blocks) : blocks \in SUBSET Block}

BusinessEvent ==
    [type : EventType, block : Block \cup {None}, invoice : Invoice \cup {None},
     amount : Sums \cup {Amount[b] : b \in Block}]

TypeOK ==
    /\ status \in [Invoice -> InvoiceStatus]
    /\ received \in [Invoice -> Sums]
    /\ created \in [Invoice -> Nat]
    /\ disposition \in [Block -> Disposition]
    /\ matched \in [Block -> Invoice \cup {None}]
    /\ payment \in [Block -> Invoice \cup {None}]
    /\ task \subseteq Block
    /\ log \in Seq(BusinessEvent)
    /\ keyed \subseteq Invoice
    /\ handling \in [Process -> [Block -> HandlingState]]
    /\ processed \in [Process -> SUBSET Block]
    /\ canceling \in [Process -> [Invoice -> CancelState]]
    /\ overdue \in [Process -> SUBSET Invoice]
    /\ expired \in [Process -> Invoice \cup {None}]
    /\ past \subseteq Expiring
    /\ faults \in 0..MaxFaults

(* However often and in whatever order the blocks are delivered, an        *)
(* invoice holds the sum of its payments and every payment is a deposit    *)
(* that was not late (rfcs/0003-event-model.md, "replay does not add a     *)
(* second payment contribution").                                          *)
AmountIsSumOfPayments ==
    /\ \A i \in Invoice : received[i] = Total(PaymentsOf(i))
    /\ \A b \in Block : payment[b] =
            IF disposition[b] \in {"matched", "partial", "excess"}
            THEN matched[b] ELSE None

(* An invoice completes exactly when its payments satisfy its policy: none *)
(* is left open once they do, none completes before.                       *)
CompletedWhenPaid ==
    \A i \in Invoice :
        /\ status[i] = "completed" => Complete(i, received[i])
        /\ status[i] = "open" => ~ Complete(i, received[i])

(* The events tell what the rows hold, each once: a block's deposit, its   *)
(* payment, the completion of an invoice.                                  *)
Times(type, block, invoice) ==
    Cardinality({n \in DOMAIN log :
        log[n].type = type /\ log[n].block = block /\ log[n].invoice = invoice})
EventsMatchRows ==
    /\ \A b \in Block :
        Times("deposit.observed", b, None) = IF Stored(b) THEN 1 ELSE 0
    /\ \A b \in Block, i \in Invoice :
        \A type \in {"payment_received", "payment_confirmed"} :
            Times(type, b, i) = IF payment[b] = i THEN 1 ELSE 0
    /\ \A i \in Invoice :
        Times("completed", None, i) = IF status[i] = "completed" THEN 1 ELSE 0

(* An application that adds up the payments it is told of has, after each, *)
(* the amount that the event says the invoice has received; the event that *)
(* ends the invoice says how much it received in all.                      *)
Confirmed(i, n) ==
    {log[m].block : m \in {k \in 1..n :
        log[k].type = "payment_confirmed" /\ log[k].invoice = i}}
EventAmountsAddUp ==
    \A n \in DOMAIN log :
        log[n].invoice # None /\ log[n].type # "payment_received" =>
            log[n].amount = Total(Confirmed(log[n].invoice, n))

(* The events and the rows tell the same story.                            *)
EventsTellTheRows == EventsMatchRows /\ EventAmountsAddUp

(* A block that a process no longer looks at is stored, and so is one that *)
(* is to be received: dropping a failed or a refused block would lose it.  *)
ProcessedIsStored ==
    \A b \in task \cup UNION {processed[p] : p \in Process} : Stored(b)

(* The deposits of an account never exceed the storage budget.             *)
BudgetKept ==
    \A a \in Address : Cardinality(AccountDeposits(a)) <= MaxDepositsPerAccount

(* "Every state change emits an event. No silent mutations."               *)
(* (rfcs/0003-event-model.md): an invoice that was canceled or has expired *)
(* has its event, unless the process is about to write it.                 *)
EndIsAnnounced ==
    \A i \in Invoice : status[i] \in {"canceled", "expired"} =>
        \/ Logged(status[i], None, i)
        \/ \E p \in Process :
              canceling[p][i] \in {"canceled", "keyed"} \/ expired[p] = i

Terminal(i) == status[i] \in {"completed", "expired", "canceled"}

(* "Invoice completion, expiry, and cancellation are terminal transitions" *)
(* (rfcs/0003-event-model.md): whichever commits first decides, and a      *)
(* deposit that comes later changes nothing of the invoice.                *)
TerminalIsFinal ==
    [][\A i \in Invoice : Terminal(i) =>
        status'[i] = status[i] /\ received'[i] = received[i]]_vars

(* What a block was recorded as never changes, whatever is delivered,      *)
(* created, canceled or expired afterwards.                                *)
EvidenceIsPermanent ==
    [][\A b \in Block : Stored(b) =>
        /\ disposition'[b] = disposition[b]
        /\ matched'[b] = matched[b]
        /\ payment'[b] = payment[b]]_vars

(* An open invoice whose time has passed ends.                             *)
OverdueInvoicesEnd ==
    \A i \in Invoice : (i \in past /\ status[i] = "open") ~> Terminal(i)
===============================================================================
