-------------------------------- MODULE Payouts --------------------------------
(***************************************************************************)
(* The money that leaves the address of one invoice again: refunds of its  *)
(* deposits, queued by the application (queueRefund of                     *)
(* packages/runtime/src/runtime.ts and createSqliteRefundStore of          *)
(* packages/storage/src/index.ts), and the sweep to the treasury           *)
(* (runInvoiceSweepCheck, emitInvoiceSweptIfMissing).                      *)
(*                                                                         *)
(* The sends themselves are those of SendContract, which SendOrchestrator  *)
(* implements; receiving is reduced to what the sweep looks at.  Sweep     *)
(* passes overlap: the timer starts one every two seconds, whether or not  *)
(* the last one has ended.                                                 *)
(***************************************************************************)
EXTENDS Null, Integers, FiniteSets, Functions, FiniteSetsExt

CONSTANTS
    Deposit,
    Amount,     \* [Deposit -> Nat]
    Expected,   \* the amount that completes the invoice
    Call,       \* calls of queueRefund; a row keeps the name of its call
    RefundOf,   \* [Call -> Deposit]
    Key,        \* [Call -> the Idempotency-Key]
    Asked,      \* [Call -> Nat]: amountRaw
    Pass,       \* passes of the sweep; a row keeps the name of its pass
    Setup       \* the instances: the deposits that come, the calls that are
                \* made, the passes that overlap, whether the invoice has no
                \* invoiceKey, and the bound on failures

ASSUME PayoutsAssumption ==
    /\ IsFiniteSet(Deposit) /\ IsFiniteSet(Call)
    /\ Amount \in [Deposit -> Nat] /\ Expected \in Nat
    /\ RefundOf \in [Call -> Deposit]
    /\ Asked \in [Call -> Nat \ {0}]
    /\ Call \cap Pass = {} /\ None \notin Call \cup Pass
    /\ Call \cap {"none", "refused", "conflict"} = {}
    /\ \A s \in Setup :
        /\ s.deposits \subseteq Deposit /\ s.calls \subseteq Call
        /\ s.passes \subseteq Pass /\ s.keyless \in BOOLEAN /\ s.maxFaults \in Nat

Send == Call \cup Pass

VARIABLES
    \* the deposits
    chain,      \* [Deposit -> "absent", "receivable" or "pocketed"]
    stored,     \* [Deposit -> BOOLEAN]: the deposits row
    task,       \* [Deposit -> the receive task]
    completed,  \* the invoice's status is completed
    \* the sends and the refunds
    outcome,    \* [Send -> status of the sends row], "absent" when there is none
    moved,      \* [Send -> BOOLEAN]: its block is on the network
    taken,      \* [Pass -> Nat]: amount_raw of a sweep
    reply,      \* [Call -> what queueRefund has answered]
    \* events
    queuedNews, \* the sends whose send.queued is stored
    sweptBy,    \* the send in the invoice.swept event, or None
    \* in memory
    announcing, \* the sends whose send.queued is about to be stored
    polling,    \* the sends whose confirmation is polled for
    pc,         \* [Pass -> where the pass is]
    known,      \* [Pass -> the deposits stored when it looked at the tasks]
    counted,    \* [Pass -> the deposits in the balance it has read]
    read,       \* [Pass -> that balance]
    \* the instance, and a bound
    setup,
    youngest,   \* the row found by the invoice's keys is its own
    faults

Contract == INSTANCE SendContract

deposits == <<chain, stored, task, completed>>
sends    == <<outcome, moved>>
passes   == <<pc, known, counted, read>>
events   == <<queuedNews, sweptBy>>
identity == <<setup, youngest>>
vars     == <<deposits, sends, taken, reply, events, announcing, polling, passes,
              identity, faults>>

ChainState == {"absent", "receivable", "pocketed"}
TaskState  == {"absent", "open", "done", "failed"}
Reply      == Call \cup {"none", "refused", "conflict"}
Stage      == {"idle", "looked", "clear", "empty", "counted"}

Init ==
    /\ setup \in Setup /\ youngest = TRUE
    /\ chain = [d \in Deposit |-> "absent"]
    /\ stored = [d \in Deposit |-> FALSE]
    /\ task = [d \in Deposit |-> "absent"]
    /\ completed = FALSE
    /\ Contract!Init
    /\ taken = [p \in Pass |-> 0]
    /\ reply = [c \in Call |-> "none"]
    /\ queuedNews = {} /\ sweptBy = None
    /\ announcing = {} /\ polling = {}
    /\ pc = [p \in Pass |-> "idle"]
    /\ known = [p \in Pass |-> {}]
    /\ counted = [p \in Pass |-> {}]
    /\ read = [p \in Pass |-> 0]
    /\ faults = 0

Fault == faults < setup.maxFaults /\ faults' = faults + 1 /\ UNCHANGED identity

Total(ds)   == MapThenSumSet(LAMBDA d : Amount[d], ds)
Worth(s)    == IF s \in Call THEN Asked[s] ELSE taken[s]
Pocketed    == {d \in Deposit : chain[d] = "pocketed"}
Moved       == {s \in Send : moved[s]}
Balance     == Total(Pocketed) - MapThenSumSet(Worth, Moved)
Rows(ids)   == {s \in ids : outcome[s] # "absent"}

-------------------------------------------------------------------------------
(* Deposits                                                                *)

Arrive(d) ==
    /\ d \in setup.deposits /\ chain[d] = "absent"
    /\ chain' = [chain EXCEPT ![d] = "receivable"]
    /\ UNCHANGED <<stored, task, completed, sends, taken, reply, events, announcing,
                   polling, passes, identity, faults>>

(* The confirmed send is ingested.                                         *)
Ingest(d) ==
    /\ chain[d] # "absent" /\ ~ stored[d]
    /\ stored' = [stored EXCEPT ![d] = TRUE]
    /\ completed' = (completed \/ Total({x \in Deposit : stored'[x]}) >= Expected)
    /\ UNCHANGED <<chain, task, sends, taken, reply, events, announcing, polling,
                   passes, identity, faults>>

Work(d, from, to) ==
    /\ task[d] = from
    /\ task' = [task EXCEPT ![d] = to]
    /\ UNCHANGED <<stored, completed, sends, taken, reply, events, announcing,
                   polling, passes, identity>>

Enqueue(d) ==
    /\ chain[d] = "receivable"
    /\ Work(d, "absent", "open")
    /\ UNCHANGED <<chain, faults>>

(* Published, the task is still open; it is done when the block is         *)
(* confirmed.                                                              *)
PublishReceive(d) ==
    /\ chain[d] = "receivable"
    /\ chain' = [chain EXCEPT ![d] = "pocketed"]
    /\ Work(d, "open", "open")
    /\ UNCHANGED faults

ConfirmReceive(d) ==
    /\ chain[d] = "pocketed"
    /\ Work(d, "open", "done")
    /\ UNCHANGED <<chain, faults>>

FailReceive(d) ==
    /\ chain[d] = "receivable"
    /\ Fault
    /\ Work(d, "open", "failed")
    /\ UNCHANGED chain

-------------------------------------------------------------------------------
(* Refunds                                                                 *)

Earlier(c) == {x \in Rows(Call) : RefundOf[x] = RefundOf[c] /\ Key[x] = Key[c]}

(* Regression: only what has reached the network counts.                   *)
CountPublished(c) ==
    {x \in Rows(Call) : RefundOf[x] = RefundOf[c]
                        /\ outcome[x] \in {"published", "confirmed"}}

Active(c) ==
    {x \in Rows(Call) : RefundOf[x] = RefundOf[c]
                        /\ outcome[x] \in {"queued", "published", "confirmed"}}

Answer(c, answer) ==
    /\ reply' = [reply EXCEPT ![c] = answer]
    /\ UNCHANGED <<deposits, moved, taken, events, polling, passes, identity, faults>>

IsNew(c) == Earlier(c) = {}

(* createSqliteRefundStore.queue, one transaction.                         *)
QueueRefund(c) ==
    /\ c \in setup.calls /\ stored[RefundOf[c]] /\ reply[c] = "none"
    /\ IsNew(c)
    /\ Total({RefundOf[c]})
         >= MapThenSumSet(LAMBDA x : Asked[x], Active(c)) + Asked[c]
    /\ Contract!Accept(c)
    /\ announcing' = announcing \cup {c}
    /\ Answer(c, c)

ReplayRefund(c) ==
    /\ c \in setup.calls /\ reply[c] = "none"
    /\ ~ IsNew(c)
    /\ \E x \in Earlier(c) :
          Answer(c, IF Asked[x] = Asked[c] THEN x ELSE "conflict")
    /\ UNCHANGED <<outcome, announcing>>

RefuseRefund(c) ==
    /\ c \in setup.calls /\ stored[RefundOf[c]] /\ reply[c] = "none"
    /\ IsNew(c)
    /\ Total({RefundOf[c]})
         < MapThenSumSet(LAMBDA x : Asked[x], Active(c)) + Asked[c]
    /\ Answer(c, "refused")
    /\ UNCHANGED <<outcome, announcing>>

AnnounceQueued(s) ==
    /\ s \in announcing
    /\ announcing' = announcing \ {s}
    /\ queuedNews' = queuedNews \cup {s}
    /\ UNCHANGED <<deposits, sends, taken, reply, sweptBy, polling, passes, identity,
                   faults>>

-------------------------------------------------------------------------------
(* The send pipeline                                                       *)

Pipeline(step) ==
    /\ step
    /\ UNCHANGED <<deposits, taken, reply, events, announcing, passes, identity, faults>>

Affordable(s) == Balance >= Worth(s)

Transfer(s) ==
    /\ Affordable(s)
    /\ Pipeline(Contract!Transfer(s))
    /\ UNCHANGED polling

(* A block that cannot be paid for is not signed: the send has failed.     *)
Fail(s) ==
    /\ ~ Affordable(s)
    /\ Pipeline(Contract!ReportFailed(s))
    /\ UNCHANGED polling

Publish(s) ==
    /\ Pipeline(Contract!ReportPublished(s))
    /\ polling' = polling \cup {s}

(* By the watcher or by the poll: the poll finds either.                   *)
Confirm(s) ==
    /\ Pipeline(Contract!ReportConfirmed(s))
    /\ UNCHANGED polling

(* The next tick polls again for what is published.                        *)
PollAgain(s) ==
    /\ outcome[s] = "published"
    /\ polling' = polling \cup {s}
    /\ UNCHANGED <<deposits, sends, taken, reply, events, announcing, passes, identity,
                   faults>>

(* The identifier of the event is the invoice's: the first one stays.      *)
Swept(s) == sweptBy' = IF sweptBy = None THEN s ELSE sweptBy

(* onConfirmed: a refund's source is the invoice as well.                  *)
OnConfirmed(s) ==
    /\ s \in polling /\ outcome[s] = "confirmed"
    /\ polling' = polling \ {s}
    /\ Swept(s)
    /\ UNCHANGED <<deposits, sends, taken, reply, queuedNews, announcing, passes,
                   identity, faults>>

-------------------------------------------------------------------------------
(* runInvoiceSweepCheck                                                    *)

(* What a pass has read goes with it, except into the row it has made.     *)
Ends(p) ==
    /\ pc' = [pc EXCEPT ![p] = "idle"]
    /\ read' = [read EXCEPT ![p] = 0]
    /\ IF outcome'[p] # "absent"
         THEN UNCHANGED <<known, counted>>
         ELSE /\ known' = [known EXCEPT ![p] = {}]
              /\ counted' = [counted EXCEPT ![p] = {}]

(* invoiceAccountStore.get takes the last row of an accountKey that has no *)
(* invoiceKey: it is no longer this invoice's after another one was made.  *)
AnotherInvoice ==
    /\ setup.keyless /\ youngest
    /\ youngest' = FALSE
    /\ UNCHANGED <<deposits, sends, taken, reply, events, announcing, polling, passes,
                   setup, faults>>

Goes(p, to) == pc' = [pc EXCEPT ![p] = to]

Sweeping(p, from) ==
    /\ p \in setup.passes /\ pc[p] = from
    /\ UNCHANGED <<deposits, moved, reply, queuedNews, polling, identity>>

Repair(s) == Swept(s)

(* Without a sweep, and with the address of another invoice, a pass goes   *)
(* on to the next invoice.                                                 *)
Look(p) ==
    /\ Sweeping(p, "idle")
    /\ completed
    /\ IF Rows(Pass) = {}
         THEN youngest /\ Goes(p, "looked") /\ UNCHANGED sweptBy
         ELSE \E s \in Rows(Pass) :
                 /\ outcome[s] = "confirmed"
                 /\ Repair(s)
                 /\ UNCHANGED pc
    /\ UNCHANGED <<outcome, taken, announcing, known, counted, read, faults>>

(* Regression: a task that is done is waited for.                          *)
EveryTask == {d \in Deposit : task[d] # "absent"}

OpenTasks == {d \in Deposit : task[d] = "open"}

CheckTasks(p) ==
    /\ Sweeping(p, "looked")
    /\ UNCHANGED <<outcome, taken, sweptBy, announcing, faults>>
    /\ IF OpenTasks # {}
         THEN Ends(p)
         ELSE /\ Goes(p, "clear")
              /\ known' = [known EXCEPT ![p] = {d \in Deposit : stored[d]}]
              /\ UNCHANGED <<counted, read>>

(* Regression: what the node still lists is not asked for.                 *)
TrustTasks == {}

Receivables == {d \in Deposit : chain[d] = "receivable"}

CheckReceivables(p) ==
    /\ Sweeping(p, "clear")
    /\ UNCHANGED <<outcome, taken, sweptBy, announcing, faults>>
    /\ IF Receivables # {}
         THEN Ends(p)
         ELSE Goes(p, "empty") /\ UNCHANGED <<known, counted, read>>

ReadBalance(p) ==
    /\ Sweeping(p, "empty")
    /\ UNCHANGED <<outcome, taken, sweptBy, announcing, faults>>
    /\ IF Balance = 0
         THEN Ends(p)
         ELSE /\ Goes(p, "counted")
              /\ counted' = [counted EXCEPT ![p] = Pocketed]
              /\ read' = [read EXCEPT ![p] = Balance]
              /\ UNCHANGED known

(* Regression: the key of the sweep is not unique.                         *)
KeyAlwaysFree == TRUE

KeyIsFree == Rows(Pass) = {}

(* sends.idempotency_key is UNIQUE: a pass that comes second ends.         *)
CreateSweep(p) ==
    /\ Sweeping(p, "counted")
    /\ IF KeyIsFree
         THEN /\ outcome' = [outcome EXCEPT ![p] = "queued"]
              /\ taken' = [taken EXCEPT ![p] = read[p]]
              /\ announcing' = announcing \cup {p}
         ELSE UNCHANGED <<outcome, taken, announcing>>
    /\ Ends(p)
    /\ UNCHANGED <<sweptBy, faults>>

(* The node or the database fails, and the pass goes on without the        *)
(* invoice.                                                                *)
PassFails(p) ==
    /\ pc[p] # "idle" /\ Sweeping(p, pc[p])
    /\ Fault
    /\ UNCHANGED <<outcome, taken, sweptBy, announcing>>
    /\ Ends(p)

(* The process dies: the rows stay, and what was about to be done is lost. *)
Crash ==
    /\ Fault
    /\ announcing' = {} /\ polling' = {}
    /\ pc' = [p \in Pass |-> "idle"]
    /\ read' = [p \in Pass |-> 0]
    /\ known' = [p \in Pass |-> IF p \in Rows(Pass) THEN known[p] ELSE {}]
    /\ counted' = [p \in Pass |-> IF p \in Rows(Pass) THEN counted[p] ELSE {}]
    /\ UNCHANGED <<deposits, sends, taken, reply, events>>

-------------------------------------------------------------------------------
Sweep(p) ==
    \/ Look(p) \/ CheckTasks(p) \/ CheckReceivables(p)
    \/ ReadBalance(p) \/ CreateSweep(p)

Receiving(d) == Ingest(d) \/ Enqueue(d) \/ PublishReceive(d) \/ ConfirmReceive(d)

Sending(s) == Transfer(s) \/ Fail(s) \/ Publish(s) \/ Confirm(s) \/ OnConfirmed(s)

Next ==
    \/ \E d \in Deposit : Arrive(d) \/ Receiving(d) \/ FailReceive(d)
    \/ \E c \in Call : QueueRefund(c) \/ ReplayRefund(c) \/ RefuseRefund(c)
    \/ \E s \in Send : AnnounceQueued(s) \/ Sending(s) \/ PollAgain(s)
    \/ \E p \in Pass : Sweep(p) \/ PassFails(p)
    \/ AnotherInvoice
    \/ Crash

Spec == Init /\ [][Next]_vars

(* The receive worker, the send ticks and the sweep timer keep going.      *)
FairSpec ==
    /\ Spec
    /\ \A d \in Deposit : WF_vars(Receiving(d))
    /\ \A s \in Send : WF_vars(Sending(s))
    /\ \A p \in Pass : WF_vars(Sweep(p))

-------------------------------------------------------------------------------
(* Properties                                                              *)

TypeOK ==
    /\ chain \in [Deposit -> ChainState] /\ stored \in [Deposit -> BOOLEAN]
    /\ task \in [Deposit -> TaskState] /\ completed \in BOOLEAN
    /\ outcome \in [Send -> {"absent", "queued", "published", "confirmed", "failed"}]
    /\ moved \in [Send -> BOOLEAN] /\ taken \in [Pass -> Nat]
    /\ reply \in [Call -> Reply]
    /\ queuedNews \subseteq Send /\ sweptBy \in Send \cup {None}
    /\ announcing \subseteq Send /\ polling \subseteq Send
    /\ pc \in [Pass -> Stage] /\ read \in [Pass -> Nat]
    /\ known \in [Pass -> SUBSET Deposit] /\ counted \in [Pass -> SUBSET Deposit]
    /\ setup \in Setup /\ youngest \in BOOLEAN /\ faults \in 0..setup.maxFaults
    /\ Balance \in Nat

(* "Refund totals cannot exceed the deposit amount while refunds are       *)
(* queued, published, or confirmed" (packages/raiflow-sdk/README.md).      *)
RefundsWithinDeposit ==
    \A d \in Deposit :
        Amount[d] >= MapThenSumSet(LAMBDA c : Asked[c],
                        {c \in Rows(Call) : RefundOf[c] = d /\ outcome[c] # "failed"})

(* What is asked for once leaves once.  Calls with one key that get a      *)
(* refund get the same one, however they are spread over time, and none    *)
(* gets it for another amount; and overlapping passes queue one sweep.     *)
OneRefundPerKey ==
    \A c, x \in Call :
        /\ reply[c] \in Call => Asked[reply[c]] = Asked[c]
        /\ (RefundOf[c] = RefundOf[x] /\ Key[c] = Key[x]
            /\ reply[c] \in Call /\ reply[x] \in Call) => reply[c] = reply[x]

OneSweep == \A p, q \in Rows(Pass) : p = q

OnePayoutPerKey == OneRefundPerKey /\ OneSweep

(* A sweep is queued for a balance that holds every deposit that was       *)
(* stored when the pass looked at the tasks: nothing RaiFlow knew of is    *)
(* left on the address ("waits for receive work on the invoice address to  *)
(* settle", rfcs/0002-observe-mode.md), whatever became of its task.       *)
SweepCountsWhatIsKnown ==
    \A p \in Rows(Pass) : known[p] \subseteq counted[p]

(* What keeps money on the address of a completed invoice for good: its    *)
(* one sweep has failed or has been paid before a deposit came, a receive  *)
(* task has failed, or none was queued before another invoice without an   *)
(* invoiceKey was made for its accountKey.                                 *)
LeftBehind ==
    \/ \E p \in Rows(Pass) : outcome[p] = "failed" \/ counted[p] # Pocketed
    \/ Rows(Pass) = {} /\ ~ youngest
    \/ \E d \in Deposit : task[d] = "failed"

(* The money of a completed invoice leaves its address in the end, with    *)
(* these exceptions.                                                       *)
CompletedIsSwept == (completed /\ Balance > 0) ~> (Balance = 0 \/ LeftBehind)

(* "RaiFlow emits `invoice.swept` only after the sweep send is confirmed"  *)
(* (rfcs/0002-observe-mode.md).  It does so for a refund as well.          *)
SweptAfterSweep ==
    sweptBy # None => \E p \in Pass : outcome[p] = "confirmed"
===============================================================================
