------------------------------ MODULE Migrations -------------------------------
(***************************************************************************)
(* The schema of the SQLite database and the nineteen migrations that      *)
(* build it (createMigrationRunner, packages/storage/src/index.ts).  A     *)
(* schema says which tables there are and which tables they reference,     *)
(* which indexes and added columns there are, and whose rows each table    *)
(* holds.  A migration is the sequence of its statements; a statement that *)
(* SQLite refuses (the table or index is already there, rows elsewhere     *)
(* still reference the table that is dropped) leaves a schema that is not  *)
(* ok, and the transaction of the migration rolls back.                    *)
(***************************************************************************)
EXTENDS Integers, Sequences, FiniteSets, SequencesExt

Empty == [ok |-> TRUE, refs |-> << >>, rows |-> << >>, index |-> << >>,
          columns |-> {}]

Tables(s) == DOMAIN s.refs

(* The statements.                                                         *)
Create(t, refs)       == [do |-> "create", table |-> t, refs |-> refs]
Rename(t, u)          == [do |-> "rename", table |-> t, to |-> u]
Drop(t)               == [do |-> "drop", table |-> t]
AddColumn(t, c)       == [do |-> "column", table |-> t, column |-> c]
Index(i, t)           == [do |-> "index", name |-> i, table |-> t]
DropIndex(i)          == [do |-> "dropIndex", name |-> i]
IndexIfNone(i, t)     == [do |-> "indexIfNone", name |-> i, table |-> t]
CreateIfNone(t, refs) == [do |-> "createIfNone", table |-> t, refs |-> refs]

Copy(t, u) == [do |-> "copy", table |-> t, to |-> u]

Without(f, x) == Restrict(f, DOMAIN f \ {x})
Swap(x, t, u) == IF x = t THEN u ELSE x

(* The rows of t can be deleted: no row elsewhere references one.          *)
Unreferenced(s, t) ==
    \A u \in Tables(s) \ {t} : t \in s.refs[u] => s.rows[u] = {}

Refused(s, x) ==
    \/ ~ s.ok
    \/ x.do = "create" /\ x.table \in Tables(s)
    \/ x.do = "rename" /\ (x.table \notin Tables(s) \/ x.to \in Tables(s))
    \/ x.do = "copy" /\ ~ {x.table, x.to} \subseteq Tables(s)
    \/ x.do = "drop" /\ ~ (x.table \in Tables(s) /\ Unreferenced(s, x.table))
    \/ x.do = "column" /\ (x.table \notin Tables(s)
                           \/ <<x.table, x.column>> \in s.columns)
    \/ x.do = "index" /\ (x.table \notin Tables(s) \/ x.name \in DOMAIN s.index)

Add(s, t, refs) == [s EXCEPT !.refs = @ @@ t :> refs, !.rows = @ @@ t :> {}]

(* A renamed table keeps its rows and indexes, and is followed by the      *)
(* tables that reference it; a dropped one takes them away.                *)
Effect(s, x) ==
    CASE Refused(s, x) -> [s EXCEPT !.ok = FALSE]
      [] x.do = "create" -> Add(s, x.table, x.refs)
      [] x.do = "createIfNone" /\ x.table \notin Tables(s) -> Add(s, x.table, x.refs)
      [] x.do = "rename" ->
            LET Old(u) == Swap(u, x.to, x.table)
                names  == {Swap(u, x.table, x.to) : u \in Tables(s)}
            IN  [s EXCEPT
                   !.refs = [u \in names |-> {Swap(v, x.table, x.to) : v \in s.refs[Old(u)]}],
                   !.rows = [u \in names |-> s.rows[Old(u)]],
                   !.index = [i \in DOMAIN @ |-> Swap(@[i], x.table, x.to)],
                   !.columns = {<<Swap(p[1], x.table, x.to), p[2]>> : p \in @}]
      [] x.do = "copy" -> [s EXCEPT !.rows[x.to] = @ \cup s.rows[x.table]]
      [] x.do = "drop" ->
            [s EXCEPT !.refs = Without(@, x.table), !.rows = Without(@, x.table),
                      !.index = RestrictValues(@, LAMBDA t : t # x.table),
                      !.columns = {p \in @ : p[1] # x.table}]
      [] x.do = "column" -> [s EXCEPT !.columns = @ \cup {<<x.table, x.column>>}]
      [] x.do \in {"index", "indexIfNone"} /\ x.name \notin DOMAIN s.index ->
            [s EXCEPT !.index = @ @@ x.name :> x.table]
      [] x.do = "dropIndex" -> [s EXCEPT !.index = Without(@, x.name)]
      [] OTHER -> s

(* The same, in a form in which TLC evaluates s once.                      *)
Execute(s, x) == CHOOSE after \in {Effect(before, x) : before \in {s}} : TRUE

-------------------------------------------------------------------------------
(* The migrations                                                          *)

InitialSchema == <<
    CreateIfNone("invoices", {}),
    CreateIfNone("payments", {"invoices"}),
    CreateIfNone("accounts", {}),
    CreateIfNone("sends", {"accounts"}),
    CreateIfNone("events", {}),
    CreateIfNone("webhooks", {}),
    CreateIfNone("webhook_deliveries", {"webhooks"}),
    CreateIfNone("idempotency_keys", {}),
    CreateIfNone("account_frontiers", {"accounts"}),
    CreateIfNone("published_blocks", {"accounts"}),
    CreateIfNone("pending_receivables", {"accounts"}),
    IndexIfNone("events_resource", "events"),
    IndexIfNone("events_type", "events"),
    IndexIfNone("events_timestamp", "events"),
    IndexIfNone("payments_invoice", "payments"),
    IndexIfNone("payments_block_hash", "payments"),
    IndexIfNone("sends_account", "sends"),
    IndexIfNone("sends_idempotency", "sends"),
    IndexIfNone("invoices_pay_address", "invoices"),
    IndexIfNone("invoices_idempotency", "invoices"),
    IndexIfNone("invoices_status", "invoices"),
    IndexIfNone("webhook_deliveries_event", "webhook_deliveries"),
    IndexIfNone("pending_receivables_account", "pending_receivables") >>

(* pay_address may repeat: the table is made anew.                         *)
AllowDuplicatePayAddresses == <<
    DropIndex("invoices_pay_address"),
    Create("invoices_new", {}),
    Copy("invoices", "invoices_new"),
    Drop("invoices"),
    Rename("invoices_new", "invoices"),
    IndexIfNone("invoices_pay_address", "invoices"),
    IndexIfNone("invoices_idempotency", "invoices"),
    IndexIfNone("invoices_status", "invoices") >>

InvoiceDerivationIndex == <<AddColumn("invoices", "derivation_index")>>

InvoiceAccounts == <<Create("invoice_accounts", {})>>

ReceiveTasks == <<Create("receive_tasks", {})>>

InvoiceKeys == <<AddColumn("invoices", "account_key"),
                 AddColumn("invoices", "invoice_key")>>

InvoiceLookupIndex == <<IndexIfNone("invoices_account_invoice", "invoices")>>

ReceiveBlockHash == <<
    AddColumn("receive_tasks", "receive_block_hash"),
    IndexIfNone("receive_tasks_receive_block_hash", "receive_tasks") >>

AccountOperationLeases == <<Create("account_operation_leases", {})>>

SendBlockIntents == <<Create("send_block_intents", {"sends"})>>

ReceiveBlockIntents == <<Create("receive_block_intents", {"receive_tasks"})>>

ConfirmedDeposits == <<
    Create("deposits", {"invoices"}),
    Index("deposits_recipient_confirmed", "deposits"),
    Index("deposits_invoice", "deposits") >>

RecoveryCursors == <<Create("account_history_recovery_cursors", {})>>

InvoiceAccountReference == <<Index("invoice_accounts_reference", "invoice_accounts")>>

DepositDispositions == <<AddColumn("deposits", "disposition")>>

(* A send may come from an invoice: sends and their intents are made anew. *)
SendSources == <<
    Rename("send_block_intents", "send_block_intents_legacy"),
    Rename("sends", "sends_legacy"),
    Create("sends", {"accounts", "invoices"}),
    Copy("sends_legacy", "sends"),
    Create("send_block_intents", {"sends"}),
    Copy("send_block_intents_legacy", "send_block_intents"),
    Drop("send_block_intents_legacy"),
    Drop("sends_legacy"),
    Index("sends_account", "sends"),
    Index("sends_idempotency", "sends"),
    Index("sends_invoice", "sends") >>

Outbox == <<
    Create("webhook_outbox", {"events", "webhooks"}),
    Index("webhook_outbox_ready", "webhook_outbox"),
    Index("webhook_outbox_webhook", "webhook_outbox") >>

(* The attempts outlive their endpoint.                                    *)
AttemptHistory == <<
    Rename("webhook_deliveries", "webhook_deliveries_legacy"),
    Create("webhook_deliveries", {}),
    Copy("webhook_deliveries_legacy", "webhook_deliveries"),
    Drop("webhook_deliveries_legacy"),
    Index("webhook_deliveries_event", "webhook_deliveries"),
    Index("webhook_deliveries_target", "webhook_deliveries") >>

DepositRefunds == <<
    Create("refunds", {"deposits", "invoices", "sends"}),
    Index("refunds_deposit", "refunds") >>

Steps == <<InitialSchema, AllowDuplicatePayAddresses, InvoiceDerivationIndex,
           InvoiceAccounts, ReceiveTasks, InvoiceKeys, InvoiceLookupIndex,
           ReceiveBlockHash, AccountOperationLeases, SendBlockIntents,
           ReceiveBlockIntents, ConfirmedDeposits, RecoveryCursors,
           InvoiceAccountReference, DepositDispositions, SendSources, Outbox,
           AttemptHistory, DepositRefunds>>

Newest == Len(Steps)

(* The schema after the m-th migration, from one before it.                *)
Migrated(s, m) == IF s.ok THEN FoldLeft(Execute, s, Steps[m]) ELSE s

(* A table may hold rows by the release that made it.                      *)
Filled(s) == [s EXCEPT !.rows = [t \in Tables(s) |-> {t}]]

(* The schemas of a new database, before and after each migration.         *)
History == FoldLeft(LAMBDA h, step : Append(h, FoldLeft(Execute, Last(h), step)),
                    <<Empty>>, Steps)

(* With the first k migrations applied.                                    *)
At(k) == History[k + 1]
===============================================================================
