------------------------------ MODULE AccountRows ------------------------------
(***************************************************************************)
(* The row of one managed account and who writes it: the calls that        *)
(* create, label and delete the account and queue its sends                *)
(* (packages/runtime/src/runtime.ts), the send pipeline, which caches what *)
(* it has published, and the synchronisation with the node                 *)
(* (packages/runtime/src/account-state-sync.ts).                           *)
(*                                                                         *)
(* Every writer updates the row by reading it and writing every column     *)
(* back (update of createSqliteAccountStore).  In one process nothing      *)
(* happens between the two; a second process that shares the database does *)
(* not wait.  An account keeps the name of the call that has created it,   *)
(* the k-th block of its chain is the number k.                            *)
(***************************************************************************)
EXTENDS Null, Integers, FiniteSets

CONSTANTS
    Create,     \* calls of createManagedAccount for one accountKey
    Delete,     \* calls of deleteAccount
    Update,     \* calls of updateAccount; a label keeps the name of its call
    SendCall,   \* calls of queueSend
    Worker,     \* runs of initialSync and reconcileAccount that may overlap
    MaxHeight,  \* a bound on the chain
    BalanceAt,  \* [0..MaxHeight -> the balance after that block]
    SendBlocks, \* the blocks that are sends of RaiFlow, the others are receives
    RowSetup    \* the instances: who takes part, whether a second process
                \* shares the database, the failures and crashes that happen

Height == 0..MaxHeight
Row    == [id : Create, balance : Nat, frontier : Height, label : Update \cup {None}]

ASSUME AccountRowsAssumption ==
    /\ MaxHeight \in Nat /\ SendBlocks \subseteq 1..MaxHeight
    /\ BalanceAt \in [Height -> Nat] /\ BalanceAt[0] = 0
    /\ None \notin Create \cup Update \cup Row
    /\ Create \cap (Delete \cup Update \cup SendCall \cup Worker \cup SendBlocks) = {}
    /\ (Delete \cup SendCall) \cap (Update \cup Worker \cup SendBlocks) = {}
    /\ Update \cap (Worker \cup SendBlocks) = {}
    /\ \A s \in RowSetup :
        /\ s.actors \subseteq Create \cup Delete \cup Update \cup SendCall
        /\ s.workers \subseteq Worker /\ s.shared \in BOOLEAN
        /\ s.exists \subseteq Create /\ s.faults \in Nat /\ s.crashes \in Nat

VARIABLES
    \* the ledger
    height,     \* the blocks of the chain
    \* the database
    row,        \* the accounts row, or None
    sendRows,   \* the sends rows, [id, account]
    published,  \* the sends whose block is on the ledger
    \* the calls
    callAt,     \* [call -> where it is]
    saw,        \* [call -> the account it has found, or None]
    created,    \* [Create -> the account it is answered with, or None]
    lookedAt,   \* [Delete -> the height when it looked at the row, or None]
    removed,    \* the calls of deleteAccount that have deleted the row
    \* in memory
    toCache,    \* the blocks whose send is about to update the row
    held,       \* [writer -> the row it is about to write, or None]
    attached,   \* watchedAccounts of AccountStateSync: an account, or None
    watching,   \* the watcher has the address
    left,       \* the last subscriber has left since
    restoring,  \* syncExistingAccounts is to come
    job,        \* [Worker -> its run]
    \* the instance, and what has happened
    rowSetup,
    rowFaults,
    crashes

database == <<row, sendRows, published>>
calls    == <<callAt, saw, created, lookedAt, removed>>
memory   == <<attached, watching, left, restoring>>
bounds   == <<rowSetup, rowFaults, crashes>>
rowvars  == <<height, database, calls, toCache, held, memory, job, bounds>>

AccountCall   == Create \cup Delete \cup Update \cup SendCall
Writer == Update \cup Worker \cup SendBlocks
Job    == [kind : {"idle", "initial", "reconcile"}, id : Create \cup {None},
           info : Height \cup {None}]
Idle   == [kind |-> "idle", id |-> None, info |-> None]

Fresh(c) == [id |-> c, balance |-> 0, frontier |-> 0, label |-> None]

RowInit ==
    /\ rowSetup \in RowSetup
    /\ height = 0
    /\ row \in {Fresh(c) : c \in rowSetup.exists} \cup {None}
    /\ row = None <=> rowSetup.exists = {}
    /\ sendRows = {} /\ published = {}
    /\ callAt = [c \in AccountCall |-> "idle"]
    /\ saw = [c \in AccountCall |-> None]
    /\ created = [c \in Create |-> None]
    /\ lookedAt = [d \in Delete |-> None]
    /\ removed = {}
    /\ toCache = {}
    /\ held = [w \in Writer |-> None]
    /\ attached = None /\ watching = FALSE /\ left = FALSE
    /\ restoring = (row # None)
    /\ job = [w \in Worker |-> Idle]
    /\ rowFaults = 0 /\ crashes = 0

RowFault ==
    /\ rowFaults < rowSetup.faults /\ rowFaults' = rowFaults + 1
    /\ UNCHANGED <<rowSetup, crashes>>

(* Regression: an update gives way between its two statements.             *)
NobodyWaits(w) == TRUE

Turn(w) == rowSetup.shared \/ \A v \in Writer \ {w} : held[v] = None

At(c, step) ==
    /\ c \in rowSetup.actors /\ callAt[c] = step
    /\ Turn(c)
    /\ UNCHANGED <<height, toCache, held, job, bounds>>

Proceeds(c, step) == callAt' = [callAt EXCEPT ![c] = step]

-------------------------------------------------------------------------------
(* createManagedAccount                                                    *)

LookupAccount(c) ==
    /\ At(c, "idle")
    /\ UNCHANGED <<database, saw, lookedAt, removed, attached, left, restoring>>
    /\ IF row # None
         THEN /\ created' = [created EXCEPT ![c] = row.id]
              /\ watching' = TRUE
              /\ Proceeds(c, "done")
         ELSE Proceeds(c, "insert") /\ UNCHANGED <<created, watching>>

NoRow == row = None

(* persistAccount: accounts.account_key is UNIQUE.                         *)
InsertAccount(c) ==
    /\ At(c, "insert")
    /\ UNCHANGED <<sendRows, published, saw, created, lookedAt, removed, attached, left,
                   restoring>>
    /\ IF NoRow
         THEN row' = Fresh(c) /\ watching' = TRUE /\ Proceeds(c, "put")
         ELSE UNCHANGED <<row, watching>> /\ Proceeds(c, "done")

AnswerCreated(c) ==
    /\ At(c, "put")
    /\ created' = [created EXCEPT ![c] = c]
    /\ Proceeds(c, "done")
    /\ UNCHANGED <<database, saw, lookedAt, removed, memory>>

-------------------------------------------------------------------------------
(* deleteAccount, and the handler after it                                 *)

SendsOf(id) == {s \in sendRows : s.account = id}

CheckDelete(d) ==
    /\ At(d, "idle")
    /\ row # None
    /\ UNCHANGED <<database, created, removed, memory>>
    /\ lookedAt' = [lookedAt EXCEPT ![d] = height]
    /\ IF row.balance = 0 /\ SendsOf(row.id) = {}
         THEN saw' = [saw EXCEPT ![d] = row.id] /\ Proceeds(d, "delete")
         ELSE Proceeds(d, "done") /\ UNCHANGED saw

(* Regression: foreign_keys is OFF, which is the default of SQLite.        *)
Unreferenced(id) == TRUE

Deletable(id) == SendsOf(id) = {}

(* sends.account_id REFERENCES accounts(id)                                *)
DeleteRow(d) ==
    /\ At(d, "delete")
    /\ UNCHANGED <<sendRows, published, saw, created, lookedAt, attached, left, restoring>>
    /\ IF row # None /\ row.id = saw[d] /\ Deletable(saw[d])
         THEN /\ row' = None
              /\ watching' = FALSE
              /\ removed' = removed \cup {d}
              /\ Proceeds(d, "put")
         ELSE UNCHANGED <<row, watching, removed>> /\ Proceeds(d, "done")

(* removeAccount of the synchronisation                                    *)
AnswerDeleted(d) ==
    /\ At(d, "put")
    /\ attached' = None /\ watching' = FALSE
    /\ Proceeds(d, "done")
    /\ UNCHANGED <<database, saw, created, lookedAt, removed, left, restoring>>

-------------------------------------------------------------------------------
(* Sends                                                                   *)

FindSource(s) ==
    /\ At(s, "idle")
    /\ row # None
    /\ saw' = [saw EXCEPT ![s] = row.id]
    /\ Proceeds(s, "create")
    /\ UNCHANGED <<database, created, lookedAt, removed, memory>>

CreateSend(s) ==
    /\ At(s, "create")
    /\ IF row # None /\ row.id = saw[s]
         THEN sendRows' = sendRows \cup {[id |-> s, account |-> saw[s]]}
         ELSE UNCHANGED sendRows
    /\ Proceeds(s, "done")
    /\ UNCHANGED <<row, published, saw, created, lookedAt, removed, memory>>

Grow ==
    /\ height < MaxHeight
    /\ height' = height + 1
    /\ UNCHANGED <<row, sendRows, calls, held, memory, job, bounds>>

(* The receive pipeline, which writes no row.                              *)
Pocket ==
    /\ height + 1 \notin SendBlocks
    /\ Grow
    /\ UNCHANGED <<published, toCache>>

PublishSend(s) ==
    /\ s \in sendRows \ published
    /\ height + 1 \in SendBlocks
    /\ Grow
    /\ published' = published \cup {s}
    /\ toCache' = toCache \cup {height + 1}

-------------------------------------------------------------------------------
(* accountStore.update                                                     *)

Hold(w, r) == held' = [held EXCEPT ![w] = r]

(* UPDATE ... WHERE id = @id: of a row that is gone nothing is written.    *)
Write(w) ==
    /\ held[w] # None
    /\ row' = IF row # None /\ row.id = held[w].id THEN held[w] ELSE row
    /\ Hold(w, None)
    /\ IF w \in Update THEN Proceeds(w, "done") ELSE UNCHANGED callAt
    /\ UNCHANGED <<height, sendRows, published, saw, created, lookedAt, removed,
                   toCache, memory, job, bounds>>

ReadForLabel(u) ==
    /\ u \in rowSetup.actors /\ callAt[u] = "idle" /\ Turn(u)
    /\ row # None
    /\ Hold(u, [row EXCEPT !.label = u])
    /\ Proceeds(u, "write")
    /\ UNCHANGED <<height, database, saw, created, lookedAt, removed, toCache, memory,
                   job, bounds>>

(* publishSendUnderLease, after the send is marked as published: also in a *)
(* later tick than that of the blocks behind it.                           *)
ReadForCache(h) ==
    /\ h \in toCache /\ Turn(h) /\ held[h] = None
    /\ toCache' = toCache \ {h}
    /\ IF row # None
         THEN Hold(h, [row EXCEPT !.frontier = h, !.balance = BalanceAt[h]])
         ELSE UNCHANGED held
    /\ UNCHANGED <<height, database, calls, memory, job, bounds>>

-------------------------------------------------------------------------------
(* AccountStateSync                                                        *)

Starts(w, kind, id) ==
    /\ w \in rowSetup.workers /\ job[w] = Idle /\ held[w] = None
    /\ job' = [job EXCEPT ![w] = [Idle EXCEPT !.kind = kind, !.id = id]]
    /\ UNCHANGED <<height, database, calls, toCache, held, bounds>>

(* addAccount, for a stream or for POST /accounts/:id/watch                *)
Attach(w) ==
    /\ row # None
    /\ attached' = row.id /\ watching' = TRUE /\ left' = FALSE
    /\ Starts(w, "initial", row.id)
    /\ UNCHANGED restoring

(* syncExistingAccounts                                                    *)
Restore(w) ==
    /\ restoring /\ row # None
    /\ attached' = row.id /\ watching' = TRUE /\ left' = FALSE
    /\ restoring' = FALSE
    /\ Starts(w, "initial", row.id)

(* The last subscriber of the stream leaves.                               *)
Detach ==
    /\ attached # None
    /\ attached' = None /\ watching' = FALSE /\ left' = TRUE
    /\ UNCHANGED <<height, database, calls, toCache, held, restoring, job, bounds>>

(* The timer of reconcile.                                                 *)
Reconcile(w) ==
    /\ attached # None
    /\ Starts(w, "reconcile", attached)
    /\ UNCHANGED memory

AskNode(w) ==
    /\ job[w] # Idle /\ job[w].info = None
    /\ UNCHANGED <<height, database, calls, toCache, held, memory>>
    /\ \/ job' = [job EXCEPT ![w].info = height] /\ UNCHANGED bounds
       \/ /\ RowFault
          /\ job' = [job EXCEPT ![w] =
                        IF @.kind = "initial" THEN [@ EXCEPT !.info = 0] ELSE Idle]

(* Regression: the frontier is stored with a new balance only.             *)
BalanceOnly(r, h) ==
    IF r.balance = BalanceAt[h] THEN r
    ELSE [r EXCEPT !.frontier = h, !.balance = BalanceAt[h]]

Synced(r, h) == [r EXCEPT !.frontier = h, !.balance = BalanceAt[h]]

(* Without an answer initialSync takes the account for unopened.           *)
ReadForSync(w) ==
    /\ job[w].info # None /\ Turn(w)
    /\ job' = [job EXCEPT ![w] = Idle]
    /\ IF row # None /\ row.id = job[w].id /\ Synced(row, job[w].info) # row
         THEN Hold(w, Synced(row, job[w].info))
         ELSE UNCHANGED held
    /\ UNCHANGED <<height, database, calls, toCache, memory, bounds>>

-------------------------------------------------------------------------------
(* Regression: a restart leaves the accounts to their streams.             *)
LeaveAccounts == FALSE

ToRestore == row # None

(* What was running is lost, except for the sends: the intent of a send is *)
(* published again, and its row cached, until it is marked.                *)
RowCrash ==
    /\ crashes < rowSetup.crashes
    /\ crashes' = crashes + 1
    /\ callAt' = [c \in AccountCall |-> IF callAt[c] = "idle" THEN "idle" ELSE "done"]
    /\ held' = [w \in Writer |-> None]
    /\ job' = [w \in Worker |-> Idle]
    /\ attached' = None /\ watching' = FALSE /\ left' = FALSE
    /\ restoring' = ToRestore
    /\ \E lost \in SUBSET toCache : toCache' = toCache \ lost
    /\ UNCHANGED <<height, database, saw, created, lookedAt, removed, rowSetup, rowFaults>>

Creating(c) == LookupAccount(c) \/ InsertAccount(c) \/ AnswerCreated(c)
Deleting(d) == CheckDelete(d) \/ DeleteRow(d) \/ AnswerDeleted(d)
Queueing(s) == FindSource(s) \/ CreateSend(s)
Syncing(w)  == Restore(w) \/ Reconcile(w) \/ AskNode(w) \/ ReadForSync(w)

RowNext ==
    \/ \E c \in Create : Creating(c)
    \/ \E d \in Delete : Deleting(d)
    \/ \E s \in SendCall : Queueing(s)
    \/ \E s \in sendRows : PublishSend(s)
    \/ \E u \in Update : ReadForLabel(u)
    \/ \E h \in SendBlocks : ReadForCache(h)
    \/ \E w \in Worker : Syncing(w) \/ Attach(w)
    \/ \E w \in Writer : Write(w)
    \/ Pocket \/ Detach \/ RowCrash

RowSpec == RowInit /\ [][RowNext]_rowvars

(* The timer, the pipeline and a started update go on.                     *)
RowFairSpec ==
    /\ RowSpec
    /\ \A w \in Worker : WF_rowvars(Restore(w)) /\ WF_rowvars(Reconcile(w))
                         /\ WF_rowvars(AskNode(w)) /\ WF_rowvars(ReadForSync(w))
    /\ \A h \in SendBlocks : WF_rowvars(ReadForCache(h))
    /\ \A w \in Writer : WF_rowvars(Write(w))

-------------------------------------------------------------------------------
(* Properties                                                              *)

RowTypeOK ==
    /\ height \in Height
    /\ row \in Row \cup {None}
    /\ sendRows \subseteq [id : SendCall, account : Create]
    /\ published \subseteq sendRows
    /\ attached \in Create \cup {None}
    /\ callAt \in [AccountCall -> {"idle", "insert", "put", "delete", "create", "write", "done"}]
    /\ saw \in [AccountCall -> Create \cup {None}]
    /\ created \in [Create -> Create \cup {None}]
    /\ lookedAt \in [Delete -> Height \cup {None}] /\ removed \subseteq Delete
    /\ toCache \subseteq SendBlocks
    /\ held \in [Writer -> Row \cup {None}]
    /\ watching \in BOOLEAN /\ left \in BOOLEAN /\ restoring \in BOOLEAN
    /\ job \in [Worker -> Job]
    /\ rowSetup \in RowSetup /\ rowFaults \in 0..rowSetup.faults
    /\ crashes \in 0..rowSetup.crashes

(* A send has an account, whatever deletes it meanwhile: its history is not *)
(* lost ("Account has send history and cannot be removed without losing    *)
(* audit records", packages/runtime/src/runtime.ts).                       *)
NoSendWithoutAccount ==
    \A s \in sendRows : row # None /\ row.id = s.account

(* Calls for one accountKey are answered with one account, as long as it is *)
(* not deleted.                                                            *)
OneAccount ==
    removed = {} =>
        \A c \in Create : created[c] # None => row # None /\ row.id = created[c]

(* A label that was answered is not undone by a writer that has read the   *)
(* row before: in one process, that is.                                    *)
LabelsStay ==
    [][(/\ ~ rowSetup.shared /\ row # None /\ row' # None
        /\ row'.id = row.id /\ row'.label # row.label)
         => \E u \in Update : held[u] # None /\ row'.label = u]_rowvars

(* The cached row of an account that is synchronised becomes what the      *)
(* ledger says, whatever stale answers and replayed sends have written.    *)
UpToDate == row # None /\ row.frontier = height /\ row.balance = BalanceAt[height]

RowConverges ==
    <>[](row # None /\ attached = row.id) => <>[]UpToDate

(* The address of every account is watched in the end, also after a crash  *)
(* and when the node does not answer at the start; until the last          *)
(* subscriber of a stream leaves, which stops the watcher as well.         *)
AccountIsWatched ==
    row # None ~> (watching \/ left \/ removed # {})

(* "delete account (zero balance only)" (docs/architectural-review.md).    *)
(* The balance that is looked at is the cached one.                        *)
DeletedIsEmpty ==
    \A d \in removed : BalanceAt[lookedAt[d]] = 0
===============================================================================
