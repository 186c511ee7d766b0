-------------------------------- MODULE Startup --------------------------------
(***************************************************************************)
(* The life of the daemon's processes over one database file               *)
(* (packages/runtime/src/main.ts): a process reads its configuration, opens *)
(* the database, migrates it, makes sure of its custody, starts the        *)
(* workers of the Runtime and listens.  Whatever goes wrong on the way ends *)
(* the process, and its supervisor starts it again (restart:               *)
(* unless-stopped of docker-compose.yml).  Two processes are what a        *)
(* deployment overlaps.                                                    *)
(*                                                                         *)
(* A statement outside of a transaction is a step of its own, and so is a  *)
(* migration, which is one transaction.                                    *)
(***************************************************************************)
EXTENDS Migrations

CONSTANTS
    Process,
    Setup      \* the instances: the processes, their configuration, the
               \* database they find, and what may happen to them

VARIABLES
    \* the database
    meta,      \* schema_metadata: "absent", "blank" without its row, "current", "other"
    ledger,    \* the migrations table is there
    applied,   \* its ids
    schema,
    \* the processes
    pc,        \* where each is in main.ts
    at,        \* the migration it is at
    workers,   \* the workers of its Runtime that run
    \* the instance, and what has happened
    setup,
    crashes,   \* processes that died
    refusals,  \* starts that found no custody
    stops      \* signals

database  == <<meta, ledger, applied, schema>>
processes == <<pc, at, workers>>
events    == <<crashes, refusals, stops>>
daemon    == <<database, processes, setup, events>>

-------------------------------------------------------------------------------
(* The configuration, by what the loader tells apart in each section       *)

DaemonOk(c) == c.mode # "unknown"

(* A custody section holds a wallet and a representative, and no seed.     *)
CustodyOk(c) == c.custody \in {"absent", "ows"}

(* autoSweep needs a destination, which is an address.                     *)
InvoicesOk(c) == c.sweep \in {"off", "address"} /\ c.expiry > 0

StorageOk(c) == c.driver = "sqlite" /\ c.megabytes >= 16 /\ c.deposits > 0

ReceivingOk(c) == c.minimum > 0

Loads(c) ==
    DaemonOk(c) /\ CustodyOk(c) /\ InvoicesOk(c) /\ StorageOk(c) /\ ReceivingOk(c)

(* resolveApiKey: from the environment, or from the configuration.         *)
HasKey(c) == c.key # {}

(* main.ts asks for a mode, a key, and a custody where the mode needs one. *)
Accepted(c) ==
    /\ Loads(c)
    /\ c.mode # "none"
    /\ HasKey(c)
    /\ c.mode = "custodial" => c.custody = "ows"

(* The workers that Runtime.start starts: the custody section decides, not *)
(* the mode.                                                               *)
Workers(c) ==
    {"expiry", "webhooks", "recovery"}
        \cup (IF c.custody = "ows" THEN {"sends", "receives"} ELSE {})
        \cup (IF c.sweep = "address" THEN {"sweeps"} ELSE {})

-------------------------------------------------------------------------------
(* What a process finds                                                    *)

HasTables == meta # "absent" \/ ledger \/ Tables(schema) # {}

ASSUME StartupAssumption ==
    \A s \in Setup :
        /\ s.processes \subseteq Process /\ s.processes # {}
        /\ s.level \in 0..Newest /\ s.filled \in BOOLEAN
        /\ s.up => s.level = Newest
        /\ s.meta \in {"absent", "current", "other"}
        /\ s.crashes \in Nat /\ s.refusals \in Nat /\ s.stops \in Nat

(* A database that an earlier release left, with rows or without.          *)
Base(l, filled) == IF filled THEN Filled(At(l)) ELSE At(l)

DaemonInit ==
    /\ setup \in Setup
    /\ meta = setup.meta
    /\ ledger = (setup.level > 0)
    /\ applied = 1..setup.level
    /\ schema = Base(setup.level, setup.filled)
    /\ pc = [p \in Process |-> IF setup.up /\ p \in setup.processes THEN "serving" ELSE "down"]
    /\ at = [p \in Process |-> 0]
    /\ workers = [p \in Process |-> IF pc[p] = "serving" THEN Workers(setup.config) ELSE {}]
    /\ crashes = 0 /\ refusals = 0 /\ stops = 0

Comes(p, step) == p \in setup.processes /\ pc[p] = step
Goes(p, step)  == pc' = [pc EXCEPT ![p] = step]

(* The process ends, with what its Runtime had started.                    *)
Exits(p, as) ==
    /\ Goes(p, as)
    /\ workers' = [workers EXCEPT ![p] = {}]
    /\ UNCHANGED at

-------------------------------------------------------------------------------
(* The start                                                               *)

(* With a configuration that is not accepted it exits at once.             *)
Launch(p) ==
    /\ Comes(p, "down")
    /\ Accepted(setup.config)
    /\ Goes(p, "open")
    /\ UNCHANGED <<database, at, workers, setup, events>>

(* createMigrationRunner looks for tables, and for the version.            *)
OpenDatabase(p) ==
    /\ Comes(p, "open")
    /\ UNCHANGED <<database, setup, events>>
    /\ \/ meta = "current" /\ Goes(p, "ledger") /\ UNCHANGED <<at, workers>>
       \/ ~ HasTables /\ Goes(p, "create") /\ UNCHANGED <<at, workers>>
       \/ HasTables /\ meta # "current" /\ Exits(p, "down")

(* CREATE TABLE schema_metadata                                            *)
CreateMetadata(p) ==
    /\ Comes(p, "create")
    /\ UNCHANGED <<ledger, applied, schema, setup, events>>
    /\ IF meta = "absent"
         THEN meta' = "blank" /\ Goes(p, "version") /\ UNCHANGED <<at, workers>>
         ELSE Exits(p, "down") /\ UNCHANGED meta

(* INSERT INTO schema_metadata                                             *)
InsertVersion(p) ==
    /\ Comes(p, "version")
    /\ meta' = "current"
    /\ Goes(p, "ledger")
    /\ UNCHANGED <<ledger, applied, schema, at, workers, setup, events>>

(* CREATE TABLE IF NOT EXISTS migrations                                   *)
CreateLedger(p) ==
    /\ Comes(p, "ledger")
    /\ ledger' = TRUE
    /\ Goes(p, "select")
    /\ at' = [at EXCEPT ![p] = 1]
    /\ UNCHANGED <<meta, applied, schema, workers, setup, events>>

SelectMigration(p) ==
    /\ Comes(p, "select")
    /\ UNCHANGED <<database, workers, setup, events>>
    /\ \/ at[p] > Newest /\ Goes(p, "custody") /\ UNCHANGED at
       \/ at[p] \in applied /\ at' = [at EXCEPT ![p] = @ + 1] /\ UNCHANGED pc
       \/ at[p] \in 1..Newest \ applied /\ Goes(p, "apply") /\ UNCHANGED at

(* Regression: the migration and its row are not one transaction.          *)
ApplyThenRecord(p) ==
    /\ Comes(p, "apply")
    /\ UNCHANGED <<meta, ledger, setup, refusals, stops>>
    /\ LET next == Migrated(schema, at[p]) IN
       IF at[p] \notin applied /\ next.ok
         THEN /\ schema' = next
              /\ \/ /\ applied' = applied \cup {at[p]}
                    /\ at' = [at EXCEPT ![p] = @ + 1]
                    /\ Goes(p, "select")
                    /\ UNCHANGED <<workers, crashes>>
                 \/ /\ crashes < setup.crashes /\ crashes' = crashes + 1
                    /\ Exits(p, "down")
                    /\ UNCHANGED applied
         ELSE Exits(p, "down") /\ UNCHANGED <<schema, applied, crashes>>

(* The migration and its row, or nothing: when a statement is refused, or  *)
(* when another process has recorded it since.                             *)
ApplyMigration(p) ==
    /\ Comes(p, "apply")
    /\ UNCHANGED <<meta, ledger, setup, events>>
    /\ LET next == Migrated(schema, at[p]) IN
       IF at[p] \notin applied /\ next.ok
         THEN /\ schema' = next
              /\ applied' = applied \cup {at[p]}
              /\ at' = [at EXCEPT ![p] = @ + 1]
              /\ Goes(p, "select")
              /\ UNCHANGED workers
         ELSE Exits(p, "down") /\ UNCHANGED <<schema, applied>>

(* The probe of the node never ends a start; a wallet that is not ready    *)
(* does.                                                                   *)
OpenCustody(p) ==
    /\ Comes(p, "custody")
    /\ UNCHANGED <<database, setup, crashes, stops>>
    /\ \/ Goes(p, "run") /\ UNCHANGED <<at, workers, refusals>>
       \/ /\ setup.config.custody = "ows"
          /\ refusals < setup.refusals /\ refusals' = refusals + 1
          /\ Exits(p, "down")

(* The watcher, the synchronisation and the workers start before the       *)
(* process listens.                                                        *)
StartRuntime(p) ==
    /\ Comes(p, "run")
    /\ workers' = [workers EXCEPT ![p] = Workers(setup.config)]
    /\ Goes(p, "listen")
    /\ UNCHANGED <<database, at, setup, events>>

PortIsFree == \A q \in Process : pc[q] # "serving"

(* EADDRINUSE ends it.                                                     *)
Listen(p) ==
    /\ Comes(p, "listen")
    /\ UNCHANGED <<database, setup, events>>
    /\ IF PortIsFree
         THEN Goes(p, "serving") /\ UNCHANGED <<at, workers>>
         ELSE Exits(p, "down")

-------------------------------------------------------------------------------
(* The end                                                                 *)

(* SIGTERM: shutdown when the process has got that far.                    *)
Signal(p) ==
    /\ stops < setup.stops /\ stops' = stops + 1
    /\ p \in setup.processes /\ pc[p] \notin {"down", "closing", "stopped"}
    /\ Exits(p, IF pc[p] = "serving" THEN "closing" ELSE "stopped")
    /\ UNCHANGED <<database, setup, crashes, refusals>>

(* server.close has called back.                                           *)
ServerClosed(p) ==
    /\ Comes(p, "closing")
    /\ Goes(p, "stopped")
    /\ UNCHANGED <<database, at, workers, setup, events>>

(* The operator starts it again.                                           *)
StartAgain(p) ==
    /\ Comes(p, "stopped")
    /\ Goes(p, "down")
    /\ UNCHANGED <<database, at, workers, setup, events>>

Crash(p) ==
    /\ crashes < setup.crashes /\ crashes' = crashes + 1
    /\ p \in setup.processes /\ pc[p] \notin {"down", "stopped"}
    /\ Exits(p, "down")
    /\ UNCHANGED <<database, setup, refusals, stops>>

Migrating(p) ==
    \/ OpenDatabase(p) \/ CreateMetadata(p) \/ InsertVersion(p)
    \/ CreateLedger(p) \/ SelectMigration(p) \/ ApplyMigration(p)

Starting(p) == Launch(p) \/ Migrating(p) \/ OpenCustody(p) \/ Listen(p)

-------------------------------------------------------------------------------
(* Properties                                                              *)

DaemonTypeOK ==
    /\ setup \in Setup
    /\ meta \in {"absent", "blank", "current", "other"} /\ ledger \in BOOLEAN
    /\ applied \subseteq 1..Newest
    /\ pc \in [Process -> {"down", "open", "create", "version", "ledger", "select", "apply",
                           "custody", "run", "listen", "serving", "closing", "stopped"}]
    /\ at \in [Process -> 0..Newest + 1]
    /\ workers \in [Process -> SUBSET Workers(setup.config)]

Same(s, t) == s.ok /\ s.refs = t.refs /\ s.index = t.index /\ s.columns = t.columns

KeepsRows(s, t) == \A u \in Tables(t) : u \in Tables(s) /\ u \in s.rows[u]

(* What the migrations make of a database that has the first l, up to the  *)
(* k-th.                                                                   *)
Grown(l, filled, k) ==
    FoldLeft(Migrated, Base(l, filled), [n \in 1..(k - l) |-> l + n])

(* The nineteen migrations, whichever release made the database: unless one *)
(* is refused, each makes the schema that it makes of a new database, and   *)
(* the rows are kept.                                                       *)
ASSUME MigrationsGrow ==
    \A l \in 0..Newest, filled \in BOOLEAN :
        /\ Grown(l, filled, l) = Base(l, filled) /\ Base(l, filled).ok
        /\ \A k \in l..Newest :
            LET s == Grown(l, filled, k) IN
            /\ k < Newest => Grown(l, filled, k + 1) = Migrated(s, k + 1)
            /\ s.ok => Same(s, At(k)) /\ (filled => KeepsRows(s, At(l)))

(* Whatever processes start, die or race over one file: the migrations     *)
(* recorded are the first ones, the schema is what they make of a new      *)
(* database, the rows that were there are, and who serves has the newest.  *)
MigrationsAreTrue ==
    /\ applied = 1..Cardinality(applied)
    /\ Same(schema, At(Cardinality(applied)))
    /\ setup.filled => KeepsRows(schema, At(setup.level))
    /\ \A p \in Process :
        pc[p] \in {"custody", "run", "listen", "serving"} => applied = 1..Newest

(* The process that has created schema_metadata died before it wrote the   *)
(* version: "Unsupported RaiFlow schema version: missing" from then on.    *)
HalfMade == meta = "blank" /\ \A p \in Process : pc[p] # "version"

(* A database with rows that is as old as the first migration cannot drop  *)
(* its invoices, which its payments reference.                             *)
Upgradable ==
    /\ Accepted(setup.config)
    /\ setup.meta # "other" /\ (setup.meta = "current" <=> setup.level > 0)
    /\ ~ (setup.filled /\ setup.level = 1)

Stopped == \A p \in setup.processes : pc[p] = "stopped"

(* Crashes, a wallet that is not ready, and a second process in the way of *)
(* the migrations or of the port only delay it: in the end the API is      *)
(* served, and the workers run, unless the operator has stopped it.        *)
Serves(p) == pc[p] = "serving" /\ workers[p] = Workers(setup.config)

ServesInTheEnd ==
    Upgradable => <>[](Stopped \/ HalfMade \/ \E p \in setup.processes : Serves(p))
===============================================================================
