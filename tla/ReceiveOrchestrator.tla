------------------------- MODULE ReceiveOrchestrator -------------------------
(***************************************************************************)
(* The durable receive pipeline:                                           *)
(* packages/runtime/src/receive-orchestrator.ts over the receive tasks and *)
(* saved receive blocks of packages/storage/src/index.ts, the account      *)
(* operation lease, the recovery pass of packages/runtime/src/runtime.ts   *)
(* and the Nano network.                                                   *)
(*                                                                         *)
(* A task is the receiving of one confirmed send, and is named by it:      *)
(* pending_block_hash is unique.  As in SendOrchestrator an instance is a  *)
(* runtime process, a step is what happens between two awaits, and a lease *)
(* may run out whenever its holder stalls.  A process that is started      *)
(* again may have another minimum amount in its configuration.             *)
(***************************************************************************)
EXTENDS NanoLedger, FiniteSets

CONSTANTS
    Instance,    \* runtime processes
    Account,
    Task,        \* confirmed sends to the accounts
    Owner,       \* [Task -> Account]
    Amount,      \* [Task -> Nat \ {0}]
    Minimum,     \* the minimum amounts a process may be configured with
    RetryLimit,  \* failed attempts that end a task
    None,
    Setup        \* the set-ups a behaviour may start in, see SetupType

(* The processes that run; the sends that arrive; whether statements on    *)
(* the database may fail; the bound on crashes, stalls, refused or timed   *)
(* out calls and insufficient work; and the bound on the blocks that the   *)
(* send pipeline publishes meanwhile.                                      *)
SetupType == [crew : SUBSET Instance \ {{}}, arriving : SUBSET Task,
              diskFails : BOOLEAN, maxFaults : Nat, maxSends : Nat]

ASSUME ReceiveAssumption ==
    /\ Owner \in [Task -> Account]
    /\ Amount \in [Task -> Nat \ {0}]
    /\ Minimum \subseteq Nat /\ Minimum # {}
    /\ RetryLimit \in Nat \ {0}
    /\ None \notin Instance /\ None \notin Task
    /\ IsFiniteSet(Instance) /\ IsFiniteSet(Task)
    /\ Setup \subseteq SetupType

VARIABLES
    \* the database
    created,   \* [Task -> Nat]: created_at, in order; 0 without a row
    status,    \* [Task -> TaskStatus]
    retries,   \* [Task -> Nat]: retry_count
    hash,      \* [Task -> block]: receive_block_hash
    intent,    \* [Task -> [block, work]]: receive_block_intents
    stored,    \* the tasks whose send has a deposits row
    lease,     \* [Account -> the instance whose lease is current, or None]
    events,    \* the persisted events, as <<type, task>>
    \* the network
    chain,     \* [Account -> the account's chain]
    wire,      \* requests that timed out and that a node may still handle
    \* each instance
    minimum,   \* [Instance -> the configured minimum]
    pc,        \* where processNext stands
    todo,      \* what its snapshot still lists
    known,     \* [Instance -> [Task -> Nat]]: the retry counts it lists
    current,   \* the task it works on
    draft,     \* the block it signed or loaded
    again,     \* whether the work was generated a second time
    broadcast, \* broadcastStarted
    \* the set-up, which never changes, and what it bounds
    setup, faults, sends

rows     == <<created, status, retries, hash, intent, stored>>
database == <<rows, lease, events>>
network  == <<chain, wire>>
attempt  == <<current, draft, again, broadcast>>
local    == <<pc, todo, known, attempt>>
bounds   == <<faults, sends>>
vars     == <<database, network, minimum, local, setup, bounds>>

crew  == setup.crew
fixed == <<minimum, setup>>

-------------------------------------------------------------------------------
TaskStatus == {"absent", "pending", "processing", "published", "confirmed", "failed"}
EventType  == {"receive.published", "receive.confirmed", "receive.failed"}
Work       == {"valid", "low"}

(* The steps that follow an assertCurrent().                               *)
AfterCheck ==
    [acquired |-> "mark",       drafted  |-> "create",  ready  |-> "process",
     reworked |-> "updateWork", accepted |-> "publish", caught |-> "requeue"]

(* Where an exception leads to the catch block of processTaskUnderLease:   *)
(* calls to a node or for work, and statements on the database.            *)
Calls      == {"prepare", "process", "rework"}
Statements == {"load", "create", "updateWork", "publish", "emitPublished"}
PC == {"idle", "next", "requeue", "emitFailed", "release", "mark"}
      \cup Calls \cup Statements \cup DOMAIN AfterCheck

Receipt(t) == ReceiveOp(t, Amount[t])
NoBlock    == [block |-> << >>, work |-> "valid"]
Signed(b)  == b.block # << >>
Home(i)    == Owner[current[i]]
Holds(i)   == lease[Home(i)] = i
Received(t) == Signed(intent[t]) /\ OnChain(intent[t].block, chain[Owner[t]])

Init ==
    /\ created = [t \in Task |-> 0]
    /\ status = [t \in Task |-> "absent"]
    /\ retries = [t \in Task |-> 0]
    /\ hash = [t \in Task |-> << >>]
    /\ intent = [t \in Task |-> NoBlock]
    /\ stored = {}
    /\ lease = [a \in Account |-> None]
    /\ events = {}
    /\ chain = [a \in Account |-> << >>] /\ wire = {}
    /\ minimum \in {[i \in Instance |-> m] : m \in Minimum}
    /\ pc = [i \in Instance |-> "idle"]
    /\ todo = [i \in Instance |-> {}]
    /\ known = [i \in Instance |-> [t \in Task |-> 0]]
    /\ current = [i \in Instance |-> None]
    /\ draft = [i \in Instance |-> NoBlock]
    /\ again = [i \in Instance |-> FALSE]
    /\ broadcast = [i \in Instance |-> FALSE]
    /\ setup \in Setup /\ faults = 0 /\ sends = 0

Goto(i, state) == pc' = [pc EXCEPT ![i] = state]
Fault == faults < setup.maxFaults /\ faults' = faults + 1 /\ UNCHANGED sends

-------------------------------------------------------------------------------
(* Where tasks come from.                                                  *)

NewTask(t) ==
    /\ status' = [status EXCEPT ![t] = "pending"]
    /\ created' = [created EXCEPT ![t] =
                        1 + Cardinality({u \in Task : created[u] > 0})]

(* enqueueReceivables lists what an account can receive when the account   *)
(* or an invoice is created; a task that exists is left alone.             *)
Enqueue(i, t) ==
    /\ i \in crew /\ t \in setup.arriving
    /\ status[t] = "absent" /\ Amount[t] >= minimum[i]
    /\ NewTask(t)
    /\ UNCHANGED <<retries, hash, intent, stored, lease, events, network,
                   fixed, local, bounds>>

(* The transaction of a watched send stores the deposit and its task.      *)
IngestSend(i, t) ==
    /\ Amount[t] >= minimum[i]
    /\ stored' = stored \cup {t}
    /\ IF status[t] = "absent" THEN NewTask(t) ELSE UNCHANGED <<status, created>>

WatchedSend(i, t) ==
    /\ i \in crew /\ t \in setup.arriving \ stored
    /\ IngestSend(i, t)
    /\ UNCHANGED <<retries, hash, intent, lease, events, network, fixed,
                   local, bounds>>

-------------------------------------------------------------------------------
(* processNext                                                             *)

Listed == {t \in Task : status[t] \in {"pending", "processing"}}

Begin(i) ==
    /\ i \in crew /\ pc[i] = "idle"
    /\ todo' = [todo EXCEPT ![i] = Listed]
    /\ known' = [known EXCEPT ![i] = retries]
    /\ Goto(i, "next")
    /\ UNCHANGED <<database, network, fixed, attempt, bounds>>

Forget(i) == known' = [known EXCEPT ![i] = [t \in Task |-> 0]]

End(i) ==
    /\ pc[i] = "next" /\ todo[i] = {}
    /\ Goto(i, "idle") /\ Forget(i)
    /\ UNCHANGED <<database, network, fixed, todo, attempt, bounds>>

Oldest(i, t) == t \in todo[i] /\ \A u \in todo[i] : created[t] <= created[u]

(* Regression: an amount below the minimum is passed over in any case.     *)
TooSmallWhateverSaved(i, t) == Amount[t] < minimum[i]

(* "A saved signed block may already have reached the network": it is      *)
(* finished even if the minimum has been raised.                           *)
TooSmall(i, t) == Amount[t] < minimum[i] /\ ~ Signed(intent[t])

(* A task that is too small, or whose account another operation holds, is  *)
(* passed over.                                                            *)
PassOver(i) ==
    /\ pc[i] = "next"
    /\ \E t \in todo[i] :
        /\ Oldest(i, t)
        /\ TooSmall(i, t) \/ lease[Owner[t]] # None
        /\ todo' = [todo EXCEPT ![i] = @ \ {t}]
    /\ UNCHANGED <<database, network, fixed, pc, known, attempt, bounds>>

Acquire(i) ==
    /\ pc[i] = "next"
    /\ \E t \in todo[i] :
        /\ Oldest(i, t)
        /\ ~ TooSmall(i, t) /\ lease[Owner[t]] = None
        /\ lease' = [lease EXCEPT ![Owner[t]] = i]
        /\ current' = [current EXCEPT ![i] = t]
    /\ Goto(i, "acquired")
    /\ UNCHANGED <<rows, events, network, fixed, todo, known, draft, again,
                   broadcast, bounds>>

(* A lost lease is thrown through everything.                              *)
AssertCurrent(i) ==
    /\ pc[i] \in DOMAIN AfterCheck
    /\ Goto(i, IF Holds(i) THEN AfterCheck[pc[i]] ELSE "release")
    /\ UNCHANGED <<database, network, fixed, todo, known, attempt, bounds>>

(* The status is written whatever it has become since the snapshot.        *)
MarkProcessing(i) ==
    /\ pc[i] = "mark"
    /\ status' = [status EXCEPT ![current[i]] = "processing"]
    /\ Goto(i, "load")
    /\ UNCHANGED <<created, retries, hash, intent, stored, lease, events,
                   network, fixed, todo, known, attempt, bounds>>

Reset(i) ==
    /\ todo' = [todo EXCEPT ![i] = {}] /\ Forget(i)
    /\ current' = [current EXCEPT ![i] = None]
    /\ draft' = [draft EXCEPT ![i] = NoBlock]
    /\ again' = [again EXCEPT ![i] = FALSE]
    /\ broadcast' = [broadcast EXCEPT ![i] = FALSE]
    /\ Goto(i, "idle")

(* One task is worked on per call.                                         *)
Release(i) ==
    /\ pc[i] = "release"
    /\ lease' = IF Holds(i) THEN [lease EXCEPT ![Home(i)] = None] ELSE lease
    /\ Reset(i)
    /\ UNCHANGED <<rows, events, network, fixed, bounds>>

(* A lease runs out under a holder that stalls, or after it is gone.       *)
HeldBy(a, i) == lease[a] = i /\ pc[i] \notin {"idle", "next"} /\ Home(i) = a

Expire(a) ==
    /\ lease' = [lease EXCEPT ![a] = None]
    /\ UNCHANGED <<rows, events, network, fixed, local>>

LeaseOutlivesStall(a) ==
    /\ \E i \in Instance : HeldBy(a, i)
    /\ Fault
    /\ Expire(a)

LeaseOfTheDeadExpires(a) ==
    /\ lease[a] # None
    /\ ~ \E i \in Instance : HeldBy(a, i)
    /\ Expire(a)
    /\ UNCHANGED bounds

-------------------------------------------------------------------------------
(* processTaskUnderLease                                                   *)

Load(i) ==
    /\ pc[i] = "load"
    /\ LET saved == intent[current[i]]
       IN  /\ draft' = [draft EXCEPT ![i] = saved]
           /\ Goto(i, IF Signed(saved) THEN "ready" ELSE "prepare")
    /\ UNCHANGED <<database, network, fixed, todo, known, current, again,
                   broadcast, bounds>>

GenerateWork(w) ==
    \/ w = "valid" /\ UNCHANGED bounds
    \/ w = "low" /\ Fault

(* account_info gives the frontier, or nothing for an unopened account.    *)
Prepare(i) ==
    /\ pc[i] = "prepare"
    /\ \E w \in Work :
        /\ GenerateWork(w)
        /\ draft' = [draft EXCEPT ![i] =
                [block |-> Append(chain[Home(i)], Receipt(current[i])), work |-> w]]
    /\ Goto(i, "drafted")
    /\ UNCHANGED <<database, network, fixed, todo, known, current, again, broadcast>>

(* Regression: an upsert, the last block wins.                             *)
KeepLast(saved, new) == new

KeepFirst(saved, new) == IF Signed(saved) THEN saved ELSE new

CreateIntent(i) ==
    /\ pc[i] = "create"
    /\ LET t == current[i]
           kept == KeepFirst(intent[t], draft[i])
       IN  /\ intent' = [intent EXCEPT ![t] = kept]
           /\ draft' = [draft EXCEPT ![i] = kept]
    /\ Goto(i, "ready")
    /\ UNCHANGED <<created, status, retries, hash, stored, lease, events, network,
                   fixed, todo, known, current, again, broadcast, bounds>>

(* Regression: every error but a work rejection counts as an old block.    *)
TrustAnyAnswer(verdict, second) ==
    CASE verdict \in {"accepted", "old block", "fork"} -> "accepted"
      [] verdict = "work rejected" -> IF second THEN "caught" ELSE "rework"

(* An old block is an accepted one; a second rejection of the work and a   *)
(* fork are exceptions.                                                    *)
AfterProcess(verdict, second) ==
    CASE verdict \in {"accepted", "old block"} -> "accepted"
      [] verdict = "work rejected" -> IF second THEN "caught" ELSE "rework"
      [] verdict = "fork" -> "caught"

(* The catch block looks at broadcastStarted, and at whether the last      *)
(* answer was a second rejection of the work: then nothing can be on its   *)
(* way, and the flag is taken back here.                                   *)
Process(i) ==
    /\ pc[i] = "process"
    /\ LET a == Home(i)
           verdict == Verdict(draft[i].block, draft[i].work, chain[a])
       IN  /\ chain' = IF verdict = "accepted"
                       THEN [chain EXCEPT ![a] = draft[i].block] ELSE chain
           /\ Goto(i, AfterProcess(verdict, again[i]))
           /\ broadcast' = [broadcast EXCEPT ![i] =
                                ~ (verdict = "work rejected" /\ again[i])]
    /\ UNCHANGED <<database, wire, fixed, todo, known, current, draft, again, bounds>>

(* A node may handle the request later, or never.                          *)
ProcessTimesOut(i) ==
    /\ pc[i] = "process"
    /\ Fault
    /\ wire' = wire \cup {[account |-> Home(i),
                           block |-> draft[i].block, work |-> draft[i].work]}
    /\ broadcast' = [broadcast EXCEPT ![i] = TRUE]
    /\ Goto(i, "caught")
    /\ UNCHANGED <<database, chain, fixed, todo, known, current, draft, again>>

NodeHandlesLate(m) ==
    /\ m \in wire
    /\ wire' = wire \ {m}
    /\ chain' = IF Verdict(m.block, m.work, chain[m.account]) = "accepted"
                THEN [chain EXCEPT ![m.account] = m.block] ELSE chain
    /\ UNCHANGED <<database, fixed, local, bounds>>

Rework(i) ==
    /\ pc[i] = "rework"
    /\ \E w \in Work :
        /\ GenerateWork(w)
        /\ draft' = [draft EXCEPT ![i].work = w]
    /\ Goto(i, "reworked")
    /\ UNCHANGED <<database, network, fixed, todo, known, current, again, broadcast>>

UpdateWork(i) ==
    /\ pc[i] = "updateWork"
    /\ intent' = [intent EXCEPT ![current[i]].work = draft[i].work]
    /\ again' = [again EXCEPT ![i] = TRUE]
    /\ Goto(i, "ready")
    /\ UNCHANGED <<created, status, retries, hash, stored, lease, events, network,
                   fixed, todo, known, current, draft, broadcast, bounds>>

MarkPublished(i) ==
    /\ pc[i] = "publish"
    /\ status' = [status EXCEPT ![current[i]] = "published"]
    /\ hash' = [hash EXCEPT ![current[i]] = draft[i].block]
    /\ Goto(i, "emitPublished")
    /\ UNCHANGED <<created, retries, intent, stored, lease, events, network,
                   fixed, todo, known, attempt, bounds>>

EmitPublished(i) ==
    /\ pc[i] = "emitPublished"
    /\ events' = events \cup {<<"receive.published", current[i]>>}
    /\ Goto(i, "release")
    /\ UNCHANGED <<rows, lease, network, fixed, todo, known, attempt, bounds>>

(* The catch block: after a broadcast the outcome is open and the task     *)
(* stays "processing"; otherwise it is tried again, by the retry count of  *)
(* the snapshot.                                                           *)
Requeue(i) ==
    /\ pc[i] = "requeue"
    /\ LET t == current[i]
           count == known[i][t] + 1
       IN  IF broadcast[i]
           THEN Goto(i, "release") /\ UNCHANGED <<retries, status>>
           ELSE /\ retries' = [retries EXCEPT ![t] = count]
                /\ status' = [status EXCEPT ![t] =
                                IF count >= RetryLimit THEN "failed" ELSE "pending"]
                /\ Goto(i, IF count >= RetryLimit THEN "emitFailed" ELSE "release")
    /\ UNCHANGED <<created, hash, intent, stored, lease, events, network,
                   fixed, todo, known, attempt, bounds>>

EmitFailed(i) ==
    /\ pc[i] = "emitFailed"
    /\ events' = events \cup {<<"receive.failed", current[i]>>}
    /\ Goto(i, "release")
    /\ UNCHANGED <<rows, lease, network, fixed, todo, known, attempt, bounds>>

-------------------------------------------------------------------------------
(* handleConfirmedReceiveBlock, and the pass of recoverReceiveConfirmations *)
(* that looks for what the watcher has missed: it runs at the start and    *)
(* every 30 s.                                                             *)

ConfirmReceive(i, t) ==
    /\ i \in crew /\ status[t] = "published"
    /\ OnChain(hash[t], chain[Owner[t]])
    /\ status' = [status EXCEPT ![t] = "confirmed"]
    /\ events' = events \cup {<<"receive.confirmed", t>>}
    /\ UNCHANGED <<created, retries, hash, intent, stored, lease, network, fixed,
                   local, bounds>>

(* Regression: only the sends of published tasks are replayed.             *)
PublishedOnly == {"published"}

Replayed == {"published", "confirmed"}

(* The send that a task has received is replayed to the ingestion.         *)
ReplaySource(i, t) ==
    /\ i \in crew /\ status[t] \in Replayed /\ t \notin stored
    /\ IngestSend(i, t)
    /\ UNCHANGED <<retries, hash, intent, lease, events, network, fixed, local,
                   bounds>>

-------------------------------------------------------------------------------
(* Failures, and the send pipeline.                                        *)

CallFails(i) ==
    /\ pc[i] \in Calls \cup (IF setup.diskFails THEN Statements ELSE {})
    /\ Fault
    /\ Goto(i, "caught")
    /\ broadcast' = [broadcast EXCEPT ![i] = @ \/ pc[i] = "process"]
    /\ UNCHANGED <<database, network, fixed, todo, known, current, draft, again>>

(* The emission of receive.failed is swallowed; an exception in the catch  *)
(* block or before the try goes to the caller and releases the lease.      *)
CatchFails(i) ==
    /\ setup.diskFails
    /\ pc[i] \in {"mark", "requeue", "emitFailed"}
    /\ Fault
    /\ Goto(i, "release")
    /\ UNCHANGED <<database, network, fixed, todo, known, attempt>>

Crash(i) ==
    /\ i \in crew
    /\ Fault
    /\ Reset(i)
    /\ \E m \in Minimum : minimum' = [minimum EXCEPT ![i] = m]
    /\ UNCHANGED <<database, network, setup>>

(* A whole turn of the send pipeline, under the same lease.                *)
PublishSend(a) ==
    /\ lease[a] = None
    /\ sends < setup.maxSends
    /\ sends' = sends + 1
    /\ chain' = [chain EXCEPT ![a] = Append(@, SendOp(None, sends))]
    /\ UNCHANGED <<database, wire, fixed, local, faults>>

-------------------------------------------------------------------------------
ProcessNext(i) ==
    \/ Begin(i) \/ End(i) \/ PassOver(i) \/ Acquire(i)
    \/ AssertCurrent(i) \/ Release(i) \/ MarkProcessing(i)
    \/ Load(i) \/ Prepare(i) \/ CreateIntent(i)
    \/ Process(i) \/ Rework(i) \/ UpdateWork(i)
    \/ MarkPublished(i) \/ EmitPublished(i)
    \/ Requeue(i) \/ EmitFailed(i)

Disturb(i) == ProcessTimesOut(i) \/ CallFails(i) \/ CatchFails(i) \/ Crash(i)

Next ==
    \/ \E i \in Instance : ProcessNext(i) \/ Disturb(i)
    \/ \E i \in Instance, t \in Task :
          \/ Enqueue(i, t) \/ WatchedSend(i, t)
          \/ ConfirmReceive(i, t) \/ ReplaySource(i, t)
    \/ \E a \in Account :
          LeaseOutlivesStall(a) \/ LeaseOfTheDeadExpires(a) \/ PublishSend(a)
    \/ \E m \in wire : NodeHandlesLate(m)

(* The worker is called every 500 ms and the recovery pass every 30 s; a   *)
(* lease nobody renews runs out.                                           *)
Fairness ==
    /\ \A i \in Instance : WF_vars(ProcessNext(i))
    /\ \A i \in Instance, t \in Task :
          WF_vars(ConfirmReceive(i, t)) /\ WF_vars(ReplaySource(i, t))
    /\ \A a \in Account : WF_vars(LeaseOfTheDeadExpires(a))

Spec == Init /\ [][Next]_vars
FairSpec == Spec /\ Fairness

-------------------------------------------------------------------------------
(* Properties                                                              *)

Op == [kind : {"send"}, link : {None}, amount : Nat]
      \cup [kind : {"receive"}, link : Task, amount : {Amount[t] : t \in Task}]
SignedBlock == [block : Seq(Op), work : Work]

TypeOK ==
    /\ created \in [Task -> Nat] /\ status \in [Task -> TaskStatus]
    /\ retries \in [Task -> Nat] /\ hash \in [Task -> Seq(Op)]
    /\ intent \in [Task -> SignedBlock] /\ stored \subseteq Task
    /\ lease \in [Account -> Instance \cup {None}]
    /\ events \subseteq EventType \X Task
    /\ chain \in [Account -> Seq(Op)]
    /\ wire \subseteq [account : Account, block : Seq(Op), work : Work]
    /\ minimum \in [Instance -> Minimum]
    /\ pc \in [Instance -> PC] /\ todo \in [Instance -> SUBSET Task]
    /\ known \in [Instance -> [Task -> Nat]]
    /\ current \in [Instance -> Task \cup {None}]
    /\ draft \in [Instance -> SignedBlock]
    /\ again \in [Instance -> BOOLEAN] /\ broadcast \in [Instance -> BOOLEAN]
    /\ setup \in Setup
    /\ faults \in 0..setup.maxFaults /\ sends \in 0..setup.maxSends

(* A task reported as published or confirmed names the block of its saved  *)
(* intent, and the network has it: whichever process reports, and however  *)
(* old its snapshot is, no open outcome is taken for a success.            *)
ReportedIsReceived ==
    \A t \in Task : status[t] \in {"published", "confirmed"} =>
        hash[t] = intent[t].block /\ Received(t)

(* A receive block is signed once, whichever processes race for its task:  *)
(* a second one would fork the account.                                    *)
SignedOnce ==
    [][\A t \in Task : Signed(intent[t]) => intent'[t].block = intent[t].block]_vars

(* One process owns the database.                                          *)
Alone == Cardinality(crew) = 1

(* A task reported as failed has received nothing: an attempt counts as    *)
(* failed only before its block is submitted, also when the process died   *)
(* after an earlier submission.  (Not so when the database fails three     *)
(* times, or when another process works from an old snapshot.)             *)
FailedReceivedNothing ==
    Alone /\ ~ setup.diskFails =>
        \A t \in Task : status[t] = "failed" => ~ Received(t)

(* What a task is reported as is what became of its money.                 *)
ReportsAreTrue == ReportedIsReceived /\ FailedReceivedNothing

(* The saved block of a task can never extend the account's chain again.   *)
Forked(t) ==
    /\ Signed(intent[t]) /\ ~ Received(t)
    /\ ~ IsPrefix(chain[Owner[t]], Front(intent[t].block))

(* Nobody may take the task: it has no saved block, and is less than the   *)
(* minimum of every process.                                               *)
Refused(t) ==
    \A i \in crew : Amount[t] < minimum[i] /\ ~ Signed(intent[t])

(* Every task settles, unless the block of one has lost its place on its   *)
(* account's chain.  (Such a task stays "processing", is always the first  *)
(* to be resumed and holds back the tasks of all accounts that are younger *)
(* than it.)  In particular a saved block is finished when the minimum has *)
(* been raised meanwhile.                                                  *)
TasksSettle ==
    \A t \in Task :
        status[t] = "pending" ~>
            \/ status[t] \in {"confirmed", "failed"}
            \/ Refused(t)
            \/ ~ Alone
            \/ \E u \in Task : Forked(u)

(* What is received is stored in the end, also if the watcher never told   *)
(* of the send: the recovery pass replays it (runtime.ts).                 *)
ReceivedIsStored ==
    \A t \in Task :
        status[t] = "published" ~>
            \/ t \in stored
            \/ \A i \in crew : Amount[t] < minimum[i]
            \/ ~ Alone
            \/ \E u \in Task : Forked(u)
===============================================================================
