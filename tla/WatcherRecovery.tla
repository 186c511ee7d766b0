--------------------------- MODULE WatcherRecovery ---------------------------
(***************************************************************************)
(* The watcher of packages/watcher/src: a WebSocket subscription, a poller *)
(* of receivable blocks and a recovery from account histories all hand     *)
(* confirmed sends to handleConfirmedBlock of the runtime (DepositIngest), *)
(* here for one watched account and one process.                           *)
(*                                                                         *)
(* A block is delivered by several sources at once.  The sink ingests it   *)
(* for the first caller; to the others it returns at once, as if it had    *)
(* ingested the block.  A step is what happens between two awaits.         *)
(***************************************************************************)
EXTENDS Null, Integers, Sequences, FiniteSetsExt

CONSTANTS
    SendBlock,  \* sends to the account, of at least the minimum: their hashes
    Pass,       \* passes over the history that may run at once
    Setup       \* the configurations and environments considered

ASSUME WatcherAssumption ==
    /\ SendBlock \subseteq Nat \ {0}
    /\ IsFiniteSet(SendBlock)
    /\ Setup \subseteq
        [sends : SUBSET SendBlock, \* the sends that are made
         passes : SUBSET Pass,    \* the passes that run
         custodial : BOOLEAN,     \* only RaiFlow receives sends to the account
         hasSocket : BOOLEAN,     \* a WebSocket URL is configured
         late : BOOLEAN,          \* the account is added while the watcher runs
         maxChanges : Nat,        \* bound on changes of the watch list
         pageSize : Nat,          \* receivable blocks that a node lists, in the
                                  \* order of hashes; 0: it never answers
         batchSize : Nat \ {0, 1},   \* historyBatchSize
         maxOutages : Nat,        \* bound on failures of the network and nodes
         maxFaults : Nat]         \* bound on failing ingestions and crashes
    /\ None \notin SendBlock /\ None \notin Pass /\ None \notin {"socket", "poller"}
    /\ Pass \cap {"socket", "poller"} = {}

VARIABLES
    \* the network
    cemented,   \* the cemented sends
    history,    \* the receive blocks of the account, by what they receive
    \* the database
    stored,     \* the blocks with a deposits row
    cursor,     \* the last reconciled block of the history, 0 if none
    \* the sink
    ingesting,  \* [SendBlock -> who called, or None]: processingConfirmedBlocks
    processed,  \* processedConfirmedBlocks
    \* the sources
    running,    \* started and not stopped
    watched,    \* the account is in the lists of the watcher and its sources
    socket,     \* SocketState
    requests,   \* subscriptions sent to the node: do they name the account?
    filter,     \* the subscription in force at the node names the account
    wire,       \* what the node has sent: blocks, and Ack for a subscription
    acknowledged, \* subscriptionAcknowledged
    page,       \* the hashes the poller has still to look at
    asked,      \* the block whose ingestion the poller awaits, or None
    seen,       \* seenHashes
    pass,       \* [Pass -> PassState]
    \* what the properties speak of, which no code keeps
    relied,     \* blocks that the poller or a pass has left to an ingestion of
                \* another caller that is under way
    misled,     \* blocks so left whose ingestion has failed, or died
    skipped,    \* what a pass has left out by taking a recent stretch
    \* bounds
    outages, sinkFaults, changes,
    \* the configuration and the environment, which do not change
    setup

network     == <<cemented, history>>
database    == <<stored, cursor>>
sink        == <<ingesting, processed>>
session     == <<requests, filter, wire, acknowledged>>
listening   == <<running, watched, socket, session>>
poller      == <<page, asked, seen>>
watchBounds == <<outages, sinkFaults, changes, setup>>
past        == <<relied, misled, skipped>>
watchvars   == <<network, database, sink, listening, poller, pass, past, watchBounds>>

Caller      == {"socket", "poller"} \cup Pass
SocketState == {"absent", "connecting", "open", "waiting", "given up"}
Ack         == 0

(* A pass reads the cursor, then a stretch of the history, and goes over   *)
(* it entry by entry.                                                      *)
Position == 0..Cardinality(SendBlock)
PassState ==
    [at : {"idle", "read", "deliver", "await", "advance"},
     next : 0..(Cardinality(SendBlock) + 1), last : Position]
IdlePass == [at |-> "idle", next |-> 0, last |-> 0]

WatchInit ==
    /\ cemented = {} /\ history = << >>
    /\ stored = {} /\ cursor = 0
    /\ ingesting = [b \in SendBlock |-> None] /\ processed = {}
    /\ setup \in Setup
    /\ running = TRUE /\ watched = ~setup.late
    /\ socket = IF setup.hasSocket THEN "connecting" ELSE "absent"
    /\ requests = << >> /\ filter = FALSE /\ wire = << >> /\ acknowledged = FALSE
    /\ page = {} /\ asked = None /\ seen = {}
    /\ pass = [q \in Pass |-> IdlePass]
    /\ relied = {} /\ misled = {} /\ skipped = {}
    /\ outages = 0 /\ sinkFaults = 0 /\ changes = 0

Outage ==
    /\ outages < setup.maxOutages /\ outages' = outages + 1
    /\ UNCHANGED <<sinkFaults, changes, setup>>
SinkFault ==
    /\ sinkFaults < setup.maxFaults /\ sinkFaults' = sinkFaults + 1
    /\ UNCHANGED <<outages, changes, setup>>
Change ==
    /\ changes < setup.maxChanges /\ changes' = changes + 1
    /\ UNCHANGED <<outages, sinkFaults, setup>>

Received == {history[n] : n \in DOMAIN history}

(* A send is cemented; a node whose subscription names the account tells.  *)
Cement(b) ==
    /\ b \in setup.sends \ cemented
    /\ cemented' = cemented \cup {b}
    /\ wire' = IF filter THEN Append(wire, b) ELSE wire
    /\ UNCHANGED <<history, database, sink, running, watched, socket, requests,
                   filter, acknowledged, poller, pass, past, watchBounds>>

(* Whoever holds the key of the account receives a send: the owner of a    *)
(* watched account at any time, RaiFlow when it has stored the deposit.    *)
Receive(b) ==
    /\ b \in cemented \ Received
    /\ setup.custodial => b \in stored
    /\ history' = Append(history, b)
    /\ UNCHANGED <<cemented, database, sink, listening, poller, pass, past, watchBounds>>

-------------------------------------------------------------------------------
(* handleConfirmedBlock                                                    *)

(* The sink takes the call, or returns without doing anything.             *)
Taken(b) == b \in processed \/ ingesting[b] # None
Take(b, caller) == ingesting' = [ingesting EXCEPT ![b] = caller]
Free(b) == ingesting' = [ingesting EXCEPT ![b] = None]

(* Who is told of b at once that it is ingested believes it.               *)
Believes(b) == relied' = (IF ingesting[b] = None THEN relied ELSE relied \cup {b})

(* The caller goes on when its call returns.                               *)
Resume(b) ==
    LET caller == ingesting[b] IN
    /\ IF caller = "poller"
       THEN asked' = None /\ seen' = seen \cup {b}
       ELSE UNCHANGED <<asked, seen>>
    /\ pass' = IF caller \in Pass THEN [pass EXCEPT ![caller].at = "advance"]
                                  ELSE pass
    /\ UNCHANGED page

(* Regression: the poller marks a hash whatever the ingestion said.        *)
ThrowSeen(b) ==
    LET caller == ingesting[b] IN
    /\ IF caller = "poller"
       THEN asked' = None /\ seen' = seen \cup {b}
       ELSE UNCHANGED <<asked, seen>>
    /\ pass' = IF caller \in Pass THEN [pass EXCEPT ![caller] = IdlePass] ELSE pass
    /\ UNCHANGED page

(* The caller catches an exception: the hash stays eligible, the pass ends.*)
Throw(b) ==
    LET caller == ingesting[b] IN
    /\ asked' = IF caller = "poller" THEN None ELSE asked
    /\ pass' = IF caller \in Pass THEN [pass EXCEPT ![caller] = IdlePass] ELSE pass
    /\ UNCHANGED <<page, seen>>

IngestCommits(b) ==
    /\ ingesting[b] # None
    /\ stored' = stored \cup {b}
    /\ processed' = processed \cup {b}
    /\ Free(b) /\ Resume(b)
    /\ relied' = relied \ {b}
    /\ UNCHANGED <<network, cursor, listening, misled, skipped, watchBounds>>

(* It fails before the transaction commits, or after.                      *)
IngestFails(b) ==
    /\ ingesting[b] # None
    /\ SinkFault
    /\ stored' \in {stored, stored \cup {b}}
    /\ Free(b) /\ Throw(b)
    /\ relied' = relied \ {b} /\ misled' = misled \cup (relied \cap {b})
    /\ UNCHANGED <<network, cursor, processed, listening, skipped>>

-------------------------------------------------------------------------------
(* NanoWebSocketClient                                                     *)

(* sendSubscription: only an open socket carries it.                       *)
SendSubscription(accounts) ==
    IF socket = "open"
    THEN requests' = Append(requests, accounts) /\ acknowledged' = FALSE
    ELSE UNCHANGED <<requests, acknowledged>>

NoSession ==
    requests' = << >> /\ filter' = FALSE /\ wire' = << >> /\ acknowledged' = FALSE

SocketOpens ==
    /\ socket = "connecting"
    /\ socket' = "open"
    /\ requests' = <<watched>>
    /\ UNCHANGED <<network, database, sink, running, watched, filter, wire,
                   acknowledged, poller, pass, past, watchBounds>>

(* The attempts may be limited; the default is not to.                     *)
ConnectFails ==
    /\ socket = "connecting"
    /\ Outage
    /\ socket' \in (IF running THEN {"waiting", "given up"} ELSE {"given up"})
    /\ UNCHANGED <<network, database, sink, running, watched, session, poller,
                   pass, past>>

(* What was on its way is lost.                                            *)
SocketCloses ==
    /\ socket = "open"
    /\ Outage
    /\ socket' = (IF running THEN "waiting" ELSE "given up") /\ NoSession
    /\ UNCHANGED <<network, database, sink, running, watched, poller, pass, past>>

Reconnects ==
    /\ socket = "waiting"
    /\ socket' = "connecting"
    /\ UNCHANGED <<network, database, sink, running, watched, session, poller,
                   pass, past, watchBounds>>

(* The node replaces its subscription by the next one and answers.         *)
NodeSubscribes ==
    /\ requests # << >>
    /\ filter' = Head(requests) /\ requests' = Tail(requests)
    /\ wire' = Append(wire, Ack)
    /\ UNCHANGED <<network, database, sink, running, watched, socket,
                   acknowledged, poller, pass, past, watchBounds>>

(* An answer counts if it carries the id of the last subscription sent,    *)
(* that is, if no other is outstanding.                                    *)
Outstanding == Len(requests) + Cardinality({n \in DOMAIN wire : wire[n] = Ack})

(* Regression: any acknowledgement counts.                                 *)
AnyAcknowledges ==
    /\ wire # << >> /\ Head(wire) = Ack
    /\ wire' = Tail(wire)
    /\ acknowledged' = TRUE
    /\ UNCHANGED <<network, database, sink, running, watched, socket, requests,
                   filter, poller, pass, past, watchBounds>>

SocketAcknowledged ==
    /\ wire # << >> /\ Head(wire) = Ack
    /\ wire' = Tail(wire)
    /\ acknowledged' = (acknowledged \/ Outstanding = 1)
    /\ UNCHANGED <<network, database, sink, running, watched, socket, requests,
                   filter, poller, pass, past, watchBounds>>

(* While a subscription is not acknowledged its confirmations are dropped. *)
(* Nobody looks at what a call of the socket returns.                      *)
SocketDelivers(b) ==
    /\ wire # << >> /\ Head(wire) = b
    /\ wire' = Tail(wire)
    /\ IF acknowledged /\ watched /\ ~Taken(b) THEN Take(b, "socket")
                                               ELSE UNCHANGED ingesting
    /\ UNCHANGED <<network, database, processed, running, watched, socket,
                   requests, filter, acknowledged, poller, pass, past, watchBounds>>

-------------------------------------------------------------------------------
(* The watch list: an account or invoice is created, removed, watched for  *)
(* a stream or not any more.                                               *)

WatchList(new) ==
    /\ running
    /\ watched' = new
    /\ Change
    /\ SendSubscription(new)
    /\ UNCHANGED <<network, database, sink, running, socket, filter, wire,
                   poller, pass, past>>

AddAccount    == ~watched /\ WatchList(TRUE)
RemoveAccount == watched /\ WatchList(FALSE)

(* Another account comes or goes: the subscription is sent again.          *)
OtherAccount  == socket = "open" /\ WatchList(watched)

(* stop: the timers and the socket.  A connection that is being made, and  *)
(* a pass, go on.                                                          *)
Stop ==
    /\ running /\ running' = FALSE
    /\ Change
    /\ IF socket \in {"open", "waiting"}
       THEN socket' = "given up" /\ NoSession
       ELSE UNCHANGED <<socket, session>>
    /\ page' = {} /\ asked' = None /\ seen' = {}
    /\ UNCHANGED <<network, database, sink, watched, pass, past>>

-------------------------------------------------------------------------------
(* NanoPoller                                                              *)

Receivable == cemented \ Received
Page ==
    {b \in Receivable : Cardinality({c \in Receivable : c < b}) < setup.pageSize}

PollBegins ==
    /\ page = {} /\ asked = None /\ running /\ watched
    /\ page' = Page
    /\ UNCHANGED <<network, database, sink, listening, asked, seen, pass, past,
                   watchBounds>>

PollSkips(b) ==
    /\ asked = None
    /\ b \in page /\ (b \in seen \/ ~watched)
    /\ page' = page \ {b}
    /\ UNCHANGED <<network, database, sink, listening, asked, seen, pass, past,
                   watchBounds>>

PollDelivers(b) ==
    /\ asked = None
    /\ b \in page \ seen /\ watched
    /\ page' = page \ {b}
    /\ IF Taken(b)
       THEN seen' = seen \cup {b} /\ Believes(b) /\ UNCHANGED <<asked, ingesting>>
       ELSE Take(b, "poller") /\ asked' = b /\ UNCHANGED <<seen, relied>>
    /\ UNCHANGED <<network, database, processed, listening, pass, misled, skipped,
                   watchBounds>>

(* block_info fails: the poller goes on, or gives the poll up (429).       *)
PollFails(b) ==
    /\ asked = None
    /\ b \in page
    /\ Outage
    /\ page' \in {page \ {b}, {}}
    /\ UNCHANGED <<network, database, sink, listening, asked, seen, pass, past>>

PollStep ==
    \/ PollBegins
    \/ \E b \in SendBlock : PollSkips(b) \/ PollDelivers(b)

-------------------------------------------------------------------------------
(* AccountHistoryRecovery.reconcile                                        *)

PassGoes(q, state) == pass' = [pass EXCEPT ![q].at = state]
Work(first, last) ==
    IF first > last THEN IdlePass
    ELSE [at |-> "deliver", next |-> first, last |-> last]

(* The timer, an acknowledged subscription or addAccount starts a pass; it *)
(* reads the cursor.                                                       *)
PassBegins(q) ==
    /\ q \in setup.passes /\ pass[q].at = "idle" /\ running /\ watched
    /\ cursor < Len(history)
    /\ pass' = [pass EXCEPT ![q] = [at |-> "read", next |-> cursor, last |-> 0]]
    /\ UNCHANGED <<network, database, sink, listening, poller, past, watchBounds>>

(* The answer to account_history starts with the cursor itself.            *)
ReadForward(q) ==
    /\ pass[q].at = "read" /\ pass[q].next > 0
    /\ LET head == pass[q].next
           last == Min({Len(history), head + setup.batchSize - 1})
       IN  pass' = [pass EXCEPT ![q] = Work(head + 1, last)]
    /\ UNCHANGED <<network, database, sink, listening, poller, past, watchBounds>>

(* Without a cursor, or when the node does not know it any more, a recent  *)
(* stretch is taken.                                                       *)
ReadRecent(q) ==
    /\ pass[q].at = "read"
    /\ IF pass[q].next = 0 THEN UNCHANGED watchBounds ELSE Outage
    /\ LET first == Max({1, Len(history) - setup.batchSize + 1})
       IN  /\ pass' = [pass EXCEPT ![q] = Work(first, Len(history))]
           /\ skipped' = skipped \cup {history[n] : n \in 1..(first - 1)}
    /\ UNCHANGED <<network, database, sink, listening, poller, relied, misled>>

PassDelivers(q) ==
    LET b == history[pass[q].next] IN
    /\ pass[q].at = "deliver"
    /\ IF Taken(b) THEN PassGoes(q, "advance") /\ Believes(b) /\ UNCHANGED ingesting
                   ELSE PassGoes(q, "await") /\ Take(b, q) /\ UNCHANGED relied
    /\ UNCHANGED <<network, database, processed, listening, poller, misled, skipped,
                   watchBounds>>

Advance(q) ==
    /\ pass[q].at = "advance"
    /\ cursor' = pass[q].next
    /\ pass' = [pass EXCEPT ![q] = Work(@.next + 1, @.last)]
    /\ UNCHANGED <<network, stored, sink, listening, poller, past, watchBounds>>

(* Regression: an entry whose source cannot be read is skipped.            *)
PassSkipsEntry(q) ==
    /\ pass[q].at = "deliver"
    /\ Outage
    /\ PassGoes(q, "advance")
    /\ UNCHANGED <<network, database, sink, listening, poller, past>>

(* A call to a node fails: the pass ends and leaves the cursor.            *)
PassFails(q) ==
    /\ pass[q].at \in {"read", "deliver"}
    /\ Outage
    /\ pass' = [pass EXCEPT ![q] = IdlePass]
    /\ UNCHANGED <<network, database, sink, listening, poller, past>>

Reconcile(q) ==
    \/ PassBegins(q) \/ ReadForward(q) \/ ReadRecent(q)
    \/ PassDelivers(q) \/ Advance(q)

(* The process dies and is started again: the database is what is left.    *)
WatchCrash ==
    /\ SinkFault
    /\ ingesting' = [b \in SendBlock |-> None] /\ processed' = {}
    /\ socket' = (IF setup.hasSocket THEN "connecting" ELSE "absent")
    /\ NoSession /\ running' = TRUE
    /\ page' = {} /\ asked' = None /\ seen' = {}
    /\ pass' = [q \in Pass |-> IdlePass]
    /\ relied' = {} /\ misled' = misled \cup relied
    /\ UNCHANGED <<network, database, watched, skipped>>

-------------------------------------------------------------------------------
WatchNext ==
    \/ \E b \in SendBlock :
          \/ Cement(b) \/ Receive(b) \/ SocketDelivers(b)
          \/ IngestCommits(b) \/ IngestFails(b) \/ PollFails(b)
    \/ SocketOpens \/ ConnectFails \/ SocketCloses \/ Reconnects
    \/ NodeSubscribes \/ SocketAcknowledged
    \/ AddAccount \/ RemoveAccount \/ OtherAccount \/ Stop
    \/ PollStep
    \/ \E q \in Pass : Reconcile(q) \/ PassFails(q)
    \/ WatchCrash

WatchSpec == WatchInit /\ [][WatchNext]_watchvars

(* The timers of the poller and of the recovery keep running, and a call   *)
(* that the sink has taken returns.  Nothing makes a send be cemented or   *)
(* received, a socket be opened again (the number of attempts is limited)  *)
(* or a node answer over it.                                               *)
WatchFairSpec ==
    /\ WatchSpec
    /\ WF_watchvars(PollStep)
    /\ \A b \in SendBlock : WF_watchvars(IngestCommits(b))
    /\ \A q \in Pass : WF_watchvars(Reconcile(q))

-------------------------------------------------------------------------------
(* Properties                                                              *)

WatchTypeOK ==
    /\ cemented \subseteq SendBlock
    /\ {running, watched, filter, acknowledged} \subseteq BOOLEAN
    /\ requests \in Seq(BOOLEAN) /\ wire \in Seq(cemented \cup {Ack})
    /\ history \in Seq(cemented) /\ Len(history) \in Position
    /\ stored \subseteq SendBlock /\ cursor \in Position
    /\ ingesting \in [SendBlock -> Caller \cup {None}] /\ processed \subseteq SendBlock
    /\ socket \in SocketState
    /\ page \subseteq SendBlock /\ asked \in SendBlock \cup {None}
    /\ seen \subseteq SendBlock
    /\ pass \in [Pass -> PassState]
    /\ \A q \in Pass : pass[q].last <= Len(history)
    /\ relied \subseteq SendBlock /\ misled \subseteq SendBlock /\ skipped \subseteq SendBlock
    /\ setup \in Setup
    /\ outages \in 0..setup.maxOutages /\ sinkFaults \in 0..setup.maxFaults
    /\ changes \in 0..setup.maxChanges

(* "It advances the cursor only after the sink succeeds"                   *)
(* (rfcs/0002-observe-mode.md): what is behind the cursor is never read    *)
(* again, so it is stored, or another source is storing it, which may      *)
(* still fail; or a first scan, or one that finds the cursor unknown, has  *)
(* taken a later stretch.                                                  *)
CursorIsHonest ==
    \A n \in 1..cursor :
        LET b == history[n] IN
        b \in stored \cup misled \cup skipped \/ ingesting[b] # None

(* A hash is not polled again only when it is stored, or is being stored   *)
(* ("Keep the hash eligible so the next poll retries failed ingestion",    *)
(* poller.ts), or was being stored by another source, which has failed.    *)
SeenIsHonest ==
    \A b \in seen : b \in stored \cup misled \/ ingesting[b] # None

(* While the subscription counts as acknowledged, what the node sends and   *)
(* what the watcher wants are the same: no account that was added while     *)
(* another answer was on its way is silently left out ("waits for its       *)
(* matching ack", websocket.test.ts).                                       *)
SubscriptionIsCurrent ==
    acknowledged => socket = "open" /\ filter = watched /\ requests = << >>

(* What the three sources remember is true: behind the cursor, among the    *)
(* seen hashes and after an acknowledgement there is nothing to look for,   *)
(* but what a source has believed another one to ingest.                    *)
MemoryIsHonest == CursorIsHonest /\ SeenIsHonest /\ SubscriptionIsCurrent

(* Every cemented send to a watched account is stored in the end, whichever *)
(* source is down or was not subscribed yet, as long as a node lists it     *)
(* ("If WebSocket is unavailable, RPC discovery still delivers confirmed    *)
(* sends", watcher.ts), and no source has believed another to ingest it.    *)
EveryBlockIsStored ==
    \A b \in SendBlock :
        b \in cemented /\ watched /\ running /\ setup.pageSize > 0
            ~> (b \in stored \cup misled \/ ~watched \/ ~running)

===============================================================================
