---------------------------- MODULE BlockPublication ----------------------------
(***************************************************************************)
(* Blocks that a caller has signed: publishBlock, the polling for their    *)
(* confirmation (trackBlockConfirmation) and its recovery at the start     *)
(* (recoverBlockConfirmations), all of packages/runtime/src/runtime.ts.    *)
(*                                                                         *)
(* A confirmed send goes through handleConfirmedBlock first, to which the  *)
(* watcher may hand the same block.  To who comes second it returns at     *)
(* once, as if it had ingested the block.                                  *)
(***************************************************************************)
EXTENDS Null, Naturals, Sequences, FiniteSets, Functions

CONSTANTS
    Block,
    Call,      \* calls of publishBlock
    BlockOf,   \* [Call -> Block]
    Key,       \* [Call -> Idempotency-Key, or None]
    Loop,      \* polling loops, at most as many as run at one time
    BlockSetup \* the blocks and environments considered

ASSUME CallAssumption == BlockOf \in [Call -> Block]

ASSUME BlockPublicationAssumption ==
    /\ None \notin Block /\ None \notin Loop /\ None # "another source"
    /\ BlockSetup \subseteq
        [sends : SUBSET Block,    \* block_info tells that they are sends, from
                                  \* whom, to whom and how much
         payments : SUBSET Block, \* ... of at least the minimum
         limit : Nat \ {0},       \* events of a type that the recovery lists
         maxFaults : Nat,         \* bound on failures of the node and the database
         maxCrashes : Nat]
    /\ \A s \in BlockSetup : s.payments \subseteq s.sends

VARIABLES
    ledger,     \* [Block -> "unknown", "processed" or "confirmed"]
    \* the database
    scoped,     \* [key -> the block it has published, or None]
    published,  \* the blocks of the block.published events, oldest first
    confirmed,  \* ... of block.confirmed
    failed,     \* ... of block.failed
    ingested,   \* the payments with a deposits row
    \* the calls
    pc,         \* [Call -> where it is]
    replays,    \* [Block -> the calls answered by the key]
    \* in memory
    tracked,    \* confirmingBlocks
    loop,       \* [Loop -> [at, block]]
    recovering, \* recoverBlockConfirmations is about to run
    handler,    \* [Block -> who ingests it, or None]: processingConfirmedBlocks
    handled,    \* processedConfirmedBlocks
    \* what the properties speak of, which no code keeps
    left,       \* blocks that a loop has left to an ingestion that is under way
    lost,       \* blocks so left whose ingestion has failed, or died
    forgotten,  \* published blocks that nothing looks at until the next restart
    \* bounds, and what does not change
    faults,
    crashes,
    blockSetup

events  == <<published, confirmed, failed>>
sinking == <<ingested, handler, handled, left, lost>>
memory  == <<tracked, loop, recovering>>
bounds  == <<faults, crashes, blockSetup>>
vars    == <<ledger, scoped, events, sinking, pc, replays, memory, forgotten, bounds>>

Keys   == {Key[c] : c \in Call} \ {None}
Ended  == [at |-> "ended", block |-> None]
LoopState == {Ended} \cup [at : {"poll", "ingest", "emit", "fail"}, block : Block]
Handler == Loop \cup {"another source"}

Init ==
    /\ ledger = [b \in Block |-> "unknown"]
    /\ scoped = [k \in Keys |-> None]
    /\ published = << >> /\ confirmed = << >> /\ failed = << >>
    /\ ingested = {} /\ handler = [b \in Block |-> None] /\ handled = {}
    /\ left = {} /\ lost = {} /\ forgotten = {}
    /\ pc = [c \in Call |-> "idle"]
    /\ replays = [b \in Block |-> {}]
    /\ tracked = {}
    /\ loop = [l \in Loop |-> Ended]
    /\ recovering = FALSE
    /\ faults = 0 /\ crashes = 0
    /\ blockSetup \in BlockSetup

Fault ==
    /\ faults < blockSetup.maxFaults /\ faults' = faults + 1
    /\ UNCHANGED <<crashes, blockSetup>>

Goes(c, step) == pc' = [pc EXCEPT ![c] = step]

Idle == {l \in Loop : loop[l] = Ended}

(* A block that is in confirmingBlocks is not tracked twice.  Which of the *)
(* idle loops takes it makes no difference.                                *)
Track(bs) ==
    LET new    == bs \ tracked
        starts == Injection(new, Idle)
        start  == CHOOSE f \in starts : TRUE
    IN
    /\ starts # {}
    /\ tracked' = tracked \cup bs
    /\ loop' = [l \in Loop |->
                 IF l \in Range(start)
                   THEN [at |-> "poll", block |-> AntiFunction(start)[l]]
                   ELSE loop[l]]

-------------------------------------------------------------------------------
(* publishBlock                                                            *)

(* The server listens when the recovery has read the events.               *)
LookupKey(c) ==
    /\ pc[c] = "idle" /\ ~ recovering
    /\ UNCHANGED <<ledger, scoped, events, sinking, recovering, bounds>>
    /\ IF Key[c] # None /\ scoped[Key[c]] # None
         THEN /\ Track({scoped[Key[c]]})
              /\ forgotten' = forgotten \ {scoped[Key[c]]}
              /\ replays' = [replays EXCEPT ![scoped[Key[c]]] = @ \cup {c}]
              /\ Goes(c, "answered")
         ELSE Goes(c, "process") /\ UNCHANGED <<tracked, loop, replays, forgotten>>

(* The node takes a block once; its answer can be lost.                    *)
Process(c) ==
    /\ pc[c] = "process"
    /\ UNCHANGED <<scoped, events, sinking, replays, memory, forgotten>>
    /\ \/ /\ ledger[BlockOf[c]] = "unknown"
          /\ ledger' = [ledger EXCEPT ![BlockOf[c]] = "processed"]
          /\ \/ Goes(c, "put") /\ UNCHANGED bounds
             \/ Goes(c, "refused") /\ Fault
       \/ /\ ledger[BlockOf[c]] # "unknown"
          /\ Goes(c, "refused")
          /\ UNCHANGED <<ledger, bounds>>

PutKey(c) ==
    /\ pc[c] = "put"
    /\ scoped' = [k \in Keys |->
                    IF k = Key[c] /\ scoped[k] = None THEN BlockOf[c] ELSE scoped[k]]
    /\ Goes(c, "emit")
    /\ UNCHANGED <<ledger, events, sinking, replays, memory, forgotten, bounds>>

EmitPublished(c) ==
    /\ pc[c] = "emit"
    /\ published' = Append(published, BlockOf[c])
    /\ Track({BlockOf[c]})
    /\ forgotten' = forgotten \ {BlockOf[c]}
    /\ Goes(c, "answered")
    /\ UNCHANGED <<ledger, scoped, confirmed, failed, sinking, replays, recovering, bounds>>

(* The key or the event is not stored; or the event is, without the caller *)
(* learning of it, and the block is not tracked.                           *)
CallFails(c) ==
    /\ pc[c] \in {"put", "emit"}
    /\ Fault
    /\ Goes(c, "refused")
    /\ \/ UNCHANGED <<published, forgotten>>
       \/ /\ pc[c] = "emit"
          /\ published' = Append(published, BlockOf[c])
          /\ forgotten' = forgotten \cup ({BlockOf[c]} \ tracked)
    /\ UNCHANGED <<ledger, scoped, confirmed, failed, sinking, replays, memory>>

Confirm(b) ==
    /\ ledger[b] = "processed"
    /\ ledger' = [ledger EXCEPT ![b] = "confirmed"]
    /\ UNCHANGED <<scoped, events, sinking, pc, replays, memory, forgotten, bounds>>

-------------------------------------------------------------------------------
(* handleConfirmedBlock                                                    *)

Payment(b) == b \in blockSetup.payments
BeingHandled(b) == handler[b] # None

Enter(b, who) == handler' = [handler EXCEPT ![b] = who]
Leave(b)      == handler' = [handler EXCEPT ![b] = None]

(* Dust is neither stored nor remembered.                                  *)
Commits(b) ==
    /\ Leave(b)
    /\ ingested' = IF Payment(b) THEN ingested \cup {b} ELSE ingested
    /\ handled' = IF Payment(b) THEN handled \cup {b} ELSE handled
    /\ left' = left \ {b} /\ UNCHANGED lost

(* The transaction of the deposit has been committed, or not.              *)
Breaks(b) ==
    /\ Leave(b)
    /\ ingested' \in {ingested, IF Payment(b) THEN ingested \cup {b} ELSE ingested}
    /\ left' = left \ {b} /\ lost' = lost \cup (left \cap {b})
    /\ UNCHANGED handled

(* The watcher, or recoverReceiveConfirmations, has seen the same send.    *)
OtherTakes(b) ==
    /\ b \in blockSetup.sends \ handled
    /\ ledger[b] = "confirmed" /\ ~ BeingHandled(b)
    /\ Enter(b, "another source")
    /\ UNCHANGED <<ledger, scoped, events, ingested, handled, left, lost, pc, replays,
                   memory, forgotten, bounds>>

OtherIngests(b) ==
    /\ handler[b] = "another source"
    /\ Commits(b)
    /\ UNCHANGED <<ledger, scoped, events, pc, replays, memory, forgotten, bounds>>

OtherFails(b) ==
    /\ handler[b] = "another source"
    /\ Fault
    /\ Breaks(b)
    /\ UNCHANGED <<ledger, scoped, events, pc, replays, memory, forgotten>>

-------------------------------------------------------------------------------
(* trackBlockConfirmation                                                  *)

Looping(l, at) ==
    /\ loop[l].at = at
    /\ UNCHANGED <<ledger, scoped, published, pc, replays, recovering, crashes, blockSetup>>

Goto(l, at) == loop' = [loop EXCEPT ![l].at = at]

End(l) == loop' = [loop EXCEPT ![l] = Ended]

IsConfirmed(b) == ledger[b] = "confirmed"

(* A loop whose block is no longer in confirmingBlocks ends.               *)
PollEnds(l) ==
    /\ Looping(l, "poll")
    /\ loop[l].block \notin tracked
    /\ End(l)
    /\ UNCHANGED <<confirmed, failed, sinking, tracked, forgotten, faults>>

(* confirmingBlocks forgets the block before it is ingested.  What is not  *)
(* a send, or has been ingested, or is being ingested for another caller,  *)
(* is announced without more ado.                                          *)
Poll(l) ==
    LET b == loop[l].block IN
    /\ Looping(l, "poll")
    /\ b \in tracked /\ IsConfirmed(b)
    /\ tracked' = tracked \ {b}
    /\ IF b \in blockSetup.sends \ handled /\ ~ BeingHandled(b)
       THEN Enter(b, l) /\ Goto(l, "ingest") /\ UNCHANGED left
       ELSE /\ Goto(l, "emit")
            /\ left' = left \cup {c \in {b} : BeingHandled(c)}
            /\ UNCHANGED handler
    /\ UNCHANGED <<confirmed, failed, ingested, handled, lost, forgotten, faults>>

(* The deadline passes; without an answer also for a confirmed block.      *)
GiveUp(l) ==
    /\ Looping(l, "poll")
    /\ loop[l].block \in tracked
    /\ tracked' = tracked \ {loop[l].block}
    /\ Goto(l, "fail")
    /\ \/ ledger[loop[l].block] # "confirmed" /\ UNCHANGED faults
       \/ Fault
    /\ UNCHANGED <<confirmed, failed, sinking, forgotten>>

Ingest(l) ==
    /\ Looping(l, "ingest")
    /\ Commits(loop[l].block)
    /\ Goto(l, "emit")
    /\ UNCHANGED <<confirmed, failed, tracked, forgotten, faults>>

(* Regression: a failed ingestion is passed over.                          *)
GoOn == {"emit"}

(* The exception is caught: before the deadline the loop is scheduled once *)
(* more, and ends there as its block is no longer tracked.                 *)
AfterFailure == {"poll", "fail"}

Excepted(l) ==
    \E at \in AfterFailure :
        /\ Goto(l, at)
        /\ forgotten' = IF at = "poll" THEN forgotten \cup ({loop[l].block} \ tracked)
                                       ELSE forgotten

IngestBreaks(l) ==
    /\ Looping(l, "ingest")
    /\ Fault
    /\ Breaks(loop[l].block)
    /\ Excepted(l)
    /\ UNCHANGED <<confirmed, failed, tracked>>

EmitBreaks(l) ==
    /\ Looping(l, "emit")
    /\ Fault
    /\ confirmed' \in {confirmed, Append(confirmed, loop[l].block)}
    /\ Excepted(l)
    /\ UNCHANGED <<failed, sinking, tracked>>

EmitConfirmed(l) ==
    /\ Looping(l, "emit")
    /\ confirmed' = Append(confirmed, loop[l].block)
    /\ End(l)
    /\ UNCHANGED <<failed, sinking, tracked, forgotten, faults>>

(* Nothing catches it when this event cannot be stored: the process dies.  *)
EmitFailed(l) ==
    /\ Looping(l, "fail")
    /\ failed' = Append(failed, loop[l].block)
    /\ End(l)
    /\ UNCHANGED <<confirmed, sinking, tracked, forgotten, faults>>

-------------------------------------------------------------------------------
(* Restart                                                                 *)

(* The events of one type are listed oldest first, up to a limit.          *)
Listed(log) == {log[n] : n \in {n \in DOMAIN log : n <= blockSetup.limit}}

(* Regressions: terminal events are not looked at; or nothing is recovered. *)
AllPublished == Listed(published)
NothingToRecover == {}

Unfinished == Listed(published) \ (Listed(confirmed) \cup Listed(failed))

(* What the list of published blocks has no room for is not looked at.     *)
Recover ==
    /\ recovering
    /\ recovering' = FALSE
    /\ Track(Unfinished)
    /\ forgotten' = Range(published) \ Listed(published)
    /\ UNCHANGED <<ledger, scoped, events, sinking, pc, replays, bounds>>

(* The events cannot be listed; it is not tried again.                     *)
RecoverFails ==
    /\ recovering
    /\ Fault
    /\ recovering' = FALSE
    /\ forgotten' = Range(published)
    /\ UNCHANGED <<ledger, scoped, events, sinking, pc, replays, tracked, loop>>

Crash ==
    /\ crashes < blockSetup.maxCrashes
    /\ crashes' = crashes + 1
    /\ pc' = [c \in Call |-> IF pc[c] = "idle" THEN "idle"
                             ELSE IF pc[c] = "answered" THEN "answered" ELSE "refused"]
    /\ tracked' = {}
    /\ loop' = [l \in Loop |-> Ended]
    /\ handler' = [b \in Block |-> None] /\ handled' = {}
    /\ left' = {} /\ lost' = lost \cup left
    /\ recovering' = TRUE
    /\ UNCHANGED <<ledger, scoped, events, ingested, replays, forgotten, faults, blockSetup>>

-------------------------------------------------------------------------------
Publish(c) == LookupKey(c) \/ Process(c) \/ PutKey(c) \/ EmitPublished(c)
Other(b)   == OtherTakes(b) \/ OtherIngests(b) \/ OtherFails(b)
Step(l)    == PollEnds(l) \/ Poll(l) \/ GiveUp(l) \/ Ingest(l) \/ EmitConfirmed(l) \/ EmitFailed(l)
Break(l)   == IngestBreaks(l) \/ EmitBreaks(l)

Next ==
    \/ \E c \in Call : Publish(c) \/ CallFails(c)
    \/ \E b \in Block : Confirm(b) \/ Other(b)
    \/ \E l \in Loop : Step(l) \/ Break(l)
    \/ Recover \/ RecoverFails \/ Crash

Spec == Init /\ [][Next]_vars

(* Polls follow each other up to the deadline.                             *)
FairSpec ==
    /\ Spec
    /\ \A l \in Loop : WF_vars(Step(l))
    /\ WF_vars(Recover)

-------------------------------------------------------------------------------
(* Properties                                                              *)

TypeOK ==
    /\ ledger \in [Block -> {"unknown", "processed", "confirmed"}]
    /\ scoped \in [Keys -> Block \cup {None}]
    /\ published \in Seq(Block) /\ confirmed \in Seq(Block) /\ failed \in Seq(Block)
    /\ ingested \subseteq Block /\ handled \subseteq Block
    /\ handler \in [Block -> Handler \cup {None}]
    /\ left \subseteq Block /\ lost \subseteq Block /\ forgotten \subseteq Block
    /\ pc \in [Call -> {"idle", "process", "put", "emit", "answered", "refused"}]
    /\ replays \in [Block -> SUBSET Call]
    /\ tracked \subseteq Block
    /\ loop \in [Loop -> LoopState]
    /\ recovering \in BOOLEAN
    /\ faults \in 0..blockSetup.maxFaults /\ crashes \in 0..blockSetup.maxCrashes
    /\ blockSetup \in BlockSetup

(* How often a block was announced as confirmed.                           *)
Times(b) == Cardinality({n \in DOMAIN confirmed : confirmed[n] = b})

Settled(b) == b \in Range(confirmed) \cup Range(failed)

(* Nothing is ingested or announced as confirmed that the network has not  *)
(* confirmed.                                                              *)
ConfirmedIsFinal ==
    \A b \in Range(confirmed) \cup ingested : ledger[b] = "confirmed"

(* A payment has its deposit stored before block.confirmed says so, also   *)
(* after a failed ingestion ("so invoices complete immediately",           *)
(* packages/runtime/src/runtime.ts).  The exception is a payment that the  *)
(* loop found being ingested for another caller: it is still being         *)
(* ingested, or that ingestion has failed or died (lost).                  *)
IngestedBeforeConfirmed ==
    \A b \in Range(confirmed) :
        Payment(b) => b \in ingested \cup lost \/ BeingHandled(b)

(* A block is announced as confirmed once, over any number of restarts; a  *)
(* call that is answered by its key tracks the block anew and may announce *)
(* it once more, and so may each restart when the announcement is beyond   *)
(* the events that the recovery lists.                                     *)
ConfirmedOnce ==
    \A b \in Block :
        Times(b) <= 1 + Cardinality(replays[b])
                      + IF b \in Range(confirmed) \ Listed(confirmed) THEN crashes ELSE 0

(* A block whose publication is announced gets a terminal event, also when *)
(* the process dies on the way; unless what had to store one, or to list   *)
(* the published blocks at the start, has failed, or the list had no room  *)
(* for the block, and no call has tracked it since (forgotten).            *)
PublishedSettles ==
    \A b \in Block : b \in Range(published) ~> (Settled(b) \/ b \in forgotten)

(* "`block.failed` | Pre-signed block rejected" (rfcs/0003-event-model.md). *)
(* It is stored for a block that was accepted and not confirmed in time.   *)
FailedIsRejected == \A b \in Range(failed) : ledger[b] = "unknown"
===============================================================================
