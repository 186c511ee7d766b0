---------------------------- MODULE WebhookOutbox ----------------------------
(***************************************************************************)
(* The transactional webhook outbox: the event store, the outbox and the   *)
(* endpoints of packages/storage/src/index.ts, the worker of               *)
(* packages/runtime/src/webhook-outbox-worker.ts and the HTTP attempt of   *)
(* packages/webhook/src/delivery.ts.                                       *)
(*                                                                         *)
(* A job is one outbox row: an event, by its sequence number, and an       *)
(* endpoint.  Several workers, each in a process of its own, share the     *)
(* database.  Time is not counted: a retry may have become due and a claim *)
(* may have run out whenever a worker looks.                               *)
(***************************************************************************)
EXTENDS Integers, Sequences, FiniteSets

CONSTANTS
    Worker,       \* processes that deliver
    Endpoint,     \* identifiers of webhooks rows
    Type,         \* event types
    Filter,       \* [Endpoint -> SUBSET Type]: what its event_types match
    Concurrency,  \* jobs claimed at once
    MaxAttempts,
    MaxEvents,    \* bound on the events
    None,
    Setup         \* the instances to check: endpoints that may be registered,
                  \* events, and the faults of workers (bounds)

ASSUME OutboxAssumption ==
    /\ Filter \in [Endpoint -> SUBSET Type]
    /\ Concurrency \in Nat \ {0}
    /\ MaxAttempts \in Nat \ {0}
    /\ MaxEvents \in Nat
    /\ None \notin Worker
    /\ \A s \in Setup :
        /\ s.endpoints \subseteq Endpoint
        /\ s.events \in 0..MaxEvents
        /\ s.maxFaults \in Nat

VARIABLES
    \* the database
    log,       \* the events rows, by sequence number: their types
    endpoint,  \* [Endpoint -> EndpointState]: the webhooks rows
    status,    \* [Job -> JobStatus]
    count,     \* [Job -> Nat]: attempt_count
    owner,     \* [Job -> lease_owner]
    history,   \* [Job -> Seq(attempt)]: the webhook_deliveries rows
    \* the endpoints
    answered,  \* [Job -> BOOLEAN]: a POST of the job has got a 2xx answer
    \* each worker
    claimed,   \* [Worker -> [Job -> Stage]]: what runOnce is about
    number,    \* [Worker -> [Job -> Nat]]: the attempt it makes
    \* the instance, and a bound
    setup,
    faults

database == <<log, endpoint, status, count, owner, history>>
memory   == <<claimed, number>>
outbox   == <<database, answered, memory, setup, faults>>

Job           == (1..MaxEvents) \X Endpoint
EndpointState == {"absent", "live", "deleted"}
JobStatus     == {"absent", "pending", "processing", "delivered", "failed"}
Result        == {"delivered", "retry", "terminal"}
Stage         == {"none", "claimed"} \cup Result
Attempt       == [number : Nat, status : {"delivered", "retry", "failed"}]

Init ==
    /\ setup \in Setup
    /\ log = << >>
    /\ endpoint = [e \in Endpoint |-> "absent"]
    /\ status = [j \in Job |-> "absent"]
    /\ count = [j \in Job |-> 0]
    /\ owner = [j \in Job |-> None]
    /\ history = [j \in Job |-> << >>]
    /\ answered = [j \in Job |-> FALSE]
    /\ claimed = [w \in Worker |-> [j \in Job |-> "none"]]
    /\ number = [w \in Worker |-> [j \in Job |-> 0]]
    /\ faults = 0

Fault == faults < setup.maxFaults /\ faults' = faults + 1 /\ UNCHANGED setup

-------------------------------------------------------------------------------
(* Events and endpoints                                                    *)

Matching(type) == {e \in Endpoint : endpoint[e] = "live" /\ type \in Filter[e]}

(* Regression: an event of one endpoint is enough, for the first match.    *)
EnqueueOne(n, type) ==
    status' = [j \in Job |->
        IF /\ j[1] = n /\ j[2] \in Matching(type)
           /\ j[2] = CHOOSE e \in Matching(type) : TRUE
        THEN "pending" ELSE status[j]]

(* One row for every endpoint that matches when the event is committed.    *)
EnqueueOutbox(n, type) ==
    status' = [j \in Job |->
        IF j[1] = n /\ j[2] \in Matching(type) THEN "pending" ELSE status[j]]

(* The event and its rows are one transaction.                             *)
AppendEvent(type) ==
    /\ Len(log) < setup.events
    /\ log' = Append(log, type)
    /\ EnqueueOutbox(Len(log) + 1, type)
    /\ UNCHANGED <<endpoint, count, owner, history, answered, memory, setup, faults>>

CreateEndpoint(e) ==
    /\ e \in setup.endpoints /\ endpoint[e] = "absent"
    /\ endpoint' = [endpoint EXCEPT ![e] = "live"]
    /\ UNCHANGED <<log, status, count, owner, history, answered, memory, setup,
                   faults>>

(* The rows of the outbox go with the endpoint (ON DELETE CASCADE); the    *)
(* history of attempts stays.                                              *)
DeleteEndpoint(e) ==
    /\ endpoint[e] = "live"
    /\ endpoint' = [endpoint EXCEPT ![e] = "deleted"]
    /\ status' = [j \in Job |-> IF j[2] = e THEN "absent" ELSE status[j]]
    /\ count' = [j \in Job |-> IF j[2] = e THEN 0 ELSE count[j]]
    /\ owner' = [j \in Job |-> IF j[2] = e THEN None ELSE owner[j]]
    /\ UNCHANGED <<log, history, answered, memory, setup, faults>>

-------------------------------------------------------------------------------
(* WebhookOutboxWorker                                                     *)

Busy(w) == \E j \in Job : claimed[w][j] # "none"

(* The holder of a claim that is not at work on it any more is gone: its   *)
(* claim runs out after 30 s.                                              *)
Abandoned(j) == owner[j] # None /\ claimed[owner[j]][j] = "none"

(* Regression: nobody comes back to a row in progress.                     *)
DuePending(j) == status[j] = "pending"

Due(j) ==
    \/ status[j] = "pending"
    \/ status[j] = "processing" /\ Abandoned(j)

Take(w, jobs) ==
    /\ status' = [j \in Job |-> IF j \in jobs THEN "processing" ELSE status[j]]
    /\ owner' = [j \in Job |-> IF j \in jobs THEN w ELSE owner[j]]
    /\ claimed' = [claimed EXCEPT ![w] =
                    [j \in Job |-> IF j \in jobs THEN "claimed" ELSE @[j]]]
    /\ number' = [number EXCEPT ![w] =
                    [j \in Job |-> IF j \in jobs THEN count[j] + 1 ELSE @[j]]]
    /\ UNCHANGED <<log, endpoint, count, history, answered>>

(* runOnce claims what is due, up to its concurrency, and does nothing     *)
(* while it is already running.                                            *)
ClaimReady(w, jobs) ==
    /\ ~ Busy(w)
    /\ jobs # {} /\ Cardinality(jobs) <= Concurrency
    /\ Take(w, jobs)
    /\ UNCHANGED <<setup, faults>>

(* A claim runs out although its worker is at work: the worker was stalled *)
(* for longer than the time of an attempt.                                 *)
ClaimFromStalled(w, j) ==
    /\ ~ Busy(w)
    /\ status[j] = "processing" /\ owner[j] # w
    /\ Fault
    /\ Take(w, {j})

(* attemptWebhookDelivery: a 2xx is a delivery, most 4xx are final, the    *)
(* rest is tried again; so is an attempt whose answer did not arrive.      *)
Post(w, j, result) ==
    /\ claimed[w][j] = "claimed"
    /\ claimed' = [claimed EXCEPT ![w][j] = result]
    /\ \/ result = "delivered" /\ answered' = [answered EXCEPT ![j] = TRUE]
       \/ result = "retry" /\ answered' = [answered EXCEPT ![j] = TRUE]
       \/ result \in {"retry", "terminal"} /\ UNCHANGED answered
    /\ UNCHANGED <<database, number, setup, faults>>

Outcome(result, n) ==
    CASE result = "delivered" -> "delivered"
      [] result = "terminal" -> "failed"
      [] result = "retry" -> IF n >= MaxAttempts THEN "failed" ELSE "retry"

(* Regression: the attempt is recorded whoever holds the row by now.       *)
StillExists(w, j) == status[j] # "absent"

(* The claim is still this worker's, whether or not it has run out.        *)
StillMine(w, j) == status[j] = "processing" /\ owner[j] = w

Finish(w, j) ==
    /\ claimed' = [claimed EXCEPT ![w][j] = "none"]
    /\ number' = [number EXCEPT ![w][j] = 0]

RecordAttempt(w, j) ==
    LET n == number[w][j]
        outcome == Outcome(claimed[w][j], n)
    IN
    /\ claimed[w][j] \in Result
    /\ StillMine(w, j)
    /\ status' = [status EXCEPT ![j] =
                    IF outcome = "retry" THEN "pending" ELSE outcome]
    /\ count' = [count EXCEPT ![j] = n]
    /\ owner' = [owner EXCEPT ![j] = None]
    /\ history' = [history EXCEPT ![j] =
                    Append(@, [number |-> n, status |-> outcome])]
    /\ Finish(w, j)
    /\ UNCHANGED <<log, endpoint, answered, setup, faults>>

(* Somebody else has the row, or it was deleted: nothing is written.       *)
RecordNothing(w, j) ==
    /\ claimed[w][j] \in Result
    /\ ~ StillMine(w, j)
    /\ Finish(w, j)
    /\ UNCHANGED <<database, answered, setup, faults>>

(* The transaction fails: runOnce swallows it, and the claim runs out.     *)
RecordFails(w, j) ==
    /\ claimed[w][j] \in Result
    /\ Fault
    /\ Finish(w, j)
    /\ UNCHANGED <<database, answered>>

(* The process dies; it comes back with another worker id.                 *)
WorkerCrash(w) ==
    /\ Busy(w)
    /\ Fault
    /\ claimed' = [claimed EXCEPT ![w] = [j \in Job |-> "none"]]
    /\ number' = [number EXCEPT ![w] = [j \in Job |-> 0]]
    /\ UNCHANGED <<database, answered>>

-------------------------------------------------------------------------------
RunOnce(w) ==
    \/ \E jobs \in SUBSET {j \in Job : Due(j)} : ClaimReady(w, jobs)
    \/ \E j \in Job :
          \/ \E result \in Result : Post(w, j, result)
          \/ RecordAttempt(w, j) \/ RecordNothing(w, j)

Next ==
    \/ \E type \in Type : AppendEvent(type)
    \/ \E e \in Endpoint : CreateEndpoint(e) \/ DeleteEndpoint(e)
    \/ \E w \in Worker : RunOnce(w) \/ WorkerCrash(w)
    \/ \E w \in Worker, j \in Job : ClaimFromStalled(w, j) \/ RecordFails(w, j)

Spec == Init /\ [][Next]_outbox

(* The interval timer runs the worker every second.                        *)
FairSpec == Spec /\ \A w \in Worker : WF_outbox(RunOnce(w))

-------------------------------------------------------------------------------
(* Properties                                                              *)

TypeOK ==
    /\ log \in Seq(Type) /\ Len(log) <= MaxEvents
    /\ endpoint \in [Endpoint -> EndpointState]
    /\ status \in [Job -> JobStatus]
    /\ count \in [Job -> 0..MaxAttempts]
    /\ owner \in [Job -> Worker \cup {None}]
    /\ history \in [Job -> Seq(Attempt)]
    /\ answered \in [Job -> BOOLEAN]
    /\ claimed \in [Worker -> [Job -> Stage]]
    /\ number \in [Worker -> [Job -> 0..MaxAttempts]]
    /\ setup \in Setup
    /\ faults \in 0..setup.maxFaults

(* The recorded attempts of a job are numbered 1, 2, ... without a gap or  *)
(* a repetition, and attempt_count is how many there are.                  *)
AttemptsAreNumbered ==
    \A j \in Job :
        /\ \A n \in DOMAIN history[j] : history[j][n].number = n
        /\ status[j] # "absent" => count[j] = Len(history[j])

(* A job that is settled was settled by its last recorded attempt, every   *)
(* earlier attempt asked for a retry, and a delivery was acknowledged by   *)
(* the endpoint.                                                           *)
SettledByLastAttempt ==
    \A j \in Job :
        /\ \A n \in 1..(Len(history[j]) - 1) : history[j][n].status = "retry"
        /\ status[j] \in {"delivered", "failed"} =>
              /\ history[j] # << >>
              /\ history[j][Len(history[j])].status = status[j]
        /\ status[j] = "delivered" => answered[j]

(* The delivery history of a job tells what happened, whichever workers    *)
(* stall, die and take over: each attempt is recorded by the worker that   *)
(* held the row then, once, and nothing is recorded after the last.        *)
HistoryIsTrue == AttemptsAreNumbered /\ SettledByLastAttempt

Owed(j) == status[j] \in {"pending", "processing"}

(* What is owed is settled in the end, unless its endpoint is deleted: as  *)
(* there are finitely many events, a time comes when nothing is owed.      *)
JobsSettle == (\E j \in Job : Owed(j)) ~> (\A j \in Job : ~ Owed(j))

Contract == INSTANCE DeliveryContract WITH
    announced <- log,
    registered <- {e \in Endpoint : endpoint[e] = "live"},
    duty <- [j \in Job |-> CASE status[j] = "absent" -> "none"
                             [] Owed(j) -> "owed"
                             [] OTHER -> status[j]],
    acknowledged <- answered

(* The outbox implements the delivery contract.                            *)
KeepsDeliveryContract == Contract!Spec
===============================================================================
