------------------------- MODULE WebhookOutboxProofs -------------------------
(***************************************************************************)
(* WebhookOutbox, for any number of workers, endpoints and events, and any *)
(* number of stalls and deaths: its types, the truth of the delivery       *)
(* history, and that it implements DeliveryContract.                       *)
(***************************************************************************)
EXTENDS WebhookOutbox, TLAPS

(* A worker at work on a job whose row is still its own makes the next     *)
(* attempt, and there is one left to make.                                 *)
OwnAttemptIsNext ==
    \A w \in Worker, j \in Job :
        claimed[w][j] # "none" /\ StillMine(w, j) => number[w][j] = count[j] + 1

(* A job that is owed has an attempt left, and has only seen retries.      *)
OwedIsUnsettled ==
    \A j \in Job : Owed(j) =>
        /\ count[j] < MaxAttempts
        /\ \A n \in DOMAIN history[j] : history[j][n].status = "retry"

(* Nothing is recorded of an event that does not exist yet, and nobody is  *)
(* at work on it.                                                          *)
FutureIsEmpty ==
    \A j \in Job : j[1] > Len(log) =>
        /\ status[j] = "absent" /\ count[j] = 0 /\ history[j] = << >>
        /\ \A w \in Worker : claimed[w][j] = "none"

AbsentIsReset == \A j \in Job : status[j] = "absent" => count[j] = 0

DeliveredIsAnswered ==
    \A w \in Worker, j \in Job : claimed[w][j] = "delivered" => answered[j]

Inv ==
    /\ TypeOK /\ HistoryIsTrue
    /\ OwnAttemptIsNext /\ OwedIsUnsettled /\ FutureIsEmpty
    /\ AbsentIsReset /\ DeliveredIsAnswered

-------------------------------------------------------------------------------
(* What the steps do to the types                                          *)

LEMMA FaultType ==
    ASSUME TypeOK, Fault
    PROVE  faults' \in 0..setup'.maxFaults /\ setup' \in Setup
BY OutboxAssumption DEF TypeOK, Fault

LEMMA JobType ==
    ASSUME NEW j \in Job
    PROVE  j[1] \in 1..MaxEvents /\ j[1] \in Nat /\ j[2] \in Endpoint
BY OutboxAssumption DEF Job

LEMMA FinishType ==
    ASSUME TypeOK, NEW w \in Worker, NEW j \in Job, Finish(w, j)
    PROVE  /\ claimed' \in [Worker -> [Job -> Stage]]
           /\ number' \in [Worker -> [Job -> 0..MaxAttempts]]
           /\ \A v \in Worker, i \in Job :
                claimed'[v][i] # "none" =>
                    /\ claimed'[v][i] = claimed[v][i]
                    /\ number'[v][i] = number[v][i]
                    /\ v # w \/ i # j
<1>1. claimed' \in [Worker -> [Job -> Stage]]
  BY DEF TypeOK, Finish, Stage
<1>2. number' \in [Worker -> [Job -> 0..MaxAttempts]]
  BY OutboxAssumption DEF TypeOK, Finish
<1>3. ASSUME NEW v \in Worker, NEW i \in Job, claimed'[v][i] # "none"
      PROVE  /\ claimed'[v][i] = claimed[v][i]
             /\ number'[v][i] = number[v][i]
             /\ v # w \/ i # j
  <2>1. CASE v = w /\ i = j
    BY <1>3, <2>1 DEF TypeOK, Finish
  <2>2. CASE v # w \/ i # j
    BY <2>2 DEF TypeOK, Finish
  <2> QED BY <2>1, <2>2
<1> QED BY <1>1, <1>2, <1>3

LEMMA TakeType ==
    ASSUME Inv, NEW w \in Worker, NEW jobs \in SUBSET Job, Take(w, jobs),
           \A j \in jobs : Owed(j)
    PROVE  /\ status' \in [Job -> JobStatus] /\ owner' \in [Job -> Worker \cup {None}]
           /\ claimed' \in [Worker -> [Job -> Stage]]
           /\ number' \in [Worker -> [Job -> 0..MaxAttempts]]
           /\ \A v \in Worker, i \in Job :
                IF v = w /\ i \in jobs
                THEN claimed'[v][i] = "claimed" /\ number'[v][i] = count[i] + 1
                ELSE claimed'[v][i] = claimed[v][i] /\ number'[v][i] = number[v][i]
<1>1. \A j \in jobs : count[j] + 1 \in 0..MaxAttempts
  BY OutboxAssumption DEF Inv, TypeOK, OwedIsUnsettled
<1>2. status' \in [Job -> JobStatus] /\ owner' \in [Job -> Worker \cup {None}]
  BY DEF Inv, TypeOK, Take, JobStatus
<1>3. claimed' \in [Worker -> [Job -> Stage]]
  BY DEF Inv, TypeOK, Take, Stage
<1>4. number' \in [Worker -> [Job -> 0..MaxAttempts]]
  BY <1>1 DEF Inv, TypeOK, Take
<1>5. ASSUME NEW v \in Worker, NEW i \in Job
      PROVE  IF v = w /\ i \in jobs
             THEN claimed'[v][i] = "claimed" /\ number'[v][i] = count[i] + 1
             ELSE claimed'[v][i] = claimed[v][i] /\ number'[v][i] = number[v][i]
  <2>1. CASE v = w
    BY <2>1 DEF Inv, TypeOK, Take
  <2>2. CASE v # w
    BY <2>2 DEF Inv, TypeOK, Take
  <2> QED BY <2>1, <2>2
<1> QED BY <1>2, <1>3, <1>4, <1>5

-------------------------------------------------------------------------------
(* Every step preserves the invariant                                      *)

LEMMA InitHolds == Init => Inv
<1> SUFFICES ASSUME Init PROVE Inv OBVIOUS
<1>1. TypeOK
  BY OutboxAssumption DEF Init, TypeOK, JobStatus, EndpointState, Stage
<1>2. HistoryIsTrue
  BY DEF Init, HistoryIsTrue, AttemptsAreNumbered, SettledByLastAttempt
<1>3. OwnAttemptIsNext /\ OwedIsUnsettled /\ FutureIsEmpty
      /\ AbsentIsReset /\ DeliveredIsAnswered
  BY DEF Init, OwnAttemptIsNext, OwedIsUnsettled, Owed, FutureIsEmpty,
         AbsentIsReset, DeliveredIsAnswered
<1> QED BY <1>1, <1>2, <1>3 DEF Inv

LEMMA AppendHolds ==
    ASSUME Inv, NEW type \in Type, AppendEvent(type)
    PROVE  Inv'
<1>1. Len(log) \in Nat /\ Len(log) + 1 <= MaxEvents /\ Len(log') = Len(log) + 1
      /\ log' \in Seq(Type)
  BY OutboxAssumption DEF Inv, TypeOK, AppendEvent
<1>2. \A j \in Job : status'[j] = status[j]
                     \/ (status'[j] = "pending" /\ j[1] = Len(log) + 1)
  BY DEF Inv, TypeOK, AppendEvent, EnqueueOutbox
<1>3. status' \in [Job -> JobStatus]
  BY DEF Inv, TypeOK, AppendEvent, EnqueueOutbox, JobStatus
<1>4. TypeOK'
  BY <1>1, <1>3 DEF Inv, TypeOK, AppendEvent, memory
<1>5. \A j \in Job : j[1] = Len(log) + 1 =>
        count[j] = 0 /\ history[j] = << >> /\ \A w \in Worker : claimed[w][j] = "none"
  BY <1>1, JobType DEF Inv, FutureIsEmpty
<1> USE DEF AppendEvent, memory
<1>6. AttemptsAreNumbered'
  BY <1>2, <1>5 DEF Inv, HistoryIsTrue, AttemptsAreNumbered
<1>7. SettledByLastAttempt'
  BY <1>2, <1>5 DEF Inv, HistoryIsTrue, SettledByLastAttempt
<1>8. OwnAttemptIsNext'
  BY <1>2, <1>5 DEF Inv, OwnAttemptIsNext, StillMine
<1>9. OwedIsUnsettled'
  BY <1>2, <1>5, OutboxAssumption DEF Inv, OwedIsUnsettled, Owed
<1>10. FutureIsEmpty'
  BY <1>1, <1>2, JobType DEF Inv, FutureIsEmpty
<1>11. AbsentIsReset' /\ DeliveredIsAnswered'
  BY <1>2 DEF Inv, AbsentIsReset, DeliveredIsAnswered
<1> QED BY <1>4, <1>6, <1>7, <1>8, <1>9, <1>10, <1>11 DEF Inv, HistoryIsTrue

LEMMA CreateHolds ==
    ASSUME Inv, NEW e \in Endpoint, CreateEndpoint(e)
    PROVE  Inv'
<1>1. TypeOK'
  BY DEF Inv, TypeOK, CreateEndpoint, memory, EndpointState
<1>2. UNCHANGED <<log, status, count, owner, history, answered, claimed, number>>
  BY DEF CreateEndpoint, memory
<1>3. HistoryIsTrue' /\ OwnAttemptIsNext' /\ OwedIsUnsettled' /\ FutureIsEmpty'
      /\ AbsentIsReset' /\ DeliveredIsAnswered'
  BY <1>2 DEF Inv, HistoryIsTrue, AttemptsAreNumbered, SettledByLastAttempt,
              OwnAttemptIsNext, StillMine, OwedIsUnsettled, Owed, FutureIsEmpty,
              AbsentIsReset, DeliveredIsAnswered
<1> QED BY <1>1, <1>3 DEF Inv

LEMMA DeleteHolds ==
    ASSUME Inv, NEW e \in Endpoint, DeleteEndpoint(e)
    PROVE  Inv'
<1> USE DEF DeleteEndpoint, memory
<1>1. TypeOK'
  BY OutboxAssumption DEF Inv, TypeOK, EndpointState, JobStatus
<1>2. \A j \in Job :
        IF j[2] = e
        THEN status'[j] = "absent" /\ count'[j] = 0
        ELSE status'[j] = status[j] /\ count'[j] = count[j] /\ owner'[j] = owner[j]
  BY DEF Inv, TypeOK
<1>3. AttemptsAreNumbered'
  BY <1>2 DEF Inv, HistoryIsTrue, AttemptsAreNumbered
<1>4. SettledByLastAttempt'
  BY <1>2 DEF Inv, HistoryIsTrue, SettledByLastAttempt
<1>5. OwnAttemptIsNext' /\ OwedIsUnsettled'
  BY <1>2 DEF Inv, OwnAttemptIsNext, StillMine, OwedIsUnsettled, Owed
<1>6. FutureIsEmpty' /\ AbsentIsReset' /\ DeliveredIsAnswered'
  BY <1>2 DEF Inv, FutureIsEmpty, AbsentIsReset, DeliveredIsAnswered
<1> QED BY <1>1, <1>3, <1>4, <1>5, <1>6 DEF Inv, HistoryIsTrue

(* A claim, on what is due or from a stalled worker.                       *)
LEMMA TakeHolds ==
    ASSUME Inv, NEW w \in Worker, NEW jobs \in SUBSET Job, Take(w, jobs),
           \A j \in jobs : Owed(j),
           setup' \in Setup, faults' \in 0..setup'.maxFaults
    PROVE  Inv'
<1>1. /\ status' \in [Job -> JobStatus] /\ owner' \in [Job -> Worker \cup {None}]
      /\ claimed' \in [Worker -> [Job -> Stage]]
      /\ number' \in [Worker -> [Job -> 0..MaxAttempts]]
      /\ \A v \in Worker, i \in Job :
           IF v = w /\ i \in jobs
           THEN claimed'[v][i] = "claimed" /\ number'[v][i] = count[i] + 1
           ELSE claimed'[v][i] = claimed[v][i] /\ number'[v][i] = number[v][i]
  BY TakeType
<1>2. \A j \in Job : IF j \in jobs THEN status'[j] = "processing" /\ owner'[j] = w
                                  ELSE status'[j] = status[j] /\ owner'[j] = owner[j]
  BY DEF Inv, TypeOK, Take
<1>3. UNCHANGED <<log, endpoint, count, history, answered>>
  BY DEF Take
<1>4. TypeOK'
  BY <1>1, <1>3 DEF Inv, TypeOK
<1>5. AttemptsAreNumbered'
  BY <1>2, <1>3 DEF Inv, HistoryIsTrue, AttemptsAreNumbered, Owed
<1>6. SettledByLastAttempt'
  BY <1>2, <1>3 DEF Inv, HistoryIsTrue, SettledByLastAttempt
<1>7. OwnAttemptIsNext'
  BY <1>1, <1>2, <1>3 DEF Inv, OwnAttemptIsNext, StillMine
<1>8. OwedIsUnsettled'
  BY <1>2, <1>3 DEF Inv, OwedIsUnsettled, Owed
<1>9. FutureIsEmpty'
  <2>1. \A i \in jobs : ~ (i[1] > Len(log))
    BY DEF Inv, FutureIsEmpty, Owed
  <2>2. \A v \in Worker, i \in Job : i \notin jobs => claimed'[v][i] = claimed[v][i]
    BY <1>1
  <2> QED BY <1>2, <1>3, <2>1, <2>2 DEF Inv, FutureIsEmpty
<1>10. AbsentIsReset' /\ DeliveredIsAnswered'
  BY <1>1, <1>2, <1>3 DEF Inv, AbsentIsReset, DeliveredIsAnswered
<1> QED BY <1>4, <1>5, <1>6, <1>7, <1>8, <1>9, <1>10 DEF Inv, HistoryIsTrue

LEMMA PostHolds ==
    ASSUME Inv, NEW w \in Worker, NEW j \in Job, NEW result \in Result,
           Post(w, j, result)
    PROVE  Inv'
<1>1. \A v \in Worker, i \in Job :
        IF v = w /\ i = j THEN claimed'[v][i] = result /\ claimed[v][i] # "none"
                          ELSE claimed'[v][i] = claimed[v][i]
  BY DEF Inv, TypeOK, Post
<1>2. \A i \in Job : answered[i] => answered'[i]
  BY DEF Inv, TypeOK, Post
<1>3. result = "delivered" => answered'[j]
  BY DEF Inv, TypeOK, Post
<1>4. UNCHANGED <<log, endpoint, status, count, owner, history, number, setup, faults>>
  BY DEF Post, database
<1>5. TypeOK'
  <2>1. claimed' \in [Worker -> [Job -> Stage]]
    BY DEF Inv, TypeOK, Post, Stage
  <2>2. answered' \in [Job -> BOOLEAN]
    BY DEF Inv, TypeOK, Post
  <2> QED BY <2>1, <2>2, <1>4 DEF Inv, TypeOK
<1>6. AttemptsAreNumbered' /\ OwedIsUnsettled' /\ AbsentIsReset'
  BY <1>4 DEF Inv, HistoryIsTrue, AttemptsAreNumbered, OwedIsUnsettled, Owed,
              AbsentIsReset
<1>7. SettledByLastAttempt'
  BY <1>2, <1>4 DEF Inv, HistoryIsTrue, SettledByLastAttempt
<1>8. OwnAttemptIsNext' /\ FutureIsEmpty'
  BY <1>1, <1>4 DEF Inv, OwnAttemptIsNext, StillMine, FutureIsEmpty
<1>9. DeliveredIsAnswered'
  BY <1>1, <1>2, <1>3 DEF Inv, DeliveredIsAnswered
<1> QED BY <1>5, <1>6, <1>7, <1>8, <1>9 DEF Inv, HistoryIsTrue

LEMMA OutcomeOf ==
    ASSUME NEW result \in Result, NEW n \in Nat
    PROVE  /\ Outcome(result, n) \in {"delivered", "retry", "failed"}
           /\ Outcome(result, n) = "delivered" => result = "delivered"
           /\ Outcome(result, n) = "retry" => n < MaxAttempts
BY OutboxAssumption DEF Outcome, Result

(* The attempt that is recorded is the next of a job that is owed.         *)
LEMMA RecordHolds ==
    ASSUME Inv, NEW w \in Worker, NEW j \in Job, RecordAttempt(w, j)
    PROVE  Inv'
<1> DEFINE n == number[w][j]
           outcome == Outcome(claimed[w][j], n)
           old == history[j]
<1>1. /\ status[j] = "processing" /\ owner[j] = w
      /\ n = count[j] + 1 /\ n \in Nat /\ n <= MaxAttempts
  BY DEF Inv, TypeOK, OwnAttemptIsNext, RecordAttempt, StillMine, Result
<1>2. /\ outcome \in {"delivered", "retry", "failed"}
      /\ outcome = "delivered" => answered[j]
      /\ outcome = "retry" => n < MaxAttempts
  BY <1>1, OutcomeOf DEF Inv, DeliveredIsAnswered, RecordAttempt
<1>3. old \in Seq(Attempt) /\ count[j] = Len(old) /\ Len(old) \in Nat
      /\ \A i \in DOMAIN old : old[i].number = i /\ old[i].status = "retry"
  BY <1>1 DEF Inv, TypeOK, HistoryIsTrue, AttemptsAreNumbered, OwedIsUnsettled, Owed
<1>4. [number |-> n, status |-> outcome] \in Attempt
  BY <1>1, <1>2 DEF Attempt
<1> DEFINE new == Append(old, [number |-> n, status |-> outcome])
<1>5. new \in Seq(Attempt) /\ Len(new) = n /\ new # << >>
      /\ DOMAIN new = 1..n
      /\ new[n].number = n /\ new[n].status = outcome
      /\ \A i \in 1..(n - 1) : new[i].number = i /\ new[i].status = "retry"
  <2>1. new \in Seq(Attempt) /\ Len(new) = n /\ DOMAIN new = 1..n
    BY <1>1, <1>3, <1>4
  <2>2. new[n] = [number |-> n, status |-> outcome]
    BY <1>1, <1>3
  <2>3. \A i \in 1..(n - 1) : i \in DOMAIN old /\ new[i] = old[i]
    BY <1>1, <1>3
  <2>4. new # << >>
    BY <2>1, <1>1
  <2> QED BY <2>1, <2>2, <2>3, <2>4, <1>3
<1>6. \A i \in Job :
        IF i = j
        THEN /\ status'[i] = (IF outcome = "retry" THEN "pending" ELSE outcome)
             /\ count'[i] = n /\ history'[i] = new /\ owner'[i] = None
        ELSE /\ status'[i] = status[i] /\ count'[i] = count[i]
             /\ history'[i] = history[i] /\ owner'[i] = owner[i]
  BY DEF Inv, TypeOK, RecordAttempt
<1>7. /\ claimed' \in [Worker -> [Job -> Stage]]
      /\ number' \in [Worker -> [Job -> 0..MaxAttempts]]
      /\ \A v \in Worker, i \in Job :
           claimed'[v][i] # "none" =>
               /\ claimed'[v][i] = claimed[v][i]
               /\ number'[v][i] = number[v][i]
               /\ v # w \/ i # j
  BY FinishType DEF Inv, RecordAttempt
<1>8. UNCHANGED <<log, endpoint, answered, setup, faults>>
  BY DEF RecordAttempt
<1>9. TypeOK'
  <2>1. status' \in [Job -> JobStatus] /\ owner' \in [Job -> Worker \cup {None}]
    BY <1>2 DEF Inv, TypeOK, RecordAttempt, JobStatus
  <2>2. count' \in [Job -> 0..MaxAttempts]
    BY <1>1 DEF Inv, TypeOK, RecordAttempt
  <2>3. history' \in [Job -> Seq(Attempt)]
    BY <1>5 DEF Inv, TypeOK, RecordAttempt
  <2> QED BY <2>1, <2>2, <2>3, <1>7, <1>8 DEF Inv, TypeOK
<1> HIDE DEF n, outcome, old, new
<1>10. AttemptsAreNumbered'
  <2> SUFFICES ASSUME NEW i \in Job
               PROVE  /\ \A k \in DOMAIN history'[i] : history'[i][k].number = k
                      /\ status'[i] # "absent" => count'[i] = Len(history'[i])
    BY DEF AttemptsAreNumbered
  <2>1. CASE i = j
    <3>1. \A k \in DOMAIN new : k = n \/ k \in 1..(n - 1)
      BY <1>1, <1>5
    <3> QED BY <1>5, <1>6, <2>1, <3>1
  <2>2. CASE i # j
    BY <1>6, <2>2 DEF Inv, HistoryIsTrue, AttemptsAreNumbered
  <2> QED BY <2>1, <2>2
<1>11. SettledByLastAttempt'
  <2> SUFFICES ASSUME NEW i \in Job
               PROVE  /\ \A k \in 1..(Len(history'[i]) - 1) : history'[i][k].status = "retry"
                      /\ status'[i] \in {"delivered", "failed"} =>
                            /\ history'[i] # << >>
                            /\ history'[i][Len(history'[i])].status = status'[i]
                      /\ status'[i] = "delivered" => answered'[i]
    BY DEF SettledByLastAttempt
  <2>1. CASE i = j
    BY <1>1, <1>2, <1>5, <1>6, <1>8, <2>1
  <2>2. CASE i # j
    BY <1>6, <1>8, <2>2 DEF Inv, HistoryIsTrue, SettledByLastAttempt
  <2> QED BY <2>1, <2>2
<1>12. OwnAttemptIsNext'
  <2> SUFFICES ASSUME NEW v \in Worker, NEW i \in Job,
                      claimed'[v][i] # "none", status'[i] = "processing", owner'[i] = v
               PROVE  number'[v][i] = count'[i] + 1
    BY DEF OwnAttemptIsNext, StillMine
  <2>1. i # j
    BY <1>6, OutboxAssumption
  <2> QED BY <1>6, <1>7, <2>1 DEF Inv, OwnAttemptIsNext, StillMine
<1>13. OwedIsUnsettled'
  <2> SUFFICES ASSUME NEW i \in Job, status'[i] \in {"pending", "processing"}
               PROVE  /\ count'[i] < MaxAttempts
                      /\ \A k \in DOMAIN history'[i] : history'[i][k].status = "retry"
    BY DEF OwedIsUnsettled, Owed
  <2>1. CASE i = j
    <3>1. outcome = "retry" /\ history'[i] = new /\ count'[i] = n
      BY <1>2, <1>6, <2>1
    <3>2. \A k \in DOMAIN new : k = n \/ k \in 1..(n - 1)
      BY <1>1, <1>5
    <3> QED BY <1>2, <1>5, <3>1, <3>2
  <2>2. CASE i # j
    BY <1>6, <2>2 DEF Inv, OwedIsUnsettled, Owed
  <2> QED BY <2>1, <2>2
<1>14. FutureIsEmpty'
  <2>1. ~ (j[1] > Len(log))
    BY <1>1 DEF Inv, FutureIsEmpty
  <2>2. ASSUME NEW i \in Job, i[1] > Len(log'), NEW v \in Worker
        PROVE  claimed'[v][i] = "none"
    <3>1. claimed[v][i] = "none"
      BY <1>8, <2>2 DEF Inv, FutureIsEmpty
    <3> QED BY <1>7, <3>1
  <2>3. ASSUME NEW i \in Job, i[1] > Len(log')
        PROVE  status'[i] = "absent" /\ count'[i] = 0 /\ history'[i] = << >>
    BY <1>6, <1>8, <2>1, <2>3 DEF Inv, FutureIsEmpty
  <2> QED BY <2>2, <2>3 DEF FutureIsEmpty
<1>15. AbsentIsReset'
  BY <1>2, <1>6 DEF Inv, AbsentIsReset
<1>16. DeliveredIsAnswered'
  BY <1>7, <1>8 DEF Inv, DeliveredIsAnswered
<1> QED BY <1>9, <1>10, <1>11, <1>12, <1>13, <1>14, <1>15, <1>16
   DEF Inv, HistoryIsTrue

(* A worker drops what it was about.                                       *)
LEMMA DropHolds ==
    ASSUME Inv, UNCHANGED <<database, answered>>,
           claimed' \in [Worker -> [Job -> Stage]],
           number' \in [Worker -> [Job -> 0..MaxAttempts]],
           \A v \in Worker, i \in Job :
                claimed'[v][i] # "none" => /\ claimed'[v][i] = claimed[v][i]
                                           /\ number'[v][i] = number[v][i],
           setup' \in Setup, faults' \in 0..setup'.maxFaults
    PROVE  Inv'
<1> USE DEF database
<1>1. TypeOK'
  BY DEF Inv, TypeOK
<1>2. HistoryIsTrue' /\ OwedIsUnsettled' /\ AbsentIsReset'
  BY DEF Inv, HistoryIsTrue, AttemptsAreNumbered, SettledByLastAttempt,
         OwedIsUnsettled, Owed, AbsentIsReset
<1>3. OwnAttemptIsNext' /\ DeliveredIsAnswered'
  BY DEF Inv, OwnAttemptIsNext, StillMine, DeliveredIsAnswered
<1>4. FutureIsEmpty'
  <2>1. ASSUME NEW i \in Job, i[1] > Len(log'), NEW v \in Worker
        PROVE  claimed'[v][i] = "none"
    <3>1. log' = log /\ claimed[v][i] = "none" BY <2>1 DEF Inv, FutureIsEmpty
    <3> QED BY <3>1
  <2> QED BY <2>1 DEF Inv, FutureIsEmpty
<1> QED BY <1>1, <1>2, <1>3, <1>4 DEF Inv

LEMMA StepHolds == Inv /\ [Next]_outbox => Inv'
<1> SUFFICES ASSUME Inv, [Next]_outbox PROVE Inv' OBVIOUS
<1>1. ASSUME NEW type \in Type, AppendEvent(type) PROVE Inv'
  BY <1>1, AppendHolds
<1>2. ASSUME NEW e \in Endpoint, CreateEndpoint(e) \/ DeleteEndpoint(e) PROVE Inv'
  BY <1>2, CreateHolds, DeleteHolds
<1>3. ASSUME NEW w \in Worker, RunOnce(w) PROVE Inv'
  <2>1. ASSUME NEW jobs \in SUBSET {j \in Job : Due(j)}, ClaimReady(w, jobs) PROVE Inv'
    <3>1. jobs \in SUBSET Job /\ \A j \in jobs : Owed(j)
      BY DEF Due, Owed
    <3>2. setup' \in Setup /\ faults' \in 0..setup'.maxFaults /\ Take(w, jobs)
      BY <2>1 DEF ClaimReady, Inv, TypeOK
    <3> QED BY <3>1, <3>2, TakeHolds
  <2>2. ASSUME NEW j \in Job, NEW result \in Result, Post(w, j, result) PROVE Inv'
    BY <2>2, PostHolds
  <2>3. ASSUME NEW j \in Job, RecordAttempt(w, j) PROVE Inv'
    BY <2>3, RecordHolds
  <2>4. ASSUME NEW j \in Job, RecordNothing(w, j) PROVE Inv'
    <3>1. Finish(w, j) /\ UNCHANGED <<database, answered>> /\ setup' \in Setup
          /\ faults' \in 0..setup'.maxFaults
      BY <2>4 DEF RecordNothing, Inv, TypeOK
    <3> QED BY <3>1, FinishType, DropHolds DEF Inv
  <2> QED BY <1>3, <2>1, <2>2, <2>3, <2>4 DEF RunOnce
<1>4. ASSUME NEW w \in Worker, WorkerCrash(w) PROVE Inv'
  <2>1. /\ claimed' \in [Worker -> [Job -> Stage]]
        /\ number' \in [Worker -> [Job -> 0..MaxAttempts]]
    BY <1>4, OutboxAssumption DEF WorkerCrash, Inv, TypeOK, Stage
  <2>2. \A v \in Worker, i \in Job : claimed'[v][i] # "none" =>
            claimed'[v][i] = claimed[v][i] /\ number'[v][i] = number[v][i]
    BY <1>4 DEF WorkerCrash, Inv, TypeOK
  <2>3. UNCHANGED <<database, answered>> /\ setup' \in Setup
        /\ faults' \in 0..setup'.maxFaults
    BY <1>4, FaultType DEF WorkerCrash, Inv
  <2> QED BY <2>1, <2>2, <2>3, DropHolds
<1>5. ASSUME NEW w \in Worker, NEW j \in Job, ClaimFromStalled(w, j) PROVE Inv'
  <2>1. {j} \in SUBSET Job /\ \A i \in {j} : Owed(i)
    BY <1>5 DEF ClaimFromStalled, Owed
  <2>2. Take(w, {j}) /\ setup' \in Setup /\ faults' \in 0..setup'.maxFaults
    BY <1>5, FaultType DEF ClaimFromStalled, Inv
  <2> QED BY <2>1, <2>2, TakeHolds
<1>6. ASSUME NEW w \in Worker, NEW j \in Job, RecordFails(w, j) PROVE Inv'
  <2>1. Finish(w, j) /\ UNCHANGED <<database, answered>> /\ setup' \in Setup
        /\ faults' \in 0..setup'.maxFaults
    BY <1>6, FaultType DEF RecordFails, Inv
  <2> QED BY <2>1, FinishType, DropHolds DEF Inv
<1>7. CASE UNCHANGED outbox
  <2>1. UNCHANGED <<database, answered, claimed, number, setup, faults>>
    BY <1>7 DEF outbox, memory
  <2> QED BY <2>1, DropHolds DEF Inv, TypeOK
<1> QED BY <1>1, <1>2, <1>3, <1>4, <1>5, <1>6, <1>7 DEF Next

LEMMA InvariantHolds == Spec => []Inv
BY InitHolds, StepHolds, PTL DEF Spec

(* The variables keep their types.                                         *)
THEOREM TypesHold == Spec => []TypeOK
<1>1. Inv => TypeOK BY DEF Inv
<1> QED BY <1>1, InvariantHolds, PTL

(* The delivery history of every job tells what happened.                  *)
THEOREM HistoriesAreTrue == Spec => []HistoryIsTrue
<1>1. Inv => HistoryIsTrue BY DEF Inv
<1> QED BY <1>1, InvariantHolds, PTL

-------------------------------------------------------------------------------
(* The outbox implements the delivery contract                             *)

(* The duties of the contract, by the status of the row.                   *)
Duties == [j \in Job |-> CASE status[j] = "absent" -> "none"
                           [] Owed(j) -> "owed"
                           [] OTHER -> status[j]]
Live   == {e \in Endpoint : endpoint[e] = "live"}

LEMMA InitImplements == Init => Contract!Init
<1> SUFFICES ASSUME Init PROVE Contract!Init OBVIOUS
<1>1. Live = {}
  BY DEF Init, Live
<1>2. Duties = [j \in Job |-> "none"]
  <2>1. \A j \in Job : status[j] = "absent"
    BY DEF Init
  <2>2. \A j \in Job : Duties[j] = "none"
    BY <2>1 DEF Duties, Owed
  <2> QED BY <2>2 DEF Duties
<1>3. log = << >> /\ answered = [j \in Job |-> FALSE]
  BY DEF Init
<1> QED BY <1>1, <1>2, <1>3 DEF Contract!Init, Contract!Job, Job, Live, Duties

(* A claim, and what a worker forgets, are no steps of the contract.       *)
LEMMA QuietSteps ==
    ASSUME Inv, UNCHANGED <<log, endpoint, answered>>,
           \A j \in Job : status'[j] = status[j] \/ (Owed(j) /\ Owed(j)')
    PROVE  UNCHANGED <<log, Live, Duties, answered>>
<1>1. \A j \in Job : Duties'[j] = Duties[j]
  BY DEF Duties, Owed
<1>2. Duties' = Duties
  BY <1>1 DEF Duties
<1> QED BY <1>2 DEF Live

LEMMA AppendImplements ==
    ASSUME Inv, NEW type \in Type, AppendEvent(type)
    PROVE  Contract!Persist(type)
<1>1. UNCHANGED <<Live, answered>>
  BY DEF AppendEvent, Live
<1>2. \A j \in Job : Duties'[j] =
         IF j[1] = Len(log) + 1 /\ j[2] \in Live /\ type \in Filter[j[2]]
         THEN "owed" ELSE Duties[j]
  BY DEF Inv, TypeOK, AppendEvent, EnqueueOutbox, Matching, Duties, Owed, Live, Job
<1>3. Duties' = [j \in Job |->
         IF j[1] = Len(log) + 1 /\ j[2] \in Live /\ type \in Filter[j[2]]
         THEN "owed" ELSE Duties[j]]
  BY <1>2 DEF Duties
<1>4. log' = Append(log, type)
  BY DEF AppendEvent
<1> QED BY <1>1, <1>3, <1>4 DEF Contract!Persist, Contract!Job, Job, Duties, Live

LEMMA EndpointImplements ==
    ASSUME Inv, NEW e \in Endpoint
    PROVE  /\ CreateEndpoint(e) => Contract!Register(e)
           /\ DeleteEndpoint(e) => Contract!Forget(e)
<1>1. ASSUME CreateEndpoint(e) PROVE Contract!Register(e)
  <2>1. Live' = Live \cup {e}
    BY <1>1 DEF CreateEndpoint, Live, Inv, TypeOK
  <2>2. UNCHANGED <<log, Duties, answered>>
    BY <1>1 DEF CreateEndpoint, Duties, Owed
  <2> QED BY <2>1, <2>2 DEF Contract!Register, Duties, Live
<1>2. ASSUME DeleteEndpoint(e) PROVE Contract!Forget(e)
  <2>1. Live' = Live \ {e}
    BY <1>2 DEF DeleteEndpoint, Live, Inv, TypeOK
  <2>2. \A j \in Job : Duties'[j] = IF j[2] = e THEN "none" ELSE Duties[j]
    BY <1>2 DEF DeleteEndpoint, Duties, Owed, Inv, TypeOK
  <2>3. Duties' = [j \in Job |-> IF j[2] = e THEN "none" ELSE Duties[j]]
    BY <2>2 DEF Duties
  <2>4. UNCHANGED <<log, answered>>
    BY <1>2 DEF DeleteEndpoint
  <2> QED BY <2>1, <2>3, <2>4
      DEF Contract!Forget, Contract!Job, Job, Duties, Live
<1> QED BY <1>1, <1>2

LEMMA PostImplements ==
    ASSUME Inv, NEW w \in Worker, NEW j \in Job, NEW result \in Result,
           Post(w, j, result)
    PROVE  \/ Contract!Acknowledge(j)
           \/ UNCHANGED <<log, Live, Duties, answered>>
<1>1. UNCHANGED <<log, endpoint, status>>
  BY DEF Post, database
<1>2. UNCHANGED <<log, Live, Duties>>
  BY <1>1 DEF Live, Duties, Owed
<1>3. j[1] <= Len(log)
  <2>1. ~ (j[1] > Len(log))
    BY DEF Post, Inv, FutureIsEmpty
  <2>2. Len(log) \in Nat
    BY DEF Inv, TypeOK
  <2> QED BY <2>1, <2>2, JobType
<1>4. answered' = [answered EXCEPT ![j] = TRUE] \/ answered' = answered
  BY DEF Post
<1> QED BY <1>2, <1>3, <1>4 DEF Contract!Acknowledge, Duties, Live

LEMMA RecordImplements ==
    ASSUME Inv, NEW w \in Worker, NEW j \in Job, RecordAttempt(w, j)
    PROVE  \/ Contract!Settle(j)
           \/ UNCHANGED <<log, Live, Duties, answered>>
<1> DEFINE outcome == Outcome(claimed[w][j], number[w][j])
<1>1. /\ outcome \in {"delivered", "retry", "failed"}
      /\ outcome = "delivered" => answered[j]
  <2>1. number[w][j] \in Nat /\ claimed[w][j] \in Result
    BY OutboxAssumption DEF Inv, TypeOK, RecordAttempt
  <2> QED BY <2>1, OutcomeOf DEF Inv, DeliveredIsAnswered
<1>2. UNCHANGED <<log, endpoint, answered>> /\ status[j] = "processing"
  BY DEF RecordAttempt, StillMine
<1>3. status' = [status EXCEPT ![j] = IF outcome = "retry" THEN "pending" ELSE outcome]
  BY DEF RecordAttempt
<1> HIDE DEF outcome
<1>4. CASE outcome = "retry"
  <2>1. \A i \in Job : status'[i] = status[i] \/ (Owed(i) /\ Owed(i)')
    BY <1>2, <1>3, <1>4 DEF Owed, Inv, TypeOK
  <2> QED BY <1>2, <2>1, QuietSteps
<1>5. CASE outcome # "retry"
  <2>1. \A i \in Job : Duties'[i] = IF i = j THEN outcome ELSE Duties[i]
    BY <1>1, <1>3, <1>5 DEF Duties, Owed, Inv, TypeOK
  <2>2. Duties' = [Duties EXCEPT ![j] = outcome]
    <3>1. Duties' = [i \in Job |-> Duties'[i]] BY DEF Duties
    <3>2. Duties = [i \in Job |-> Duties[i]] BY DEF Duties
    <3> HIDE DEF Duties
    <3> QED BY <2>1, <3>1, <3>2
  <2>3. Duties[j] = "owed"
    BY <1>2 DEF Duties, Owed
  <2>4. UNCHANGED <<log, Live, answered>>
    BY <1>2 DEF Live
  <2>5. (answered[j] /\ outcome = "delivered") \/ outcome = "failed"
    BY <1>1, <1>5
  <2> QED BY <2>2, <2>3, <2>4, <2>5 DEF Contract!Settle, Duties, Live
<1> QED BY <1>4, <1>5

LEMMA StepImplements ==
    Inv /\ [Next]_outbox => [Contract!Next]_<<log, Live, Duties, answered>>
<1> SUFFICES ASSUME Inv, [Next]_outbox
             PROVE  Contract!Next \/ UNCHANGED <<log, Live, Duties, answered>>
  OBVIOUS
<1>1. ASSUME NEW type \in Type, AppendEvent(type) PROVE Contract!Next
  BY <1>1, AppendImplements DEF Contract!Next
<1>2. ASSUME NEW e \in Endpoint, CreateEndpoint(e) \/ DeleteEndpoint(e)
      PROVE  Contract!Next
  BY <1>2, EndpointImplements DEF Contract!Next
<1>3. ASSUME NEW w \in Worker, NEW jobs \in SUBSET Job, Take(w, jobs),
             \A j \in jobs : Owed(j)
      PROVE  UNCHANGED <<log, Live, Duties, answered>>
  <2>1. \A j \in Job : status'[j] = status[j] \/ (Owed(j) /\ Owed(j)')
    BY <1>3 DEF Take, Owed, Inv, TypeOK
  <2> QED BY <1>3, <2>1, QuietSteps DEF Take
<1>4. ASSUME UNCHANGED <<database, answered>>
      PROVE  UNCHANGED <<log, Live, Duties, answered>>
  BY <1>4, QuietSteps DEF database
<1>5. ASSUME NEW w \in Worker, RunOnce(w)
      PROVE  Contract!Next \/ UNCHANGED <<log, Live, Duties, answered>>
  <2>1. ASSUME NEW jobs \in SUBSET {j \in Job : Due(j)}, ClaimReady(w, jobs)
        PROVE  UNCHANGED <<log, Live, Duties, answered>>
    <3>1. jobs \in SUBSET Job /\ \A j \in jobs : Owed(j)
      BY DEF Due, Owed
    <3> QED BY <1>3, <2>1, <3>1 DEF ClaimReady
  <2>2. ASSUME NEW j \in Job, NEW result \in Result, Post(w, j, result)
        PROVE  Contract!Next \/ UNCHANGED <<log, Live, Duties, answered>>
    BY <2>2, PostImplements DEF Contract!Next, Contract!Job, Job
  <2>3. ASSUME NEW j \in Job, RecordAttempt(w, j)
        PROVE  Contract!Next \/ UNCHANGED <<log, Live, Duties, answered>>
    BY <2>3, RecordImplements DEF Contract!Next, Contract!Job, Job
  <2>4. ASSUME NEW j \in Job, RecordNothing(w, j)
        PROVE  UNCHANGED <<log, Live, Duties, answered>>
    BY <1>4, <2>4 DEF RecordNothing
  <2> QED BY <1>5, <2>1, <2>2, <2>3, <2>4 DEF RunOnce
<1>6. ASSUME NEW w \in Worker, WorkerCrash(w)
      PROVE  UNCHANGED <<log, Live, Duties, answered>>
  BY <1>4, <1>6 DEF WorkerCrash
<1>7. ASSUME NEW w \in Worker, NEW j \in Job, ClaimFromStalled(w, j)
      PROVE  UNCHANGED <<log, Live, Duties, answered>>
  <2>1. {j} \in SUBSET Job /\ Take(w, {j}) /\ \A i \in {j} : Owed(i)
    BY <1>7 DEF ClaimFromStalled, Owed
  <2> QED BY <1>3, <2>1
<1>8. ASSUME NEW w \in Worker, NEW j \in Job, RecordFails(w, j)
      PROVE  UNCHANGED <<log, Live, Duties, answered>>
  BY <1>4, <1>8 DEF RecordFails
<1>9. CASE UNCHANGED outbox
  BY <1>4, <1>9 DEF outbox
<1> QED BY <1>1, <1>2, <1>5, <1>6, <1>7, <1>8, <1>9 DEF Next

(* The outbox implements the delivery contract, however its workers stall, *)
(* die and take over.                                                      *)
THEOREM OutboxKeepsContract == Spec => KeepsDeliveryContract
<1>1. Init => Contract!Init
  BY InitImplements
<1>2. Inv /\ [Next]_outbox => [Contract!Next]_<<log, Live, Duties, answered>>
  BY StepImplements
<1>3. Inv /\ [Next]_outbox
      => [Contract!Next]_<<log, {e \in Endpoint : endpoint[e] = "live"},
             [j \in Job |-> CASE status[j] = "absent" -> "none"
                              [] Owed(j) -> "owed"
                              [] OTHER -> status[j]], answered>>
  BY <1>2 DEF Live, Duties
<1> QED BY <1>1, <1>3, InvariantHolds, PTL DEF Spec, KeepsDeliveryContract, Contract!Spec
===============================================================================
