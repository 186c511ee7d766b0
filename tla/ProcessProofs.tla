----------------------------- MODULE ProcessProofs -----------------------------
(***************************************************************************)
(* Proofs about a process, HttpApi with what it extends, for every value   *)
(* of the constants: its requests, and the database that it opens.         *)
(***************************************************************************)
EXTENDS HttpApi, FiniteSetTheorems, TLAPS

(* The n-th request has gone past that step of its course.                 *)
Passed(k, step) ==
    \E n \in DOMAIN Course[Op] : Course[Op][n] = step /\ n < attempt[k].step

(* What the handler says of the request before any of its course.          *)
Refusal == Status(setup.request)

Attempt ==
    [at : {"idle", "in", "answered", "cut"}, step : 1..6, status : 0..599, after : BOOLEAN]

ApiTypes ==
    /\ setup \in Setup
    /\ attempt \in [Try -> Attempt]
    /\ made \subseteq Try /\ told \subseteq Try /\ keyed \in BOOLEAN /\ hurried \in BOOLEAN

(* Who has not been let in has done nothing.                               *)
Beginnings ==
    \A k \in Try :
        /\ attempt[k].at \in {"idle", "in", "cut"} => attempt[k].status = 0
        /\ attempt[k].at = "idle" \/ Refusal # 200 =>
               attempt[k].step = 1 /\ attempt[k].at \notin {"in", "cut"}

(* The effect, and the event, is that of the requests that are past it.    *)
EffectsArePassed ==
    /\ \A k \in Try : (k \in made <=> Passed(k, "do")) /\ (k \in told <=> Passed(k, "tell"))
    /\ keyed <=> \E k \in Try : Passed(k, "put")

(* What these have made is found without the key, by the thing itself.     *)
Kept == {"createManaged", "createWatched", "queueSend", "queueRefund"}

(* A repeat has not come, and will not come, past the step that answers it.*)
Repeated(k) ==
    /\ ~ Passed(k, "do")
    /\ IF Op \in Kept THEN made # {} /\ ~ Passed(k, "find")
                       ELSE keyed /\ ~ Passed(k, "look")
    /\ Refusal = 200
    /\ Answered(k) => attempt[k].status = 200 \/ (attempt[k].status = 500 /\ stops > 0)

RepeatsAreRepeated == \A k \in Try : attempt[k].after => Repeated(k)

(* The second request is sent because of something, or the first one was   *)
(* refused at once.                                                        *)
SecondHasReason ==
    attempt[2].at # "idle" =>
        \/ Interrupted \/ attempt[2].after
        \/ attempt[1].at = "answered" /\ attempt[1].step = 1

AnswersAreKnown ==
    \A k \in Try : Answered(k) =>
        \/ attempt[k].status = 200 /\ made # {} /\ (keyed \/ Op \in Kept)
        \/ attempt[k].status = 500
        \/ attempt[k].status = Refusal /\ Refusal # 200
        \/ attempt[k].status = Again(Op) /\ Interrupted /\ made # {}

RequestInv ==
    /\ Beginnings /\ EffectsArePassed /\ RepeatsAreRepeated
    /\ SecondHasReason /\ AnswersAreKnown

(* Only who serves closes, and a signal closes it.                         *)
SignalInv ==
    /\ DOMAIN pc = Process /\ stops \in Nat
    /\ \A p \in Process : pc[p] = "closing" => stops > 0
    /\ \A p \in Process : p \notin setup.processes => pc[p] = "down"

(* Only a mutation is under way beyond its first step.                     *)
ApiIInv ==
    /\ ApiTypes /\ SignalInv
    /\ Mutates => RequestInv
    /\ ~ Mutates => \A k \in Try : ~ InFlight(k)

-------------------------------------------------------------------------------
(* The courses                                                             *)

(* What the course of a mutation is like, whichever it is: one effect,     *)
(* before the key and the event; and before it the step at which a repeat  *)
(* is answered.                                                            *)
Orderly(c) ==
    /\ DOMAIN c \subseteq 1..5 /\ \E l \in 1..5 : DOMAIN c = 1..l
    /\ \A m, n \in DOMAIN c : c[m] = c[n] => m = n
    /\ \E n \in DOMAIN c : c[n] = "do"
    /\ \E n \in DOMAIN c : c[n] = "put"
    /\ \A m, n \in DOMAIN c : c[m] \in {"put", "tell"} /\ c[n] = "do" => n < m
    /\ \A m, n \in DOMAIN c : c[m] \in {"look", "find", "check"} /\ c[n] = "do" => m < n
    /\ \A m, n \in DOMAIN c : c[m] = "look" /\ c[n] = "check" => m < n

Begins(c, step) == \E n \in DOMAIN c : c[n] = step
Finds(op, c) == op = "queueRefund" \/ Begins(c, "find")
Looks(c)     == Begins(c, "look") /\ ~ Begins(c, "find")

LEMMA Courses ==
    ASSUME NEW op \in DOMAIN Course
    PROVE  /\ Orderly(Course[op])
           /\ op \in Kept => Finds(op, Course[op]) /\ op \notin Repeatable
                                 /\ ~ Begins(Course[op], "check")
           /\ op \notin Kept => Looks(Course[op])
           /\ op \in {"queueSend", "queueRefund"} <=> Again(op) = 200
           /\ op = "queueRefund" => ~ Begins(Course[op], "find")
<1>a. op \in {"queueSend", "queueRefund"} <=> Again(op) = 200 BY DEF Again
<1>1. CASE op \in {"createManaged", "createWatched"}
  <2>1. Course[op] = <<"look", "find", "do", "tell", "put">>
    BY <1>1 DEF Course, createManagedAccount, createWatchedAccount
  <2>2. Orderly(Course[op]) BY <2>1 DEF Orderly
  <2>3. op \in Kept /\ op \notin Repeatable BY <1>1 DEF Kept, Repeatable
  <2>4. Finds(op, Course[op]) /\ ~ Begins(Course[op], "check")
    BY <1>1, <2>1 DEF Finds, Begins
  <2>5. op = "queueRefund" => ~ Begins(Course[op], "find") BY <1>1, <2>1 DEF Begins
  <2> QED BY <1>a, <2>2, <2>3, <2>4, <2>5
<1>2. CASE op \in {"updateAccount", "createWebhook", "deleteWebhook"}
  <2>1. Course[op] = <<"look", "do", "put">>
    BY <1>2 DEF Course, updateAccount, createWebhookEndpoint, deleteWebhookEndpoint
  <2>2. Orderly(Course[op]) BY <2>1 DEF Orderly
  <2>3. op \notin Kept /\ op # "queueRefund" BY <1>2 DEF Kept
  <2>4. Looks(Course[op]) BY <2>1 DEF Looks, Begins
  <2> QED BY <1>a, <2>2, <2>3, <2>4
<1>3. CASE op = "deleteAccount"
  <2>1. Course[op] = <<"look", "check", "do", "tell", "put">>
    BY <1>3 DEF Course, deleteAccount
  <2>2. Orderly(Course[op]) BY <2>1 DEF Orderly
  <2>3. op \notin Kept /\ op # "queueRefund" BY <1>3 DEF Kept
  <2>4. Looks(Course[op]) BY <2>1 DEF Looks, Begins
  <2> QED BY <1>a, <2>2, <2>3, <2>4
<1>4. CASE op = "queueSend"
  <2>1. Course[op] = <<"find", "look", "do", "put", "tell">>
    BY <1>4 DEF Course, queueSend
  <2>2. Orderly(Course[op]) BY <2>1 DEF Orderly
  <2>3. op \in Kept /\ op \notin Repeatable BY <1>4 DEF Kept, Repeatable
  <2>4. Finds(op, Course[op]) /\ ~ Begins(Course[op], "check")
    BY <1>4, <2>1 DEF Finds, Begins
  <2>5. op = "queueRefund" => ~ Begins(Course[op], "find") BY <1>4, <2>1 DEF Begins
  <2> QED BY <1>a, <2>2, <2>3, <2>4, <2>5
<1>5. CASE op = "queueRefund"
  <2>1. Course[op] = <<"do", "put", "tell">>
    BY <1>5 DEF Course, queueRefund
  <2>2. Orderly(Course[op]) BY <2>1 DEF Orderly
  <2>3. op \in Kept /\ op \notin Repeatable BY <1>5 DEF Kept, Repeatable
  <2>4. Finds(op, Course[op]) /\ ~ Begins(Course[op], "check")
    BY <1>5, <2>1 DEF Finds, Begins
  <2>5. op = "queueRefund" => ~ Begins(Course[op], "find") BY <1>5, <2>1 DEF Begins
  <2> QED BY <1>a, <2>2, <2>3, <2>4, <2>5
<1>6. CASE op = "publishBlock"
  <2>1. Course[op] = <<"look", "do", "put", "tell">>
    BY <1>6 DEF Course, publishBlock
  <2>2. Orderly(Course[op]) BY <2>1 DEF Orderly
  <2>3. op \notin Kept /\ op # "queueRefund" BY <1>6 DEF Kept
  <2>4. Looks(Course[op]) BY <2>1 DEF Looks, Begins
  <2> QED BY <1>a, <2>2, <2>3, <2>4
<1>7. CASE op = "cancelInvoice"
  <2>1. Course[op] = <<"look", "check", "do", "put", "tell">>
    BY <1>7 DEF Course, cancelInvoice
  <2>2. Orderly(Course[op]) BY <2>1 DEF Orderly
  <2>3. op \notin Kept /\ op # "queueRefund" BY <1>7 DEF Kept
  <2>4. Looks(Course[op]) BY <2>1 DEF Looks, Begins
  <2> QED BY <1>a, <2>2, <2>3, <2>4
<1> QED BY <1>1, <1>2, <1>3, <1>4, <1>5, <1>6, <1>7 DEF Course

-------------------------------------------------------------------------------
(* What the process does beside the request                                *)

LEMMA SetupStays ==
    ASSUME Next
    PROVE  setup' = setup
<1>1. CASE \E p \in Process : Lifecycle(p)
  BY <1>1 DEF Lifecycle, GoesOn, Starting, Begin, Closes, Launch, Migrating, OpenDatabase,
     CreateMetadata, InsertVersion, CreateLedger, SelectMigration, ApplyMigration,
     OpenCustody, StartRuntime, Listen, Signal, ServerClosed, StartAgain, Crash
<1>2. CASE \/ \E s \in Stream : Connect(s) \/ Leave(s) \/ Subscribe(s)
           \/ \E s \in Stream, a \in Address : Watch(s, a) \/ Unwatch(s, a)
           \/ \E a \in Address : Grow(a) \/ CreateAccount(a)
  BY <1>2 DEF Connect, Leave, Subscribe, Watch, Unwatch, Grow, CreateAccount, daemon
<1>3. CASE Syncing
  BY <1>3 DEF Syncing, RestoreAccount, CacheSend, AnswerAdd, FinishAdd, Reconcile,
     AskNode, StoreInfo, BackoffEnds, daemon
<1> QED BY <1>1, <1>2, <1>3 DEF Next
-------------------------------------------------------------------------------
(* The routes                                                              *)

(* What a route asks for is refused with the status of an error, and that  *)
(* accounts are synchronised is asked only where nothing is changed.       *)
Refusing(needs) ==
    DOMAIN needs \subseteq Nat /\ \A n \in DOMAIN needs : needs[n].status \in 400..599

Unsynced(needs) == Refusing(needs) /\ \A n \in DOMAIN needs : needs[n].what # "synced"

(* What the routes that change something ask for, and what the routes that *)
(* only read ask for.                                                      *)
Changing ==
    {<<>>,
     <<Found>>,
     <<Key, Found>>,
     <<Key, Json, Found>>,
     <<Json, Body, Key>>,
     <<Custodial, Json, Body, Key>>,
     <<Json, Key, Need("type", 400), Body>>,
     <<Json, Key, Need("type", 400), Custodial, Body>>,
     <<Key, Found, Need("empty", 409), Need("sendless", 409)>>,
     <<Custodial, Json, Body, Key, Found, Need("managed", 409)>>,
     <<Key, Json, Body, Need("custodial", 400), Found, Need("source", 409),
           Need("remainder", 409)>>,
     <<Json, Body, Key, Need("work", 422)>>,
     <<Key, Found, Need("open", 409)>>}

Reading ==
    {<<>>,
     <<Found>>,
     <<Found, StreamId>>,
     <<Found, Node>>,
     <<Json, Body, Node>>,
     <<Need("accountKey", 400), Found>>,
     <<Need("route", 404)>>,
     <<Need("route", 400)>>,
     <<Ready("deposits"), Ready("storage")>>,
     <<Ready("node"), Ready("synced"), Ready("storage")>>}

LEMMA Needs == /\ \A n \in Changing : Unsynced(n)
               /\ \A n \in Reading : Refusing(n)
<1>1. ASSUME NEW n \in Changing PROVE Unsynced(n)
  <2>1. CASE n = <<>>
    BY <2>1 DEF Unsynced, Refusing, Need, Key, Json, Body, Found, Custodial
  <2>2. CASE n = <<Found>>
    BY <2>2 DEF Unsynced, Refusing, Need, Key, Json, Body, Found, Custodial
  <2>3. CASE n = <<Key, Found>>
    BY <2>3 DEF Unsynced, Refusing, Need, Key, Json, Body, Found, Custodial
  <2>4. CASE n = <<Key, Json, Found>>
    BY <2>4 DEF Unsynced, Refusing, Need, Key, Json, Body, Found, Custodial
  <2>5. CASE n = <<Json, Body, Key>>
    BY <2>5 DEF Unsynced, Refusing, Need, Key, Json, Body, Found, Custodial
  <2>6. CASE n = <<Custodial, Json, Body, Key>>
    BY <2>6 DEF Unsynced, Refusing, Need, Key, Json, Body, Found, Custodial
  <2>7. CASE n = <<Json, Key, Need("type", 400), Body>>
    BY <2>7 DEF Unsynced, Refusing, Need, Key, Json, Body, Found, Custodial
  <2>8. CASE n = <<Json, Key, Need("type", 400), Custodial, Body>>
    BY <2>8 DEF Unsynced, Refusing, Need, Key, Json, Body, Found, Custodial
  <2>9. CASE n = <<Key, Found, Need("empty", 409), Need("sendless", 409)>>
    BY <2>9 DEF Unsynced, Refusing, Need, Key, Json, Body, Found, Custodial
  <2>10. CASE n = <<Custodial, Json, Body, Key, Found, Need("managed", 409)>>
    BY <2>10 DEF Unsynced, Refusing, Need, Key, Json, Body, Found, Custodial
  <2>11. CASE n = <<Key, Json, Body, Need("custodial", 400), Found, Need("source", 409),
           Need("remainder", 409)>>
    BY <2>11 DEF Unsynced, Refusing, Need, Key, Json, Body, Found, Custodial
  <2>12. CASE n = <<Json, Body, Key, Need("work", 422)>>
    BY <2>12 DEF Unsynced, Refusing, Need, Key, Json, Body, Found, Custodial
  <2>13. CASE n = <<Key, Found, Need("open", 409)>>
    BY <2>13 DEF Unsynced, Refusing, Need, Key, Json, Body, Found, Custodial
  <2> QED BY <2>1, <2>2, <2>3, <2>4, <2>5, <2>6, <2>7,
            <2>8, <2>9, <2>10, <2>11, <2>12, <2>13, <1>1 DEF Changing
<1>2. ASSUME NEW n \in Reading PROVE Refusing(n)
  <2>1. CASE n = <<>>
    BY <2>1 DEF Refusing, Need, Found, StreamId, Node, Ready, Json, Body
  <2>2. CASE n = <<Found>>
    BY <2>2 DEF Refusing, Need, Found, StreamId, Node, Ready, Json, Body
  <2>3. CASE n = <<Found, StreamId>>
    BY <2>3 DEF Refusing, Need, Found, StreamId, Node, Ready, Json, Body
  <2>4. CASE n = <<Found, Node>>
    BY <2>4 DEF Refusing, Need, Found, StreamId, Node, Ready, Json, Body
  <2>5. CASE n = <<Json, Body, Node>>
    BY <2>5 DEF Refusing, Need, Found, StreamId, Node, Ready, Json, Body
  <2>6. CASE n = <<Need("accountKey", 400), Found>>
    BY <2>6 DEF Refusing, Need, Found, StreamId, Node, Ready, Json, Body
  <2>7. CASE n = <<Need("route", 404)>>
    BY <2>7 DEF Refusing, Need, Found, StreamId, Node, Ready, Json, Body
  <2>8. CASE n = <<Need("route", 400)>>
    BY <2>8 DEF Refusing, Need, Found, StreamId, Node, Ready, Json, Body
  <2>9. CASE n = <<Ready("deposits"), Ready("storage")>>
    BY <2>9 DEF Refusing, Need, Found, StreamId, Node, Ready, Json, Body
  <2>10. CASE n = <<Ready("node"), Ready("synced"), Ready("storage")>>
    BY <2>10 DEF Refusing, Need, Found, StreamId, Node, Ready, Json, Body
  <2> QED BY <2>1, <2>2, <2>3, <2>4, <2>5, <2>6, <2>7, <2>8, <2>9, <2>10, <1>2
         DEF Reading
<1> QED BY <1>1, <1>2

LEMMA ReadRoutes ==
    ASSUME NEW r \in PublicRoutes \cup StreamRoutes \cup EventRoutes \cup InvoiceAccountRoutes
                         \cup OtherRoutes
    PROVE  r.op \notin DOMAIN Course /\ Refusing(r.needs)
<1>1. r.op \notin DOMAIN Course
  BY DEF Course, PublicRoutes, StreamRoutes, EventRoutes, InvoiceAccountRoutes,
     OtherRoutes, R
<1>2. r.needs \in Reading
  BY DEF PublicRoutes, StreamRoutes, EventRoutes, InvoiceAccountRoutes, OtherRoutes, R,
     Reading
<1> QED BY <1>1, <1>2, Needs

(* A route that changes something asks for nothing that comes and goes.    *)
Changes(r) ==
    /\ Refusing(r.needs)
    /\ r.op \in DOMAIN Course => Unsynced(r.needs)

LEMMA ChangingRoutes ==
    ASSUME NEW r \in AccountRoutes \cup SendRoutes \cup RefundRoutes \cup BlockRoutes
                         \cup InvoiceRoutes \cup WebhookRoutes
    PROVE  Changes(r)
<1> DEFINE Fits == \/ r.needs \in Changing
                   \/ r.op = "read" /\ r.needs \in Reading
<1>1. ASSUME r \in AccountRoutes PROVE Fits
  BY <1>1 DEF AccountRoutes, R, Changing, Reading
<1>2. ASSUME r \in SendRoutes PROVE Fits
  BY <1>2 DEF SendRoutes, R, Changing, Reading
<1>3. ASSUME r \in RefundRoutes PROVE Fits
  BY <1>3 DEF RefundRoutes, R, Changing, Reading
<1>4. ASSUME r \in BlockRoutes PROVE Fits
  BY <1>4 DEF BlockRoutes, R, Changing, Reading
<1>5. ASSUME r \in InvoiceRoutes PROVE Fits
  BY <1>5 DEF InvoiceRoutes, R, Changing, Reading
<1>6. ASSUME r \in WebhookRoutes PROVE Fits
  BY <1>6 DEF WebhookRoutes, R, Changing, Reading
<1>7. Fits BY <1>1, <1>2, <1>3, <1>4, <1>5, <1>6
<1>8. Unsynced(r.needs) => Changes(r) BY DEF Changes, Unsynced
<1>9. r.op = "read" /\ Refusing(r.needs) => Changes(r) BY DEF Changes, Course
<1> QED BY <1>7, <1>8, <1>9, Needs

LEMMA RoutesAsk == ASSUME NEW r \in Routes PROVE Changes(r)
BY ReadRoutes, ChangingRoutes DEF Routes, Changes

LEMMA FirstOf ==
    ASSUME NEW S, S \subseteq Nat, S # {}
    PROVE  \E n \in S : \A m \in S : n <= m
<1>1. PICK n \in S : \A m \in S : ~ (<<m, n>> \in OpToRel(<, Nat))
  BY NatLessThanWellFounded, WFMin, Zenon
<1>2. \A m \in S : ~ (m < n) BY <1>1 DEF OpToRel
<1> QED BY <1>2

(* What a request is refused with is an error's status, if it is refused.  *)
LEMMA RefusalType ==
    ASSUME ApiTypes, setup.tries > 0
    PROVE  Refusal \in {200} \cup 400..599
<1>q. PICK q : q = setup.request OBVIOUS
<1> DEFINE needs == q.route.needs
           First == CHOOSE n \in Lacks(q) : \A m \in Lacks(q) : n <= m
<1>1. Refusing(needs)
  <2>1. q.route \in Routes BY <1>q, ApiAssumption DEF ApiTypes
  <2> QED BY <2>1, RoutesAsk DEF Changes
<1>2. ASSUME Lacks(q) # {} PROVE needs[First].status \in 400..599
  <2>1. Lacks(q) \subseteq DOMAIN needs BY DEF Lacks
  <2>2. \E n \in Lacks(q) : \A m \in Lacks(q) : n <= m
    BY <1>1, <1>2, <2>1, FirstOf DEF Refusing
  <2>3. First \in Lacks(q) BY <2>2
  <2> QED BY <1>1, <2>1, <2>3 DEF Refusing
<1>3. Refusal = Status(q) BY <1>q DEF Refusal
<1>4. Status(q) = IF ~ q.bearer /\ ~ Exempt(setup.config, q.route) THEN 401
                  ELSE IF Lacks(q) = {} THEN 200 ELSE needs[First].status
  BY DEF Status
<1> HIDE DEF First
<1>5. CASE ~ q.bearer /\ ~ Exempt(setup.config, q.route)
  <2>1. Refusal = 401 BY <1>3, <1>4, <1>5, Zenon
  <2> QED BY <2>1
<1>6. CASE ~ (~ q.bearer /\ ~ Exempt(setup.config, q.route))
  <2>1. Refusal = IF Lacks(q) = {} THEN 200 ELSE needs[First].status
    BY <1>3, <1>4, <1>6, Zenon
  <2>2. CASE Lacks(q) = {}
    <3>1. Refusal = 200 BY <2>1, <2>2, Zenon
    <3> QED BY <3>1
  <2>3. CASE Lacks(q) # {}
    <3>1. Refusal = needs[First].status BY <2>1, <2>3, Zenon
    <3> QED BY <1>2, <2>3, <3>1, Zenon
  <2> QED BY <2>2, <2>3
<1> QED BY <1>5, <1>6

(* What a mutation is refused with does not change.                        *)
LEMMA RefusalStays ==
    ASSUME ApiTypes, Mutates, setup' = setup
    PROVE  Refusal' = Refusal
<1>q. PICK q : q = setup.request OBVIOUS
<1> DEFINE needs == q.route.needs
<1>1. /\ q.route \in Routes /\ q.route.op \in DOMAIN Course
  BY <1>q, ApiAssumption DEF ApiTypes, Mutates
<1>2. \A n \in DOMAIN needs : needs[n].what # "synced"
  BY <1>1, RoutesAsk DEF Changes, Unsynced
<1>3. \A what : what # "synced" => (what \in Provided' <=> what \in Provided)
  BY DEF Provided
<1>4. \A n \in DOMAIN needs : (needs[n].what \notin q.has \cup Provided)'
                                  <=> needs[n].what \notin q.has \cup Provided
  BY <1>2, <1>3
<1>5. Lacks(q)' = Lacks(q) BY <1>4 DEF Lacks
<1>6. Status(q)' = Status(q) BY <1>5 DEF Status, Exempt
<1>7. Refusal' = Status(q)' BY <1>q DEF Refusal, Status, Exempt, Lacks
<1> QED BY <1>q, <1>6, <1>7 DEF Refusal

-------------------------------------------------------------------------------
(* A request goes on, or is answered                                       *)

LEMMA AgainType == Again(Op) \in {200, 404, 409, 500}
BY DEF Again

LEMMA SameSteps ==
    ASSUME setup' = setup, NEW k \in Try, attempt'[k].step = attempt[k].step, NEW x
    PROVE  Passed(k, x)' <=> Passed(k, x)
BY DEF Passed, Op

(* One more step is behind the request.                                    *)
LEMMA OneStepMore ==
    ASSUME ApiTypes, Mutates, setup' = setup, NEW k \in Try, NEW step,
           InStep(k, step), GoesOnWith(k)
    PROVE  /\ attempt' \in [Try -> Attempt]
           /\ \A j \in Try : /\ attempt'[j].at = attempt[j].at
                             /\ attempt'[j].status = attempt[j].status
                             /\ attempt'[j].after = attempt[j].after
                             /\ j # k => attempt'[j].step = attempt[j].step
           /\ \A j \in Try : \A x :
                  Passed(j, x)' <=> Passed(j, x) \/ (j = k /\ x = step)
           /\ ~ Passed(k, step)
<1>1. PICK old : old = attempt[k] OBVIOUS
<1>2. PICK c : c = Course[Op] OBVIOUS
<1>3. /\ attempt \in [Try -> Attempt] /\ old \in Attempt
  BY <1>1 DEF ApiTypes
<1>4. /\ DOMAIN c \subseteq 1..5 /\ \A m, n \in DOMAIN c : c[m] = c[n] => m = n
  BY <1>2, Courses DEF Mutates, Op, Orderly
<1>5. old.step \in DOMAIN c /\ c[old.step] = step /\ old.at = "in"
  BY <1>1, <1>2 DEF InStep, InFlight
<1>6. PICK new : new = [old EXCEPT !.step = @ + 1] OBVIOUS
<1>7. /\ new \in Attempt /\ new.step = old.step + 1 /\ new.at = old.at
      /\ new.status = old.status /\ new.after = old.after
  BY <1>3, <1>4, <1>5, <1>6 DEF Attempt
<1>8. attempt' = [attempt EXCEPT ![k] = new]
  BY <1>1, <1>6 DEF GoesOnWith, Becomes
<1>9. attempt' \in [Try -> Attempt] /\ \A j \in Try : attempt'[j] = IF j = k THEN new ELSE attempt[j]
  BY <1>3, <1>7, <1>8
<1>10. ASSUME NEW j \in Try, NEW x
       PROVE  Passed(j, x)' <=> Passed(j, x) \/ (j = k /\ x = step)
  <2>1. CASE j # k BY <1>9, <2>1, SameSteps
  <2>2. CASE j = k
    <3>1. Passed(j, x)' <=> \E n \in DOMAIN c : c[n] = x /\ n < old.step + 1
      BY <1>2, <1>7, <1>9, <2>2 DEF Passed, Op
    <3>2. Passed(j, x) <=> \E n \in DOMAIN c : c[n] = x /\ n < old.step
      BY <1>1, <1>2, <2>2 DEF Passed
    <3>3. old.step \in Nat /\ \A n \in DOMAIN c : n \in Nat BY <1>4, <1>5
    <3>4. \A n \in DOMAIN c : n < old.step + 1 <=> n < old.step \/ n = old.step BY <3>3
    <3> QED BY <1>5, <2>2, <3>1, <3>2, <3>4
  <2> QED BY <2>1, <2>2
<1>11. ~ Passed(k, step)
  <2>1. old.step \in Nat BY <1>4, <1>5
  <2>2. ~ old.step < old.step BY <2>1
  <2> QED BY <1>1, <1>2, <1>4, <1>5, <2>2 DEF Passed
<1>12. \A j \in Try : /\ attempt'[j].at = attempt[j].at
                      /\ attempt'[j].status = attempt[j].status
                      /\ attempt'[j].after = attempt[j].after
                      /\ j # k => attempt'[j].step = attempt[j].step
  BY <1>1, <1>7, <1>9
<1> QED BY <1>9, <1>10, <1>11, <1>12

(* Whoever is past a step of its course has been let in.                   *)
LEMMA PassedIsIn ==
    ASSUME ApiIInv, Mutates, NEW k \in Try, NEW step, Passed(k, step)
    PROVE  attempt[k].step > 1 /\ attempt[k].at # "idle" /\ Refusal = 200
<1>1. PICK n \in DOMAIN Course[Op] : n < attempt[k].step BY DEF Passed
<1>2. n \in 1..5 BY <1>1, Courses DEF Mutates, Op, Orderly
<1>3. attempt[k].step \in 1..6 BY DEF ApiIInv, ApiTypes, Attempt
<1>4. attempt[k].step > 1 /\ attempt[k].step # 1 BY <1>1, <1>2, <1>3
<1> QED BY <1>4 DEF ApiIInv, RequestInv, Beginnings

(* Where there is an effect, or a key, the request has been let in.        *)
LEMMA MadeIsIn ==
    ASSUME ApiIInv, Mutates
    PROVE  /\ made # {} => Refusal = 200
           /\ keyed => made # {}
<1>1. made # {} => Refusal = 200
  <2> SUFFICES ASSUME made # {} PROVE Refusal = 200 OBVIOUS
  <2>1. PICK j \in Try : Passed(j, "do")
    BY DEF ApiIInv, ApiTypes, RequestInv, EffectsArePassed
  <2> QED BY <2>1, PassedIsIn
<1>2. keyed => made # {}
  <2> SUFFICES ASSUME keyed PROVE made # {} OBVIOUS
  <2>1. PICK j \in Try : Passed(j, "put") BY DEF ApiIInv, RequestInv, EffectsArePassed
  <2>2. PICK c : c = Course[Op] OBVIOUS
  <2>3. Orderly(c) BY <2>2, Courses DEF Mutates, Op
  <2>4. PICK m \in DOMAIN c : c[m] = "put" /\ m < attempt[j].step
    BY <2>1, <2>2 DEF Passed
  <2>5. PICK n \in DOMAIN c : c[n] = "do" /\ n < m BY <2>3, <2>4 DEF Orderly
  <2>6. m \in 1..5 /\ n \in 1..5 /\ attempt[j].step \in 1..6
    BY <2>3 DEF Orderly, ApiIInv, ApiTypes, Attempt
  <2>7. Passed(j, "do") BY <2>2, <2>4, <2>5, <2>6 DEF Passed
  <2> QED BY <2>7 DEF ApiIInv, RequestInv, EffectsArePassed
<1> QED BY <1>1, <1>2

(* Who comes to the effect after it has been made overtakes, or is         *)
(* overtaken, or comes again.                                              *)
LEMMA Overtaken ==
    ASSUME ApiIInv, Mutates, NEW k \in Try, InFlight(k), made # {}, ~ Passed(k, "do")
    PROVE  Interrupted \/ attempt[k].after
<1>1. PICK j \in Try : Passed(j, "do")
  BY DEF ApiIInv, ApiTypes, RequestInv, EffectsArePassed
<1>2. j # k BY <1>1
<1>3. attempt[j].step # 1 /\ attempt[j].at # "idle"
  <2>1. attempt[j].step > 1 /\ attempt[j].at # "idle" BY <1>1, PassedIsIn
  <2>2. attempt[j].step \in 1..6 BY DEF ApiIInv, ApiTypes, Attempt
  <2> QED BY <2>1, <2>2
<1>4. (j = 1 /\ k = 2) \/ (j = 2 /\ k = 1) BY <1>2 DEF Try, MaxTries
<1>5. attempt[2].at # "idle" BY <1>3, <1>4 DEF InFlight
<1>6. \/ Interrupted \/ attempt[2].after
      \/ attempt[1].at = "answered" /\ attempt[1].step = 1
  BY <1>5 DEF ApiIInv, RequestInv, SecondHasReason
<1>7. j = 2 => ~ attempt[2].after
  BY <1>1 DEF ApiIInv, RequestInv, RepeatsAreRepeated, Repeated
<1> QED BY <1>3, <1>4, <1>6, <1>7 DEF InFlight

(* The step a request is in, and those before it.                          *)
LEMMA StepsBefore ==
    ASSUME ApiIInv, Mutates, NEW k \in Try, NEW step, InStep(k, step)
    PROVE  /\ \A n \in DOMAIN Course[Op] :
                  (\A m \in DOMAIN Course[Op] : Course[Op][m] = step => n < m)
                      => Passed(k, Course[Op][n])
           /\ step \in {"put", "tell"} => Passed(k, "do")
           /\ step \in {"look", "find", "check", "do"} => ~ Passed(k, "do")
<1>1. PICK c : c = Course[Op] OBVIOUS
<1>2. Orderly(c) BY <1>1, Courses DEF Mutates, Op
<1>3. PICK now : now = attempt[k].step OBVIOUS
<1>4. now \in DOMAIN c /\ c[now] = step BY <1>1, <1>3 DEF InStep
<1>5. /\ \A n \in DOMAIN c :
             (\A m \in DOMAIN c : c[m] = step => n < m) => Passed(k, c[n])
  BY <1>1, <1>3, <1>4 DEF Passed
<1>6. step \in {"put", "tell"} => Passed(k, "do")
  <2>1. PICK n \in DOMAIN c : c[n] = "do" BY <1>2 DEF Orderly
  <2> QED BY <1>2, <1>5, <2>1 DEF Orderly
<1>7. step \in {"look", "find", "check", "do"} => ~ Passed(k, "do")
  <2> SUFFICES ASSUME step \in {"look", "find", "check", "do"}, Passed(k, "do") PROVE FALSE
    OBVIOUS
  <2>1. PICK n \in DOMAIN c : c[n] = "do" /\ n < now BY <1>1, <1>3 DEF Passed
  <2>2. now < n \/ now = n BY <1>2, <1>4, <2>1 DEF Orderly
  <2>3. now \in 1..5 /\ n \in 1..5 BY <1>2, <1>4 DEF Orderly
  <2> QED BY <2>1, <2>2, <2>3
<1> QED BY <1>1, <1>5, <1>6, <1>7

(* Where a repeat can be.                                                  *)
LEMMA RepeatIsAt ==
    ASSUME ApiIInv, Mutates, NEW k \in Try, attempt[k].after,
           NEW step \in {"look", "find", "check", "do", "put", "tell"}, InStep(k, step)
    PROVE  /\ made # {}
           /\ \/ step = "look" /\ (keyed \/ Op \in Kept)
              \/ step = "find"
              \/ step = "do" /\ Op = "queueRefund" /\ Op \notin Repeatable
<1>1. PICK c : c = Course[Op] OBVIOUS
<1>2. /\ Orderly(c)
      /\ Op \in Kept => Finds(Op, c) /\ Op \notin Repeatable /\ ~ Begins(c, "check")
      /\ Op \notin Kept => Looks(c)
  BY <1>1, Courses DEF Mutates, Op
<1>3. Repeated(k) BY DEF ApiIInv, RequestInv, RepeatsAreRepeated
<1>4. made # {} BY <1>3, MadeIsIn DEF Repeated
<1>5. \A x : InStep(k, x) => Begins(c, x) BY <1>1 DEF InStep, Begins
<1>6. step \notin {"put", "tell"} BY <1>3, StepsBefore DEF Repeated
<1>7. CASE Op \notin Kept
  <2>1. Begins(c, "look") /\ ~ Begins(c, "find") /\ keyed /\ ~ Passed(k, "look")
    BY <1>2, <1>3, <1>7 DEF Looks, Repeated
  <2>2. PICK n \in DOMAIN c : c[n] = "look" BY <2>1 DEF Begins
  <2>3. ASSUME step \in {"check", "do"} PROVE FALSE
    <3>1. \A m \in DOMAIN c : c[m] = step => n < m BY <1>2, <2>2, <2>3 DEF Orderly
    <3>2. Passed(k, "look") BY <1>1, <2>2, <3>1, StepsBefore
    <3> QED BY <2>1, <3>2
  <2> QED BY <1>4, <1>6, <2>1, <2>3
<1>8. CASE Op \in Kept
  <2>1. ~ Passed(k, "find") /\ Finds(Op, c) /\ Op \notin Repeatable /\ step # "check"
    BY <1>2, <1>3, <1>5, <1>8 DEF Repeated
  <2>2. ASSUME step = "do", Op # "queueRefund" PROVE FALSE
    <3>1. PICK n \in DOMAIN c : c[n] = "find" BY <2>1, <2>2 DEF Finds, Begins
    <3>2. \A m \in DOMAIN c : c[m] = step => n < m BY <1>2, <2>2, <3>1 DEF Orderly
    <3>3. Passed(k, "find") BY <1>1, <3>1, <3>2, StepsBefore
    <3> QED BY <2>1, <3>3
  <2> QED BY <1>4, <1>6, <1>8, <2>1, <2>2
<1> QED BY <1>7, <1>8

(* A step of the course: what it makes, tells and puts is its own.         *)
LEMMA GoesOnHolds ==
    ASSUME ApiIInv, Mutates, UNCHANGED <<setup, pc, stops, hurried>>, NEW k \in Try,
           NEW step \in {"look", "find", "check", "do", "put", "tell"},
           InStep(k, step), GoesOnWith(k),
           made' = IF step = "do" THEN made \cup {k} ELSE made,
           told' = IF step = "tell" THEN told \cup {k} ELSE told,
           keyed' = IF step = "put" THEN TRUE ELSE keyed,
           attempt[k].after => step = "look" /\ Op \in Kept
    PROVE  ApiIInv'
<1>t. /\ attempt \in [Try -> Attempt] /\ made \subseteq Try /\ told \subseteq Try
      /\ keyed \in BOOLEAN /\ hurried \in BOOLEAN /\ setup \in Setup
  BY DEF ApiIInv, ApiTypes
<1>1. /\ attempt' \in [Try -> Attempt]
      /\ \A j \in Try : /\ attempt'[j].at = attempt[j].at
                        /\ attempt'[j].status = attempt[j].status
                        /\ attempt'[j].after = attempt[j].after
                        /\ j # k => attempt'[j].step = attempt[j].step
      /\ \A j \in Try : \A x : Passed(j, x)' <=> Passed(j, x) \/ (j = k /\ x = step)
  BY OneStepMore DEF ApiIInv
<1>2. Mutates' /\ Refusal' = Refusal BY RefusalStays DEF ApiIInv, Mutates
<1>3. attempt[k].at = "in" BY DEF InStep, InFlight
<1>m. (made # {} => made' # {}) /\ (keyed => keyed') OBVIOUS
<1>o. Op' = Op /\ Again(Op)' = Again(Op) BY DEF Again, Op
<1>4. ApiTypes'
  <2>1. made' \subseteq Try /\ told' \subseteq Try /\ keyed' \in BOOLEAN BY <1>t
  <2> QED BY <1>t, <1>1, <2>1 DEF ApiTypes
<1>5. Beginnings' BY <1>1, <1>2, <1>3 DEF ApiIInv, RequestInv, Beginnings
<1>6. EffectsArePassed'
  <2>1. \A j \in Try : (j \in made <=> Passed(j, "do")) /\ (j \in told <=> Passed(j, "tell"))
    BY DEF ApiIInv, RequestInv, EffectsArePassed
  <2>2. keyed <=> \E j \in Try : Passed(j, "put")
    BY DEF ApiIInv, RequestInv, EffectsArePassed
  <2>3. ASSUME NEW j \in Try
        PROVE  (j \in made' <=> Passed(j, "do")') /\ (j \in told' <=> Passed(j, "tell")')
    BY <1>1, <2>1
  <2>4. keyed' <=> \E j \in Try : Passed(j, "put")' BY <1>1, <2>2
  <2> QED BY <2>3, <2>4 DEF EffectsArePassed
<1>7. Interrupted' <=> Interrupted BY <1>1 DEF Interrupted
<1>8. SecondHasReason'
  <2>1. 1 \in Try /\ 2 \in Try BY DEF Try, MaxTries
  <2> QED BY <1>1, <1>3, <1>7, <2>1 DEF ApiIInv, RequestInv, SecondHasReason
<1>9. AnswersAreKnown'
  BY <1>1, <1>2, <1>7, <1>m, <1>o DEF ApiIInv, RequestInv, AnswersAreKnown, Answered
<1>10. RepeatsAreRepeated'
  <2> SUFFICES ASSUME NEW j \in Try, attempt'[j].after PROVE Repeated(j)'
    BY DEF RepeatsAreRepeated
  <2>1. attempt[j].after /\ Repeated(j)
    BY <1>1 DEF ApiIInv, RequestInv, RepeatsAreRepeated
  <2>2. \A x \in {"do", "find"} : Passed(j, x)' <=> Passed(j, x) BY <1>1, <2>1
  <2>3. Op \notin Kept => (Passed(j, "look")' <=> Passed(j, "look")) BY <1>1, <2>1
  <2>4. Answered(j)' <=> Answered(j) BY <1>1 DEF Answered
  <2> QED BY <1>1, <1>2, <1>m, <1>o, <2>1, <2>2, <2>3, <2>4 DEF Repeated
<1>11. SignalInv' BY DEF ApiIInv, SignalInv
<1> QED BY <1>2, <1>4, <1>5, <1>6, <1>8, <1>9, <1>10, <1>11 DEF ApiIInv, RequestInv

(* An answer to a request that was let in.                                 *)
LEMMA AnswerHolds ==
    ASSUME ApiIInv, Mutates, NEW k \in Try, InFlight(k), NEW status \in 0..599,
           Answers(k, status),
           UNCHANGED <<setup, pc, stops, made, told, keyed, hurried>>,
           \/ status = 200 /\ made # {} /\ (keyed \/ Op \in Kept)
           \/ status = 500 /\ stops > 0
           \/ status = Again(Op) /\ made # {} /\ ~ Passed(k, "do") /\ ~ attempt[k].after
    PROVE  ApiIInv'
<1>t. /\ attempt \in [Try -> Attempt] /\ made \subseteq Try /\ told \subseteq Try
      /\ keyed \in BOOLEAN /\ hurried \in BOOLEAN /\ setup \in Setup
  BY DEF ApiIInv, ApiTypes
<1>1. PICK old : old = attempt[k] OBVIOUS
<1>2. old \in Attempt /\ old.at = "in" /\ old.status = 0
  BY <1>t, <1>1 DEF InFlight, ApiIInv, RequestInv, Beginnings
<1>3. PICK new : new = [old EXCEPT !.at = "answered", !.status = status] OBVIOUS
<1>4. /\ new \in Attempt /\ new.at = "answered" /\ new.status = status
      /\ new.step = old.step /\ new.after = old.after
  <2>1. old = [at |-> old.at, step |-> old.step, status |-> old.status, after |-> old.after]
    BY <1>2 DEF Attempt
  <2>2. new = [at |-> "answered", step |-> old.step, status |-> status, after |-> old.after]
    BY <1>3, <2>1
  <2>3. old.step \in 1..6 /\ old.after \in BOOLEAN BY <1>2 DEF Attempt
  <2> QED BY <2>2, <2>3 DEF Attempt
<1>5. attempt' = [attempt EXCEPT ![k] = new]
  BY <1>1, <1>3 DEF Answers, Becomes
<1>6. /\ attempt' \in [Try -> Attempt]
      /\ \A j \in Try : attempt'[j] = IF j = k THEN new ELSE attempt[j]
  BY <1>t, <1>4, <1>5
<1>7. \A j \in Try : attempt'[j].step = attempt[j].step /\ attempt'[j].after = attempt[j].after
  BY <1>1, <1>4, <1>6
<1>8. \A j \in Try : \A x : Passed(j, x)' <=> Passed(j, x) BY <1>7, SameSteps
<1>9. Mutates' /\ Refusal' = Refusal BY RefusalStays DEF ApiIInv, Mutates
<1>10. Op' = Op /\ Again(Op)' = Again(Op) BY DEF Op, Again
<1>11. Interrupted => Interrupted'
  <2>1. ASSUME NEW j \in Try, attempt[j].at = "cut" \/ attempt[j].status = 500
        PROVE  attempt'[j] = attempt[j]
    <3>1. j # k BY <1>1, <1>2, <2>1
    <3> QED BY <1>6, <3>1
  <2> QED BY <2>1 DEF Interrupted
<1>12. Beginnings' BY <1>1, <1>2, <1>4, <1>6, <1>9 DEF ApiIInv, RequestInv, Beginnings
<1>13. EffectsArePassed' BY <1>8 DEF ApiIInv, RequestInv, EffectsArePassed
<1>14. SecondHasReason'
  <2>1. 1 \in Try /\ 2 \in Try BY DEF Try, MaxTries
  <2>2. CASE k = 1 BY <1>1, <1>2, <1>6, <1>11, <2>1, <2>2
                   DEF ApiIInv, RequestInv, SecondHasReason
  <2>3. CASE k # 1 BY <1>1, <1>2, <1>4, <1>6, <1>11, <2>1, <2>3
                   DEF ApiIInv, RequestInv, SecondHasReason
  <2> QED BY <2>2, <2>3
<1>15. AnswersAreKnown'
  <2>1. status = Again(Op) /\ made # {} /\ ~ Passed(k, "do") /\ ~ attempt[k].after
            => Interrupted
    BY Overtaken
  <2>2. ASSUME NEW j \in Try, Answered(j)'
        PROVE  \/ attempt'[j].status = 200 /\ made # {} /\ (keyed \/ Op \in Kept)
               \/ attempt'[j].status = 500
               \/ attempt'[j].status = Refusal /\ Refusal # 200
               \/ attempt'[j].status = Again(Op) /\ Interrupted' /\ made # {}
    <3>1. CASE j = k BY <1>4, <1>6, <1>11, <2>1, <3>1
    <3>2. CASE j # k
      <4>1. attempt'[j] = attempt[j] BY <1>6, <3>2
      <4> QED BY <1>11, <2>2, <4>1 DEF ApiIInv, RequestInv, AnswersAreKnown, Answered
    <3> QED BY <3>1, <3>2
  <2> QED BY <1>9, <1>10, <2>2 DEF AnswersAreKnown
<1>16. RepeatsAreRepeated'
  <2> SUFFICES ASSUME NEW j \in Try, attempt'[j].after PROVE Repeated(j)'
    BY DEF RepeatsAreRepeated
  <2>1. attempt[j].after /\ Repeated(j)
    BY <1>7 DEF ApiIInv, RequestInv, RepeatsAreRepeated
  <2>2. Answered(j)' => attempt'[j].status = 200 \/ (attempt'[j].status = 500 /\ stops' > 0)
    <3>1. CASE j = k BY <1>4, <1>6, <2>1, <3>1
    <3>2. CASE j # k
      <4>1. attempt'[j] = attempt[j] BY <1>6, <3>2
      <4> QED BY <2>1, <4>1 DEF Repeated, Answered
    <3> QED BY <3>1, <3>2
  <2>3. \A x : Passed(j, x)' <=> Passed(j, x) BY <1>8
  <2>4. IF Op' \in Kept' THEN made' # {} /\ ~ Passed(j, "find")'
                         ELSE keyed' /\ ~ Passed(j, "look")'
    BY <1>10, <2>1, <2>3 DEF Repeated, Kept
  <2> QED BY <1>9, <2>1, <2>2, <2>3, <2>4 DEF Repeated
<1>17. SignalInv' BY DEF ApiIInv, SignalInv
<1>18. ApiTypes' BY <1>t, <1>6 DEF ApiTypes
<1> QED BY <1>9, <1>12, <1>13, <1>14, <1>15, <1>16, <1>17, <1>18 DEF ApiIInv, RequestInv

-------------------------------------------------------------------------------
(* The steps of a request                                                  *)

(* Only a process that is signalled fails the statements of a request.     *)
LEMMA ClosesBySignal ==
    ASSUME ApiIInv, Alive, ~ Serving
    PROVE  stops > 0
<1>1. PICK p \in Process : pc[p] \in {"serving", "closing"} BY DEF Alive
<1>2. p \in setup.processes BY <1>1 DEF ApiIInv, SignalInv
<1>3. pc[p] = "closing" BY <1>1, <1>2 DEF Serving
<1> QED BY <1>3 DEF ApiIInv, SignalInv

LEMMA HandleHolds ==
    ASSUME ApiIInv, NEW k \in Try, Handle(k)
    PROVE  ApiIInv'
<1>t. keyed \in BOOLEAN /\ Again(Op) \in 0..599 BY AgainType DEF ApiIInv, ApiTypes
<1>1. InFlight(k) /\ UNCHANGED <<setup, pc, stops>>
  BY DEF Handle, LookUp, Find, CheckFirst, Do, PutKey, TellEvent, StatementFails, Return,
     InStep, vars, daemon, processes, events
<1>2. Mutates BY <1>1 DEF ApiIInv
<1>3. CASE LookUp(k)
  <2>1. InStep(k, "look") /\ UNCHANGED <<made, told, keyed, hurried>> BY <1>3 DEF LookUp
  <2>2. CASE keyed
    <3>1. Answers(k, 200) BY <1>3, <2>2 DEF LookUp
    <3>2. made # {} BY <1>2, <2>2, MadeIsIn
    <3> QED BY <1>1, <1>2, <2>1, <2>2, <3>1, <3>2, AnswerHolds
  <2>3. CASE ~ keyed
    <3>1. GoesOnWith(k) BY <1>3, <2>3 DEF LookUp
    <3>2. attempt[k].after => Op \in Kept BY <1>2, <2>1, <2>3, RepeatIsAt
    <3> QED BY <1>1, <1>2, <2>1, <3>1, <3>2, GoesOnHolds
  <2> QED BY <2>2, <2>3
<1>4. CASE Find(k)
  <2>1. InStep(k, "find") /\ UNCHANGED <<made, told, keyed, hurried>> BY <1>4 DEF Find
  <2>2. CASE made # {}
    <3>1. Answers(k, 200) BY <1>4, <2>2 DEF Find
    <3>2. Op \in Kept
      <4>1. Begins(Course[Op], "find") BY <2>1 DEF InStep, Begins
      <4> QED BY <1>2, <4>1, Courses DEF Mutates, Op, Looks
    <3> QED BY <1>1, <1>2, <2>1, <2>2, <3>1, <3>2, AnswerHolds
  <2>3. CASE made = {}
    <3>1. GoesOnWith(k) BY <1>4, <2>3 DEF Find
    <3>2. ~ attempt[k].after BY <1>2, <2>1, <2>3, RepeatIsAt
    <3> QED BY <1>1, <1>2, <2>1, <3>1, <3>2, GoesOnHolds
  <2> QED BY <2>2, <2>3
<1>5. CASE CheckFirst(k)
  <2>1. InStep(k, "check") /\ UNCHANGED <<made, told, keyed, hurried>>
    BY <1>5 DEF CheckFirst
  <2>2. ~ attempt[k].after BY <1>2, <2>1, RepeatIsAt
  <2>3. CASE made # {}
    <3>1. Answers(k, Again(Op)) BY <1>5, <2>3 DEF CheckFirst
    <3>2. ~ Passed(k, "do") BY <1>2, <2>1, StepsBefore
    <3> QED BY <1>t, <1>1, <1>2, <2>1, <2>2, <2>3, <3>1, <3>2, AnswerHolds
  <2>4. CASE made = {}
    <3>1. GoesOnWith(k) BY <1>5, <2>4 DEF CheckFirst
    <3> QED BY <1>1, <1>2, <2>1, <2>2, <3>1, GoesOnHolds
  <2> QED BY <2>3, <2>4
<1>6. CASE Do(k)
  <2>1. InStep(k, "do") /\ UNCHANGED <<told, keyed, hurried>> BY <1>6 DEF Do
  <2>2. CASE made = {} \/ Op \in Repeatable
    <3>1. made' = made \cup {k} /\ GoesOnWith(k) BY <1>6, <2>2 DEF Do
    <3>2. ~ attempt[k].after BY <1>2, <2>1, <2>2, RepeatIsAt
    <3> QED BY <1>1, <1>2, <2>1, <3>1, <3>2, GoesOnHolds
  <2>3. CASE ~ (made = {} \/ Op \in Repeatable)
    <3>1. Answers(k, Again(Op)) /\ made' = made BY <1>6, <2>3 DEF Do
    <3>2. ~ Passed(k, "do") BY <1>2, <2>1, StepsBefore
    <3>3. CASE ~ attempt[k].after
      BY <1>t, <1>1, <1>2, <2>1, <2>3, <3>1, <3>2, <3>3, AnswerHolds
    <3>4. CASE attempt[k].after
      <4>1. Op = "queueRefund" BY <1>2, <2>1, <3>4, RepeatIsAt
      <4>2. Again(Op) = 200 /\ Op \in Kept BY <4>1 DEF Again, Kept
      <4> QED BY <1>t, <1>1, <1>2, <2>1, <2>3, <3>1, <4>2, AnswerHolds
    <3> QED BY <3>3, <3>4
  <2> QED BY <2>2, <2>3
<1>7. CASE PutKey(k)
  <2>1. /\ InStep(k, "put") /\ GoesOnWith(k) /\ keyed' = TRUE
        /\ UNCHANGED <<made, told, hurried>>
    BY <1>7 DEF PutKey
  <2>2. ~ attempt[k].after BY <1>2, <2>1, RepeatIsAt
  <2> QED BY <1>1, <1>2, <2>1, <2>2, GoesOnHolds
<1>8. CASE TellEvent(k)
  <2>1. /\ InStep(k, "tell") /\ GoesOnWith(k) /\ told' = told \cup {k}
        /\ UNCHANGED <<made, keyed, hurried>>
    BY <1>8 DEF TellEvent
  <2>2. ~ attempt[k].after BY <1>2, <2>1, RepeatIsAt
  <2> QED BY <1>1, <1>2, <2>1, <2>2, GoesOnHolds
<1>9. CASE StatementFails(k)
  <2>1. Answers(k, 500) /\ UNCHANGED <<made, told, keyed, hurried>> /\ stops > 0
    BY <1>9, ClosesBySignal DEF StatementFails
  <2> QED BY <1>1, <1>2, <2>1, AnswerHolds
<1>10. CASE Return(k)
  <2>1. /\ attempt[k].step \notin DOMAIN Course[Op] /\ Answers(k, 200)
        /\ UNCHANGED <<made, told, keyed, hurried>>
    BY <1>10 DEF Return
  <2>2. Passed(k, "put")
    <3>1. Orderly(Course[Op]) BY <1>2, Courses DEF Mutates, Op
    <3>2. PICK l \in 1..5 : DOMAIN Course[Op] = 1..l BY <3>1 DEF Orderly
    <3>3. PICK n \in DOMAIN Course[Op] : Course[Op][n] = "put" BY <3>1 DEF Orderly
    <3>4. attempt[k].step \in 1..6 BY DEF ApiIInv, ApiTypes, Attempt
    <3>5. n < attempt[k].step BY <2>1, <3>2, <3>3, <3>4
    <3> QED BY <3>3, <3>5 DEF Passed
  <2>3. keyed BY <1>2, <2>2 DEF ApiIInv, RequestInv, EffectsArePassed
  <2>4. made # {} BY <1>2, <2>3, MadeIsIn
  <2> QED BY <1>1, <1>2, <2>1, <2>3, <2>4, AnswerHolds
<1> QED BY <1>3, <1>4, <1>5, <1>6, <1>7, <1>8, <1>9, <1>10 DEF Handle

(* What holds of the requests when one is sent, refused or let in.         *)
LEMMA AskTypes ==
    ASSUME ApiIInv, NEW k \in Try, Ask(k)
    PROVE  /\ ApiTypes' /\ setup.tries > 0 /\ (hurried => hurried')
           /\ UNCHANGED <<setup, pc, stops, made, told, keyed>> /\ attempt[k].at = "idle"
           /\ \A j \in Try \ {k} : attempt'[j] = attempt[j]
           /\ attempt'[k].step = attempt[k].step /\ attempt'[k].after = Settled
           /\ \/ Refusal = 200 /\ Mutates /\ attempt'[k].at = "in" /\ attempt'[k].status = 0
              \/ /\ ~ (Refusal = 200 /\ Mutates)
                 /\ attempt'[k].at = "answered" /\ attempt'[k].status = Refusal
<1>t. /\ attempt \in [Try -> Attempt] /\ made \subseteq Try /\ told \subseteq Try
      /\ keyed \in BOOLEAN /\ hurried \in BOOLEAN /\ setup \in Setup
  BY DEF ApiIInv, ApiTypes
<1>1. /\ UNCHANGED <<setup, pc, stops, made, told, keyed>> /\ attempt[k].at = "idle"
      /\ hurried' \in BOOLEAN /\ (hurried => hurried')
  BY <1>t DEF Ask, vars, daemon, processes, events
<1>2. setup.tries > 0
  <2>1. k <= setup.tries /\ setup.tries \in 0..2 /\ k \in 1..2
    BY <1>t, ApiAssumption DEF Ask, Try, MaxTries
  <2> QED BY <2>1
<1>3. Refusal \in {200} \cup 400..599 BY <1>2, RefusalType DEF ApiIInv
<1>4. PICK old : old = attempt[k] OBVIOUS
<1>5. old \in Attempt /\ old.at = "idle" BY <1>t, <1>1, <1>4
<1>s. PICK settled : settled = Settled OBVIOUS
<1>b. settled \in BOOLEAN BY <1>t, <1>s DEF Settled
<1>6. PICK in : in = [old EXCEPT !.at = "in", !.after = settled] OBVIOUS
<1>7. PICK out : out = [old EXCEPT !.at = "answered", !.status = Refusal, !.after = settled]
  OBVIOUS
<1>8. /\ in \in Attempt /\ in.at = "in" /\ in.step = old.step /\ in.status = old.status
      /\ in.after = settled
  BY <1>5, <1>6, <1>b DEF Attempt
<1>9. /\ out \in Attempt /\ out.at = "answered" /\ out.step = old.step
      /\ out.status = Refusal /\ out.after = settled
  <2>1. out = [at |-> "answered", step |-> old.step, status |-> Refusal, after |-> settled]
    BY <1>5, <1>7 DEF Attempt
  <2>2. old.step \in 1..6 BY <1>5 DEF Attempt
  <2> QED BY <1>3, <1>b, <2>1, <2>2 DEF Attempt
<1>10. IF Refusal = 200 /\ Mutates THEN attempt' = [attempt EXCEPT ![k] = in]
                                   ELSE attempt' = [attempt EXCEPT ![k] = out]
  BY <1>4, <1>6, <1>7, <1>s DEF Ask, Becomes, Refusal
<1>11. CASE Refusal = 200 /\ Mutates
  <2>1. old.status = 0 BY <1>4, <1>5, <1>11 DEF ApiIInv, RequestInv, Beginnings
  <2>2. /\ attempt' \in [Try -> Attempt]
        /\ \A j \in Try : attempt'[j] = IF j = k THEN in ELSE attempt[j]
    BY <1>t, <1>8, <1>10, <1>11
  <2> QED BY <1>t, <1>1, <1>2, <1>4, <1>8, <1>11, <1>s, <2>1, <2>2 DEF ApiTypes
<1>12. CASE ~ (Refusal = 200 /\ Mutates)
  <2>2. /\ attempt' \in [Try -> Attempt]
        /\ \A j \in Try : attempt'[j] = IF j = k THEN out ELSE attempt[j]
    BY <1>t, <1>9, <1>10, <1>12
  <2> QED BY <1>t, <1>1, <1>2, <1>4, <1>9, <1>12, <1>s, <2>2 DEF ApiTypes
<1> QED BY <1>11, <1>12

(* A success is of something made, which the key or the thing itself tells.*)
LEMMA SettledIsMade ==
    ASSUME ApiIInv, Mutates, Settled
    PROVE  made # {} /\ Refusal = 200 /\ (keyed \/ Op \in Kept)
<1>1. CASE keyed BY <1>1, MadeIsIn
<1>2. CASE \E k \in Try : Answered(k) /\ attempt[k].status = 200
  <2>1. PICK k \in Try : Answered(k) /\ attempt[k].status = 200 BY <1>2
  <2>2. \/ made # {} /\ (keyed \/ Op \in Kept)
        \/ Again(Op) = 200 /\ made # {}
    BY <2>1 DEF ApiIInv, RequestInv, AnswersAreKnown
  <2>3. Again(Op) = 200 => Op \in Kept
    BY Courses DEF Mutates, Op, Kept
  <2> QED BY <2>2, <2>3, MadeIsIn
<1> QED BY <1>1, <1>2 DEF Settled

(* The client sends it again for a reason.                                 *)
LEMMA AskHasReason ==
    ASSUME ApiIInv, Mutates, NEW k \in Try, Ask(k)
    PROVE  SecondHasReason' /\ (Interrupted => Interrupted')
<1>1. /\ hurried => hurried'
      /\ \A j \in Try \ {k} : attempt'[j] = attempt[j]
      /\ attempt[k].at = "idle" /\ attempt'[k].step = attempt[k].step
      /\ attempt'[k].after = Settled
  BY AskTypes
<1>2. \/ Refusal = 200 /\ attempt'[k].at = "in"
      \/ Refusal # 200 /\ attempt'[k].at = "answered"
  BY AskTypes
<1>3. attempt[k].status = 0 /\ attempt[k].step = 1
  BY <1>1 DEF ApiIInv, RequestInv, Beginnings
<1>4. Interrupted => Interrupted'
  <2>1. ASSUME NEW j \in Try, attempt[j].at = "cut" \/ attempt[j].status = 500
        PROVE  attempt'[j] = attempt[j]
    BY <1>1, <1>3, <2>1
  <2> QED BY <1>1, <2>1 DEF Interrupted
<1>5. 1 \in Try /\ 2 \in Try /\ k \in {1, 2} BY DEF Try, MaxTries
<1>6. CASE k = 1
  <2>1. attempt'[2] = attempt[2] BY <1>1, <1>5, <1>6
  <2>2. attempt[2].at # "idle" => Interrupted \/ attempt[2].after
    BY <1>1, <1>6 DEF ApiIInv, RequestInv, SecondHasReason
  <2> QED BY <1>4, <2>1, <2>2 DEF SecondHasReason
<1>7. CASE k = 2
  <2>1. attempt'[1] = attempt[1] BY <1>1, <1>5, <1>7
  <2>2. /\ attempt[1].at # "idle"
        /\ attempt[1].at = "answered" => attempt[1].status \in {200} \cup 500..599
        /\ attempt[1].at = "in" => hurried'
    <3>1. k > 1 /\ k - 1 = 1 BY <1>7
    <3>2. attempt[k - 1] = attempt[1] BY <3>1
    <3> QED BY <3>1, <3>2 DEF Ask, Answered, InFlight
  <2>3. CASE attempt[1].at = "in" BY <1>4, <2>2, <2>3 DEF Interrupted, SecondHasReason
  <2>4. CASE attempt[1].at = "cut"
    <3>1. Interrupted BY <1>5, <2>4 DEF Interrupted
    <3> QED BY <1>4, <3>1 DEF SecondHasReason
  <2>5. CASE attempt[1].at = "answered" /\ attempt[1].status = 200
    <3>1. Settled BY <1>5, <2>5 DEF Settled, Answered
    <3> QED BY <1>1, <1>4, <1>7, <3>1 DEF SecondHasReason
  <2>6. CASE attempt[1].at = "answered" /\ attempt[1].status # 200
    <3>2. \/ attempt[1].status = 500
          \/ Refusal # 200
          \/ Interrupted
      BY <1>5, <2>6 DEF ApiIInv, RequestInv, AnswersAreKnown, Answered
    <3>3. CASE Refusal # 200
      <4>1. attempt[1].step = 1 BY <1>5, <3>3 DEF ApiIInv, RequestInv, Beginnings
      <4>2. attempt'[1].at = "answered" /\ attempt'[1].step = 1 BY <2>1, <2>6, <4>1
      <4> QED BY <1>4, <4>2 DEF SecondHasReason
    <3>4. CASE attempt[1].status = 500
      <4>1. Interrupted BY <1>5, <3>4 DEF Interrupted
      <4> QED BY <1>4, <4>1 DEF SecondHasReason
    <3>5. CASE Interrupted BY <1>4, <3>5 DEF SecondHasReason
    <3> QED BY <3>2, <3>3, <3>4, <3>5
  <2>7. attempt[1].at \in {"idle", "in", "answered", "cut"}
    BY <1>5 DEF ApiIInv, ApiTypes, Attempt
  <2> QED BY <2>2, <2>3, <2>4, <2>5, <2>6, <2>7
<1> QED BY <1>4, <1>5, <1>6, <1>7

LEMMA AskHolds ==
    ASSUME ApiIInv, NEW k \in Try, Ask(k)
    PROVE  ApiIInv'
<1>1. /\ ApiTypes' /\ UNCHANGED <<setup, pc, stops, made, told, keyed>>
      /\ attempt[k].at = "idle"
      /\ \A j \in Try \ {k} : attempt'[j] = attempt[j]
      /\ attempt'[k].step = attempt[k].step /\ attempt'[k].after = Settled
  BY AskTypes
<1>2. \/ Refusal = 200 /\ Mutates /\ attempt'[k].at = "in" /\ attempt'[k].status = 0
      \/ /\ ~ (Refusal = 200 /\ Mutates)
         /\ attempt'[k].at = "answered" /\ attempt'[k].status = Refusal
  BY AskTypes
<1>3. Mutates' <=> Mutates BY <1>1 DEF Mutates
<1>s. SignalInv' BY <1>1 DEF ApiIInv, SignalInv
<1>4. CASE ~ Mutates
  <2>1. \A j \in Try : ~ InFlight(j)' BY <1>1, <1>2, <1>4 DEF ApiIInv, InFlight
  <2> QED BY <1>1, <1>3, <1>4, <1>s, <2>1 DEF ApiIInv
<1>5. CASE Mutates
  <2>1. SecondHasReason' /\ (Interrupted => Interrupted') BY <1>5, AskHasReason
  <2>2. Refusal' = Refusal BY <1>1, <1>5, RefusalStays DEF ApiIInv
  <2>3. \A j \in Try : attempt'[j].step = attempt[j].step BY <1>1
  <2>4. \A j \in Try : \A x : Passed(j, x)' <=> Passed(j, x)
    BY <1>1, <2>3, SameSteps
  <2>5. Op' = Op /\ Again(Op)' = Again(Op) BY <1>1 DEF Op, Again
  <2>6. Beginnings'
    <3> SUFFICES ASSUME NEW j \in Try
                 PROVE  /\ attempt'[j].at \in {"idle", "in", "cut"} => attempt'[j].status = 0
                        /\ attempt'[j].at = "idle" \/ Refusal # 200 =>
                               /\ attempt'[j].step = 1
                               /\ attempt'[j].at \notin {"in", "cut"}
      BY <2>2 DEF Beginnings
    <3>1. CASE j = k
      <4>1. attempt[k].step = 1 BY <1>1, <1>5 DEF ApiIInv, RequestInv, Beginnings
      <4> QED BY <1>1, <1>2, <1>5, <3>1, <4>1
    <3>2. CASE j # k
      <4>1. attempt'[j] = attempt[j] BY <1>1, <3>2
      <4> QED BY <1>5, <4>1 DEF ApiIInv, RequestInv, Beginnings
    <3> QED BY <3>1, <3>2
  <2>7. EffectsArePassed'
    BY <1>1, <1>5, <2>4 DEF ApiIInv, RequestInv, EffectsArePassed
  <2>8. AnswersAreKnown'
    <3>1. ASSUME NEW j \in Try, Answered(j)'
          PROVE  \/ attempt'[j].status = 200 /\ made # {} /\ (keyed \/ Op \in Kept)
                 \/ attempt'[j].status = 500
                 \/ attempt'[j].status = Refusal /\ Refusal # 200
                 \/ attempt'[j].status = Again(Op) /\ Interrupted' /\ made # {}
      <4>1. CASE j = k
        <5>1. attempt'[k].at = "answered" BY <3>1, <4>1 DEF Answered
        <5> QED BY <1>2, <1>5, <4>1, <5>1
      <4>2. CASE j # k
        <5>1. attempt'[j] = attempt[j] BY <1>1, <4>2
        <5>2. Answered(j) BY <3>1, <5>1 DEF Answered
        <5>3. \/ attempt[j].status = 200 /\ made # {} /\ (keyed \/ Op \in Kept)
              \/ attempt[j].status = 500
              \/ attempt[j].status = Refusal /\ Refusal # 200
              \/ attempt[j].status = Again(Op) /\ Interrupted /\ made # {}
          BY <1>5, <5>2 DEF ApiIInv, RequestInv, AnswersAreKnown
        <5> QED BY <2>1, <5>1, <5>3
      <4> QED BY <4>1, <4>2
    <3> QED BY <1>1, <2>2, <2>5, <3>1 DEF AnswersAreKnown
  <2>9. RepeatsAreRepeated'
    <3> SUFFICES ASSUME NEW j \in Try, attempt'[j].after PROVE Repeated(j)'
      BY DEF RepeatsAreRepeated
    <3>1. CASE j = k
      <4>1. made # {} /\ Refusal = 200 /\ (keyed \/ Op \in Kept)
        BY <1>1, <1>5, <3>1, SettledIsMade
      <4>2. ~ Answered(k)' BY <1>2, <1>5, <4>1 DEF Answered
      <4>3. attempt[k].step = 1 BY <1>1, <1>5 DEF ApiIInv, RequestInv, Beginnings
      <4>4. \A x : ~ Passed(k, x)
        <5>1. \A n \in DOMAIN Course[Op] : ~ n < 1
          BY <1>5, Courses DEF Mutates, Op, Orderly
        <5> QED BY <4>3, <5>1 DEF Passed
      <4> QED BY <1>1, <2>2, <2>4, <2>5, <3>1, <4>1, <4>2, <4>4 DEF Repeated
    <3>2. CASE j # k
      <4>1. attempt'[j] = attempt[j] BY <1>1, <3>2
      <4>2. Repeated(j) BY <1>5, <4>1 DEF ApiIInv, RequestInv, RepeatsAreRepeated
      <4> QED BY <1>1, <2>2, <2>4, <2>5, <4>1, <4>2 DEF Repeated, Answered
    <3> QED BY <3>1, <3>2
  <2> QED BY <1>1, <1>3, <1>5, <1>s, <2>1, <2>6, <2>7, <2>8, <2>9 DEF ApiIInv, RequestInv
<1> QED BY <1>4, <1>5

(* The process goes on, or goes, and cuts what was under way.              *)
LEMMA ServedHolds ==
    ASSUME ApiIInv, SignalInv', setup' = setup, UNCHANGED <<made, told, keyed, hurried>>,
           stops' >= stops, stops' \in Nat,
           attempt' = attempt
               \/ attempt' = [j \in Try |-> IF InFlight(j) THEN [attempt[j] EXCEPT !.at = "cut"]
                                            ELSE attempt[j]]
    PROVE  ApiIInv'
<1>t. /\ attempt \in [Try -> Attempt] /\ made \subseteq Try /\ told \subseteq Try
      /\ keyed \in BOOLEAN /\ hurried \in BOOLEAN /\ setup \in Setup /\ stops \in Nat
  BY DEF ApiIInv, ApiTypes, SignalInv
<1>1. ASSUME NEW old \in Attempt, NEW new, new = [old EXCEPT !.at = "cut"]
      PROVE  /\ new \in Attempt /\ new.at = "cut" /\ new.step = old.step
             /\ new.status = old.status /\ new.after = old.after
  BY <1>1 DEF Attempt
<1>2. \A j \in Try :
          \/ attempt'[j] = attempt[j]
          \/ attempt[j].at = "in" /\ attempt'[j] = [attempt[j] EXCEPT !.at = "cut"]
  BY DEF InFlight
<1>3. \A j \in Try :
          \/ attempt'[j] = attempt[j]
          \/ /\ attempt[j].at = "in" /\ attempt'[j].at = "cut"
             /\ attempt'[j].step = attempt[j].step /\ attempt'[j].after = attempt[j].after
             /\ attempt'[j].status = attempt[j].status /\ attempt'[j] \in Attempt
  BY <1>t, <1>1, <1>2
<1>4. attempt' \in [Try -> Attempt]
  <2>1. \A j \in Try : attempt'[j] \in Attempt BY <1>t, <1>3
  <2>2. attempt' = [j \in Try |-> attempt'[j]] BY <1>t
  <2> QED BY <2>1, <2>2
<1>5. Mutates' <=> Mutates BY DEF Mutates
<1>6. \A j \in Try : attempt'[j].step = attempt[j].step BY <1>3
<1>7. \A j \in Try : \A x : Passed(j, x)' <=> Passed(j, x) BY <1>6, SameSteps
<1>8. Interrupted => Interrupted' BY <1>3 DEF Interrupted
<1>9. CASE ~ Mutates
  <2>1. \A j \in Try : ~ InFlight(j)' BY <1>3, <1>9 DEF ApiIInv, InFlight
  <2> QED BY <1>t, <1>4, <1>5, <1>9, <2>1 DEF ApiIInv, ApiTypes
<1>10. CASE Mutates
  <2>1. Refusal' = Refusal BY <1>10, RefusalStays DEF ApiIInv
  <2>2. Op' = Op /\ Again(Op)' = Again(Op) BY DEF Op, Again
  <2>3. Beginnings' BY <1>3, <1>10, <2>1 DEF ApiIInv, RequestInv, Beginnings
  <2>4. EffectsArePassed' BY <1>7, <1>10 DEF ApiIInv, RequestInv, EffectsArePassed
  <2>5. SecondHasReason'
    <3>1. 1 \in Try /\ 2 \in Try BY DEF Try, MaxTries
    <3>2. /\ attempt'[2].at # "idle" => attempt[2].at # "idle"
          /\ attempt'[2].after = attempt[2].after
      BY <1>3, <3>1
    <3>3. attempt[1].at = "answered" => attempt'[1] = attempt[1] BY <1>3, <3>1
    <3> QED BY <1>8, <1>10, <3>2, <3>3 DEF ApiIInv, RequestInv, SecondHasReason
  <2>a. \A j \in Try : Answered(j)' => attempt'[j] = attempt[j] BY <1>3 DEF Answered
  <2>6. AnswersAreKnown'
    BY <1>8, <1>10, <2>1, <2>2, <2>a DEF ApiIInv, RequestInv, AnswersAreKnown, Answered
  <2>7. RepeatsAreRepeated'
    <3> SUFFICES ASSUME NEW j \in Try, attempt'[j].after PROVE Repeated(j)'
      BY DEF RepeatsAreRepeated
    <3>1. attempt[j].after BY <1>3
    <3>2. Repeated(j) BY <1>10, <3>1 DEF ApiIInv, RequestInv, RepeatsAreRepeated
    <3>3. Answered(j)' => attempt'[j].status = 200 \/ (attempt'[j].status = 500 /\ stops' > 0)
      BY <1>t, <2>a, <3>2 DEF Repeated, Answered
    <3>4. \A x : Passed(j, x)' <=> Passed(j, x) BY <1>7
    <3>5. IF Op' \in Kept' THEN made' # {} /\ ~ Passed(j, "find")'
                           ELSE keyed' /\ ~ Passed(j, "look")'
      BY <2>2, <3>2, <3>4 DEF Repeated, Kept
    <3> QED BY <2>1, <3>2, <3>3, <3>4, <3>5 DEF Repeated
  <2> QED BY <1>t, <1>4, <1>5, <1>10, <2>3, <2>4, <2>5, <2>6, <2>7
          DEF ApiIInv, ApiTypes, RequestInv
<1> QED BY <1>9, <1>10

(* Whatever the process does, only a signal closes it.                     *)
LEMMA SignalStep ==
    ASSUME SignalInv, Next, setup' = setup
    PROVE  SignalInv' /\ stops' \in Nat /\ stops' >= stops
<1>1. ASSUME NEW p \in setup.processes, NEW w, Goes(p, w), stops' \in Nat, stops' >= stops,
             w = "closing" => stops' > 0
      PROVE  SignalInv'
  <2>1. /\ DOMAIN pc' = Process
        /\ \A q \in Process : pc'[q] = IF q = p THEN w ELSE pc[q]
    BY <1>1 DEF SignalInv, Goes
  <2>2. \A q \in Process : pc'[q] = "closing" => stops' > 0
    <3> SUFFICES ASSUME NEW q \in Process, pc'[q] = "closing" PROVE stops' > 0 OBVIOUS
    <3>1. CASE q = p BY <1>1, <2>1, <3>1
    <3>2. CASE q # p
      <4>1. pc[q] = "closing" BY <2>1, <3>2
      <4>2. stops \in Nat /\ stops > 0 BY <4>1 DEF SignalInv
      <4> QED BY <1>1, <4>2
    <3> QED BY <3>1, <3>2
  <2>3. \A q \in Process : q \notin setup'.processes => pc'[q] = "down"
    BY <1>1, <2>1 DEF SignalInv
  <2> QED BY <1>1, <2>1, <2>2, <2>3 DEF SignalInv
<1>2. ASSUME UNCHANGED <<pc, stops>> PROVE SignalInv' /\ stops' \in Nat /\ stops' >= stops
  BY <1>2 DEF SignalInv
<1>3. CASE \E p \in Process : Lifecycle(p)
  <2>1. PICK p \in Process : Lifecycle(p) BY <1>3
  <2>2. CASE Signal(p)
    <3>1. p \in setup.processes /\ stops' = stops + 1
          /\ Goes(p, IF pc[p] = "serving" THEN "closing" ELSE "stopped")
      BY <2>2 DEF Signal, Exits
    <3>2. stops' \in Nat /\ stops' >= stops /\ stops' > 0 BY <3>1 DEF SignalInv
    <3> QED BY <1>1, <3>1, <3>2
  <2>3. CASE ~ Signal(p)
    <3>1. stops' = stops
      BY <2>1, <2>3 DEF Lifecycle, GoesOn, Starting, Begin, Closes, Launch, Migrating,
         OpenDatabase, CreateMetadata, InsertVersion, CreateLedger, SelectMigration,
         ApplyMigration, OpenCustody, StartRuntime, Listen, ServerClosed, StartAgain, Crash,
         events
    <3>2. \/ pc' = pc
          \/ /\ p \in setup.processes
             /\ \E w \in {"open", "ledger", "create", "down", "version", "select", "custody",
                          "apply", "run", "listen", "serving", "stopped"} : Goes(p, w)
      <4>1. CASE Launch(p) BY <4>1 DEF Launch, Comes
      <4>2. CASE OpenDatabase(p) BY <4>2 DEF OpenDatabase, Comes, Exits
      <4>3. CASE CreateMetadata(p) BY <4>3 DEF CreateMetadata, Comes, Exits
      <4>4. CASE InsertVersion(p) BY <4>4 DEF InsertVersion, Comes
      <4>5. CASE CreateLedger(p) BY <4>5 DEF CreateLedger, Comes
      <4>6. CASE SelectMigration(p) BY <4>6 DEF SelectMigration, Comes
      <4>7. CASE ApplyMigration(p) BY <4>7 DEF ApplyMigration, Comes, Exits
      <4>8. CASE OpenCustody(p) BY <4>8 DEF OpenCustody, Comes, Exits
      <4>9. CASE StartRuntime(p) BY <4>9 DEF StartRuntime, Comes
      <4>10. CASE Listen(p) BY <4>10 DEF Listen, Comes, Exits
      <4>11. CASE ServerClosed(p) BY <4>11 DEF ServerClosed, Comes
      <4>12. CASE StartAgain(p) BY <4>12 DEF StartAgain, Comes
      <4>13. CASE Crash(p) BY <4>13 DEF Crash, Exits
      <4> QED BY <2>1, <2>3, <4>1, <4>2, <4>3, <4>4, <4>5, <4>6, <4>7, <4>8, <4>9, <4>10,
                 <4>11, <4>12, <4>13
              DEF Lifecycle, GoesOn, Starting, Begin, Closes, Migrating
    <3>3. stops' \in Nat /\ stops' >= stops BY <3>1 DEF SignalInv
    <3> QED BY <1>1, <1>2, <3>1, <3>2, <3>3
  <2> QED BY <2>2, <2>3
<1>4. CASE \/ \E s \in Stream : Connect(s) \/ Leave(s) \/ Subscribe(s)
           \/ \E s \in Stream, a \in Address : Watch(s, a) \/ Unwatch(s, a)
           \/ \E a \in Address : Grow(a) \/ CreateAccount(a)
  <2>1. UNCHANGED <<pc, stops>>
    BY <1>4 DEF Connect, Leave, Subscribe, Watch, Unwatch, Grow, CreateAccount, daemon,
       processes, events
  <2> QED BY <1>2, <2>1
<1>5. CASE Syncing
  <2>1. UNCHANGED <<pc, stops>>
    BY <1>5 DEF Syncing, RestoreAccount, CacheSend, AnswerAdd, FinishAdd, Reconcile,
       AskNode, StoreInfo, BackoffEnds, daemon, processes, events
  <2> QED BY <1>2, <2>1
<1> QED BY <1>3, <1>4, <1>5 DEF Next

-------------------------------------------------------------------------------
(* The theorems                                                            *)

LEMMA ApiInitHolds == ApiInit => ApiIInv
<1> SUFFICES ASSUME ApiInit PROVE ApiIInv OBVIOUS
<1>1. setup \in Setup BY DEF ApiInit, Init, DaemonInit
<1>2. /\ attempt = [k \in Try |-> [at |-> "idle", step |-> 1, status |-> 0, after |-> FALSE]]
      /\ made = {} /\ told = {} /\ keyed = FALSE /\ hurried = FALSE
  BY DEF ApiInit
<1>3. ApiTypes
  <2>1. [at |-> "idle", step |-> 1, status |-> 0, after |-> FALSE] \in Attempt BY DEF Attempt
  <2>2. attempt \in [Try -> Attempt] BY <1>2, <2>1
  <2> QED BY <1>1, <1>2, <2>2 DEF ApiTypes
<1>s. SignalInv
  <2>1. /\ pc = [p \in Process |-> IF setup.up /\ p \in setup.processes THEN "serving" ELSE "down"]
        /\ stops = 0
    BY DEF ApiInit, Init, DaemonInit
  <2> QED BY <2>1 DEF SignalInv
<1>4. \A k \in Try : /\ attempt[k].at = "idle" /\ attempt[k].step = 1
                     /\ attempt[k].status = 0 /\ ~ attempt[k].after
  BY <1>2
<1>5. CASE Mutates
  <2>1. ASSUME NEW k \in Try, NEW x PROVE ~ Passed(k, x)
    <3>1. \A n \in DOMAIN Course[Op] : ~ n < 1
      BY <1>5, Courses DEF Mutates, Op, Orderly
    <3> QED BY <1>4, <3>1 DEF Passed
  <2>2. Beginnings /\ AnswersAreKnown /\ RepeatsAreRepeated
    BY <1>4 DEF Beginnings, AnswersAreKnown, Answered, RepeatsAreRepeated
  <2>3. EffectsArePassed BY <1>2, <2>1 DEF EffectsArePassed
  <2>4. SecondHasReason
    <3>1. 2 \in Try BY DEF Try, MaxTries
    <3> QED BY <1>4, <3>1 DEF SecondHasReason
  <2> QED BY <1>3, <1>5, <1>s, <2>2, <2>3, <2>4 DEF ApiIInv, RequestInv
<1>6. CASE ~ Mutates
  <2>1. \A k \in Try : ~ InFlight(k) BY <1>4 DEF InFlight
  <2> QED BY <1>3, <1>6, <1>s, <2>1 DEF ApiIInv
<1> QED BY <1>5, <1>6

LEMMA ApiStepHolds == ApiIInv /\ [ApiNext]_apivars => ApiIInv'
<1> SUFFICES ASSUME ApiIInv, [ApiNext]_apivars PROVE ApiIInv' OBVIOUS
<1>1. CASE Served
  <2>1. setup' = setup BY <1>1, SetupStays DEF Served
  <2>2. SignalInv' /\ stops' \in Nat /\ stops' >= stops
    BY <1>1, <2>1, SignalStep DEF Served, ApiIInv
  <2> QED BY <1>1, <2>1, <2>2, ServedHolds DEF Served
<1>2. CASE \E k \in Try : Ask(k) \/ Handle(k) BY <1>2, AskHolds, HandleHolds
<1>3. CASE UNCHANGED apivars
  <2>1. UNCHANGED <<setup, pc, stops, attempt, made, told, keyed, hurried>>
    BY <1>3 DEF apivars, vars, daemon, processes, events, api
  <2>2. SignalInv' /\ stops' \in Nat /\ stops' >= stops
    BY <2>1 DEF ApiIInv, SignalInv
  <2> QED BY <2>1, <2>2, ServedHolds
<1> QED BY <1>1, <1>2, <1>3 DEF ApiNext

LEMMA ApiHolds == ApiSpec => []ApiIInv
BY ApiInitHolds, ApiStepHolds, PTL DEF ApiSpec

(* The Idempotency-Key of the mutating routes (handler.ts) and the         *)
(* idempotency store of the Runtime: whatever the first request came to,   *)
(* however the steps of the two interleave, and whenever the process dies  *)
(* or closes, a request sent after a success, or when the key is recorded, *)
(* makes and tells nothing, and is answered with that success.             *)
THEOREM RepeatsAreHarmless == ApiSpec => []RepeatsChangeNothing
<1>1. ApiIInv => RepeatsChangeNothing
  <2> SUFFICES ASSUME ApiIInv, Mutates, NEW k \in Try, attempt[k].after
               PROVE  /\ k \notin made /\ k \notin told
                      /\ Answered(k) => \/ attempt[k].status = 200
                                        \/ attempt[k].status = 500 /\ stops > 0
    BY DEF RepeatsChangeNothing
  <2>1. Repeated(k) BY DEF ApiIInv, RequestInv, RepeatsAreRepeated
  <2>2. ~ Passed(k, "tell")
    <3> SUFFICES ASSUME Passed(k, "tell") PROVE Passed(k, "do") BY <2>1 DEF Repeated
    <3>1. PICK c : c = Course[Op] OBVIOUS
    <3>2. Orderly(c) BY <3>1, Courses DEF Mutates, Op
    <3>3. PICK m \in DOMAIN c : c[m] = "tell" /\ m < attempt[k].step BY <3>1 DEF Passed
    <3>4. PICK n \in DOMAIN c : c[n] = "do" /\ n < m BY <3>2, <3>3 DEF Orderly
    <3>5. m \in 1..5 /\ n \in 1..5 /\ attempt[k].step \in 1..6
      BY <3>2 DEF Orderly, ApiIInv, ApiTypes, Attempt
    <3> QED BY <3>1, <3>3, <3>4, <3>5 DEF Passed
  <2> QED BY <2>1, <2>2 DEF ApiIInv, RequestInv, EffectsArePassed, Repeated
<1> QED BY <1>1, ApiHolds, PTL

(* What the handler answers to each of the requests is what has become of  *)
(* the mutation, and of it alone.                                          *)
THEOREM ClientIsToldTheTruth == ApiSpec => []AnswersAreTrue
<1>1. ApiIInv => AnswersAreTrue
  <2> SUFFICES ASSUME ApiIInv, Mutates, NEW k \in Try, Answered(k)
               PROVE  /\ attempt[k].status = 200 => made # {}
                      /\ attempt[k].status \in 400..499 =>
                             made = {} \/ (Interrupted /\ Again(Op) = attempt[k].status)
                      /\ made # {} /\ ~ Interrupted => attempt[k].status = 200
    BY DEF AnswersAreTrue
  <2>1. \/ attempt[k].status = 200 /\ made # {}
        \/ attempt[k].status = 500
        \/ attempt[k].status = Refusal /\ Refusal # 200
        \/ attempt[k].status = Again(Op) /\ Interrupted /\ made # {}
    BY DEF ApiIInv, RequestInv, AnswersAreKnown
  <2>2. attempt[k].status = 500 => Interrupted BY DEF Interrupted
  <2>3. Refusal # 200 => made = {} BY MadeIsIn
  <2> QED BY <2>1, <2>2, <2>3
<1> QED BY <1>1, ApiHolds, PTL
-------------------------------------------------------------------------------
(* The migrations                                                          *)

Where == {"down", "open", "create", "version", "ledger", "select", "apply", "custody",
          "run", "listen", "serving", "closing", "stopped"}
Upgraded == {"custody", "run", "listen", "serving"}

(* The first n migrations are recorded, and have been made.                *)
Recorded(n) ==
    /\ applied = 1..n
    /\ schema = Grown(setup.level, setup.filled, n) /\ schema.ok

(* A process has found recorded what comes before its migration.           *)
Follows(p) ==
    /\ pc[p] \in {"select", "apply"} => 1 <= at[p] /\ 1..(at[p] - 1) \subseteq applied
    /\ pc[p] = "apply" => at[p] <= Newest
    /\ pc[p] \in Upgraded => applied = 1..Newest

LedgerInv ==
    /\ setup \in Setup /\ pc \in [Process -> Where] /\ at \in [Process -> Nat]
    /\ \E n \in setup.level..Newest : Recorded(n)
    /\ \A p \in Process : Follows(p)

LEMMA NewestType == Newest \in Nat
BY DEF Newest, Steps

(* A process goes somewhere, and the database stays.                       *)
LEMMA ProcessGoes ==
    ASSUME LedgerInv, UNCHANGED <<applied, schema, setup>>, NEW p \in Process,
           NEW w \in Where, Goes(p, w), at' \in [Process -> Nat],
           \A q \in Process \ {p} : at'[q] = at[q],
           w \in {"select", "apply"} => 1 <= at'[p] /\ 1..(at'[p] - 1) \subseteq applied,
           w = "apply" => at'[p] <= Newest,
           w \in Upgraded => applied = 1..Newest
    PROVE  LedgerInv'
<1>1. \A q \in Process : pc'[q] = IF q = p THEN w ELSE pc[q]
  BY DEF Goes, LedgerInv
<1>2. pc' \in [Process -> Where] BY DEF Goes, LedgerInv
<1>3. ASSUME NEW q \in Process PROVE Follows(q)'
  <2>1. CASE q = p BY <1>1, <2>1 DEF Follows
  <2>2. CASE q # p BY <1>1, <2>2 DEF Follows, LedgerInv
  <2> QED BY <2>1, <2>2
<1>4. PICK n \in setup.level..Newest : Recorded(n) BY DEF LedgerInv
<1>5. Recorded(n)' BY <1>4 DEF Recorded
<1> QED BY <1>2, <1>3, <1>4, <1>5 DEF LedgerInv

(* What leaves the processes and the database alone keeps it.              *)
LEMMA LedgerStays ==
    ASSUME LedgerInv, UNCHANGED <<applied, schema, setup, pc, at>>
    PROVE  LedgerInv'
<1>1. PICK n \in setup.level..Newest : Recorded(n) BY DEF LedgerInv
<1>2. Recorded(n)' BY <1>1 DEF Recorded
<1>3. \A p \in Process : Follows(p)' BY DEF Follows, LedgerInv
<1> QED BY <1>1, <1>2, <1>3 DEF LedgerInv

LEMMA BeginningStep ==
    ASSUME LedgerInv, NEW p \in Process,
           \/ Launch(p) \/ OpenDatabase(p) \/ CreateMetadata(p) \/ InsertVersion(p)
           \/ Signal(p) \/ ServerClosed(p) \/ StartAgain(p) \/ Crash(p)
    PROVE  LedgerInv'
<1>1. PICK w \in {"open", "ledger", "create", "down", "version", "closing", "stopped"} :
          Goes(p, w)
  BY DEF Launch, OpenDatabase, CreateMetadata, InsertVersion, Signal, ServerClosed,
         StartAgain, Crash, Exits
<1>2. UNCHANGED <<applied, schema, setup, at>>
  BY DEF Launch, OpenDatabase, CreateMetadata, InsertVersion, Signal, ServerClosed,
         StartAgain, Crash, Exits, database
<1>3. at' \in [Process -> Nat] BY <1>2 DEF LedgerInv
<1>4. w \in Where /\ w \notin {"select", "apply"} /\ w \notin Upgraded
  BY DEF Where, Upgraded
<1> QED BY <1>1, <1>2, <1>3, <1>4, ProcessGoes

LEMMA LedgerStep ==
    ASSUME LedgerInv, NEW p \in Process, CreateLedger(p) PROVE LedgerInv'
<1>1. Goes(p, "select") /\ UNCHANGED <<applied, schema, setup>>
      /\ at' = [at EXCEPT ![p] = 1]
  BY DEF CreateLedger
<1>2. /\ at' \in [Process -> Nat] /\ at'[p] = 1
      /\ \A q \in Process \ {p} : at'[q] = at[q]
  BY <1>1 DEF LedgerInv
<1>3. 1..(1 - 1) \subseteq applied OBVIOUS
<1>4. "select" \in Where /\ "select" \notin Upgraded BY DEF Where, Upgraded
<1> QED BY <1>1, <1>2, <1>3, <1>4, ProcessGoes

(* It looks at the migrations one after the other.                         *)
LEMMA SelectStep ==
    ASSUME LedgerInv, NEW p \in Process, SelectMigration(p) PROVE LedgerInv'
<1>t. at \in [Process -> Nat] /\ pc \in [Process -> Where] BY DEF LedgerInv
<1>1. pc[p] = "select" /\ UNCHANGED <<applied, schema, setup>>
  BY DEF SelectMigration, Comes, database
<1>2. PICK k \in Nat : k = at[p] BY <1>t
<1>3. 1 <= k /\ 1..(k - 1) \subseteq applied BY <1>1, <1>2 DEF LedgerInv, Follows
<1>4. CASE k > Newest /\ Goes(p, "custody") /\ UNCHANGED at
  <2>1. PICK n \in setup.level..Newest : Recorded(n) BY DEF LedgerInv
  <2>2. n \in Int /\ n <= Newest /\ applied = 1..n BY <2>1 DEF Recorded
  <2>3. applied = 1..Newest
    <3>1. CASE Newest = 0
      <4>1. n <= 0 BY <2>2, <3>1
      <4> QED BY <2>2, <3>1, <4>1
    <3>2. CASE Newest # 0
      <4>1. Newest \in 1..(k - 1) BY <1>4, <3>2, NewestType
      <4>2. Newest \in 1..n BY <1>3, <2>2, <4>1
      <4>3. Newest = n BY <2>2, <4>2, NewestType
      <4> QED BY <2>2, <4>3
    <3> QED BY <3>1, <3>2
  <2>4. "custody" \in Where /\ "custody" \notin {"select", "apply"} BY DEF Where
  <2> QED BY <1>1, <1>4, <1>t, <2>3, <2>4, ProcessGoes
<1>5. CASE k \in applied /\ at' = [at EXCEPT ![p] = k + 1] /\ UNCHANGED pc
  <2>1. Goes(p, "select") BY <1>1, <1>5, <1>t DEF Goes
  <2>2. /\ at' \in [Process -> Nat] /\ at'[p] = k + 1
        /\ \A q \in Process \ {p} : at'[q] = at[q]
    BY <1>5, <1>t
  <2>3. 1 <= k + 1 /\ 1..(k + 1 - 1) \subseteq applied
    <3>1. \A m \in 1..(k + 1 - 1) : m = k \/ m \in 1..(k - 1) OBVIOUS
    <3> QED BY <1>3, <1>5, <3>1
  <2>4. "select" \in Where /\ "select" \notin Upgraded BY DEF Where, Upgraded
  <2> QED BY <1>1, <2>1, <2>2, <2>3, <2>4, ProcessGoes
<1>6. CASE k \in 1..Newest \ applied /\ Goes(p, "apply") /\ UNCHANGED at
  <2>1. "apply" \in Where /\ "apply" \notin Upgraded BY DEF Where, Upgraded
  <2>2. k <= Newest BY <1>6, NewestType
  <2> QED BY <1>1, <1>2, <1>3, <1>6, <1>t, <2>1, <2>2, ProcessGoes
<1>7. \/ k > Newest /\ Goes(p, "custody") /\ UNCHANGED at
      \/ k \in applied /\ at' = [at EXCEPT ![p] = k + 1] /\ UNCHANGED pc
      \/ k \in 1..Newest \ applied /\ Goes(p, "apply") /\ UNCHANGED at
  BY <1>2, <1>t DEF SelectMigration
<1> QED BY <1>4, <1>5, <1>6, <1>7

(* A migration is made when those before it are recorded, and it is not.   *)
LEMMA ApplyStep ==
    ASSUME LedgerInv, NEW p \in Process, ApplyMigration(p) PROVE LedgerInv'
<1>t. at \in [Process -> Nat] /\ pc \in [Process -> Where] /\ setup \in Setup
  BY DEF LedgerInv
<1>1. PICK k \in Nat : k = at[p] BY <1>t
<1>2. pc[p] = "apply" /\ UNCHANGED setup BY DEF ApplyMigration, Comes
<1>3. 1 <= k /\ k <= Newest /\ 1..(k - 1) \subseteq applied
  BY <1>1, <1>2 DEF LedgerInv, Follows
<1>4. CASE Goes(p, "down") /\ UNCHANGED <<at, schema, applied>>
  <2>1. "down" \in Where /\ "down" \notin {"select", "apply"} /\ "down" \notin Upgraded
    BY DEF Where, Upgraded
  <2> QED BY <1>2, <1>4, <1>t, <2>1, ProcessGoes
<1>5. CASE /\ k \notin applied /\ Migrated(schema, k).ok
           /\ schema' = Migrated(schema, k) /\ applied' = applied \cup {k}
           /\ at' = [at EXCEPT ![p] = k + 1] /\ Goes(p, "select")
  <2>l. PICK l, filled : l = setup.level /\ filled = setup.filled OBVIOUS
  <2>m. l \in 0..Newest /\ filled \in BOOLEAN
    BY <1>t, <2>l, StartupAssumption
  <2>1. PICK n \in l..Newest : Recorded(n) BY <2>l DEF LedgerInv
  <2>2. applied = 1..n /\ schema = Grown(l, filled, n) /\ schema.ok
    BY <2>1, <2>l DEF Recorded
  <2>3. n \in Nat /\ n <= Newest BY <2>m, <2>1, NewestType
  <2>4. k = n + 1
    <3>1. k - 1 <= n
      <4>1. CASE k = 1 BY <2>3, <4>1
      <4>2. CASE k # 1
        <5>1. k - 1 \in 1..(k - 1) BY <1>3, <4>2
        <5>2. k - 1 \in 1..n BY <1>3, <2>2, <5>1
        <5> QED BY <2>3, <5>2
      <4> QED BY <4>1, <4>2
    <3>2. ~ (k <= n) BY <1>3, <1>5, <2>2, <2>3
    <3> QED BY <2>3, <3>1, <3>2
  <2>5. Grown(l, filled, n + 1) = Migrated(Grown(l, filled, n), n + 1)
    <3>1. n < Newest BY <1>3, <2>3, <2>4, NewestType
    <3> QED BY <2>m, <2>1, <3>1, MigrationsGrow
  <2>6. Recorded(k)'
    <3>1. applied' = 1..k BY <1>5, <2>2, <2>3, <2>4
    <3>2. schema' = Grown(l, filled, k) BY <1>5, <2>2, <2>4, <2>5
    <3>3. schema'.ok BY <1>5
    <3> QED BY <1>2, <2>l, <3>1, <3>2, <3>3 DEF Recorded
  <2>7. k \in setup'.level..Newest BY <1>2, <1>3, <2>l, <2>m, <2>1, <2>3, <2>4, NewestType
  <2>8. /\ \A q \in Process : pc'[q] = IF q = p THEN "select" ELSE pc[q]
        /\ \A q \in Process : at'[q] = IF q = p THEN k + 1 ELSE at[q]
        /\ pc' \in [Process -> Where] /\ at' \in [Process -> Nat]
    BY <1>5, <1>t DEF Goes, Where
  <2>9. ASSUME NEW q \in Process PROVE Follows(q)'
    <3>1. CASE q = p
      <4>1. 1 <= k + 1 /\ 1..(k + 1 - 1) \subseteq applied'
        BY <2>2, <2>3, <2>4, <1>5
      <4> QED BY <2>8, <3>1, <4>1 DEF Follows, Upgraded
    <3>2. CASE q # p
      <4>1. pc'[q] = pc[q] /\ at'[q] = at[q] BY <2>8, <3>2
      <4>2. pc[q] \notin Upgraded
        <5>1. applied # 1..Newest BY <1>3, <1>5, NewestType
        <5> QED BY <5>1 DEF LedgerInv, Follows
      <4>3. applied \subseteq applied' BY <1>5
      <4> QED BY <4>1, <4>2, <4>3 DEF LedgerInv, Follows
    <3> QED BY <3>1, <3>2
  <2> QED BY <1>2, <1>t, <2>6, <2>7, <2>8, <2>9 DEF LedgerInv
<1>6. \/ Goes(p, "down") /\ UNCHANGED <<at, schema, applied>>
      \/ /\ k \notin applied /\ Migrated(schema, k).ok
         /\ schema' = Migrated(schema, k) /\ applied' = applied \cup {k}
         /\ at' = [at EXCEPT ![p] = k + 1] /\ Goes(p, "select")
  BY <1>1, <1>t DEF ApplyMigration, Exits
<1> QED BY <1>4, <1>5, <1>6

(* Who has gone past the migrations goes on, or ends.                      *)
LEMMA RunningStep ==
    ASSUME LedgerInv, NEW p \in Process,
           OpenCustody(p) \/ StartRuntime(p) \/ Listen(p)
    PROVE  LedgerInv'
<1>1. /\ pc[p] \in Upgraded /\ UNCHANGED <<applied, schema, setup, at>>
      /\ \E w \in {"run", "listen", "serving", "down"} : Goes(p, w)
  BY DEF OpenCustody, StartRuntime, Listen, Comes, Exits, database, Upgraded
<1>2. applied = 1..Newest /\ at' \in [Process -> Nat]
  BY <1>1 DEF LedgerInv, Follows
<1>3. PICK w \in {"run", "listen", "serving", "down"} : Goes(p, w) BY <1>1
<1>4. w \in Where /\ w \notin {"select", "apply"} BY DEF Where
<1> QED BY <1>1, <1>2, <1>3, <1>4, ProcessGoes

LEMMA LedgerNext == ASSUME LedgerInv, Next PROVE LedgerInv'
<1>1. ASSUME NEW p \in Process, Lifecycle(p) PROVE LedgerInv'
  <2>1. \/ Launch(p) \/ OpenDatabase(p) \/ CreateMetadata(p) \/ InsertVersion(p)
        \/ Signal(p) \/ ServerClosed(p) \/ StartAgain(p) \/ Crash(p)
        \/ CreateLedger(p) \/ SelectMigration(p) \/ ApplyMigration(p)
        \/ OpenCustody(p) \/ StartRuntime(p) \/ Listen(p)
    BY <1>1 DEF Lifecycle, GoesOn, Starting, Begin, Closes, Migrating
  <2> QED BY <2>1, BeginningStep, LedgerStep, SelectStep, ApplyStep, RunningStep
<1>2. CASE UNCHANGED daemon
  BY <1>2, LedgerStays DEF daemon, database, processes
<1>3. \/ \E p \in Process : Lifecycle(p)
      \/ UNCHANGED daemon
  <2>1. CASE \/ \E s \in Stream : Connect(s) \/ Leave(s) \/ Subscribe(s)
             \/ \E s \in Stream, a \in Address : Watch(s, a) \/ Unwatch(s, a)
             \/ \E a \in Address : Grow(a) \/ CreateAccount(a)
    BY <2>1 DEF Connect, Leave, Subscribe, Watch, Unwatch, Grow, CreateAccount
  <2>2. CASE Syncing
    BY <2>2 DEF Syncing, RestoreAccount, CacheSend, AnswerAdd, FinishAdd, Reconcile,
       AskNode, StoreInfo, BackoffEnds
  <2> QED BY <2>1, <2>2 DEF Next
<1> QED BY <1>1, <1>2, <1>3

LEMMA LedgerInit == ASSUME DaemonInit PROVE LedgerInv
<1>1. /\ setup \in Setup /\ applied = 1..setup.level
      /\ schema = Base(setup.level, setup.filled)
      /\ pc = [p \in Process |->
                  IF setup.up /\ p \in setup.processes THEN "serving" ELSE "down"]
      /\ at = [p \in Process |-> 0]
  BY DEF DaemonInit
<1>l. PICK l, filled : l = setup.level /\ filled = setup.filled OBVIOUS
<1>2. l \in 0..Newest /\ filled \in BOOLEAN /\ (setup.up => l = Newest)
  BY <1>1, <1>l, StartupAssumption
<1>3. l \in l..Newest BY <1>2, NewestType
<1>4. Recorded(l)
  <2>1. Grown(l, filled, l) = Base(l, filled) /\ Base(l, filled).ok
    BY <1>2, MigrationsGrow
  <2> QED BY <1>1, <1>l, <2>1 DEF Recorded
<1>5. ASSUME NEW p \in Process PROVE Follows(p)
  <2>1. pc[p] = "down" \/ (pc[p] = "serving" /\ setup.up) BY <1>1
  <2>2. setup.up => applied = 1..Newest BY <1>1, <1>l, <1>2
  <2> QED BY <2>1, <2>2 DEF Follows, Upgraded
<1>6. pc \in [Process -> Where] /\ at \in [Process -> Nat] BY <1>1 DEF Where
<1> QED BY <1>1, <1>l, <1>3, <1>4, <1>5, <1>6 DEF LedgerInv

(* Whatever processes start, die or race over the file (main.ts, storage): *)
(* the migrations recorded are the first ones, the schema is what they     *)
(* make, no row is lost, and who serves has the newest.                    *)
THEOREM DatabaseIsMigrated == ApiSpec => []MigrationsAreTrue
<1>1. ApiInit => LedgerInv BY LedgerInit DEF ApiInit, Init
<1>2. LedgerInv /\ [ApiNext]_apivars => LedgerInv'
  <2> SUFFICES ASSUME LedgerInv, [ApiNext]_apivars PROVE LedgerInv' OBVIOUS
  <2>1. CASE Served BY <2>1, LedgerNext DEF Served
  <2>2. CASE UNCHANGED vars
    BY <2>2, LedgerStays DEF vars, daemon, database, processes
  <2>3. ASSUME NEW k \in Try, Ask(k) \/ Handle(k) PROVE UNCHANGED vars
    BY <2>3 DEF Ask, Handle, LookUp, Find, CheckFirst, Do, PutKey, TellEvent,
       StatementFails, Return
  <2>4. UNCHANGED apivars => UNCHANGED vars BY DEF apivars
  <2> QED BY <2>1, <2>2, <2>3, <2>4 DEF ApiNext
<1>3. LedgerInv => MigrationsAreTrue
  <2> SUFFICES ASSUME LedgerInv PROVE MigrationsAreTrue OBVIOUS
  <2>l. PICK l, filled : l = setup.level /\ filled = setup.filled OBVIOUS
  <2>1. PICK n \in l..Newest : Recorded(n) BY <2>l DEF LedgerInv
  <2>2. l \in 0..Newest /\ filled \in BOOLEAN BY <2>l, StartupAssumption DEF LedgerInv
  <2>3. n \in Nat BY <2>1, <2>2, NewestType
  <2>4. applied = 1..n /\ schema = Grown(l, filled, n) /\ schema.ok
    BY <2>1, <2>l DEF Recorded
  <2>5. Cardinality(applied) = n
    <3>1. Cardinality(1..n) = IF 1 > n THEN 0 ELSE n - 1 + 1 BY <2>3, FS_Interval
    <3> QED BY <2>3, <2>4, <3>1
  <2>6. Same(schema, At(n)) /\ (filled => KeepsRows(schema, At(l)))
    BY <2>1, <2>2, <2>4, MigrationsGrow
  <2>7. \A p \in Process : pc[p] \in {"custody", "run", "listen", "serving"} =>
                               applied = 1..Newest
    BY DEF LedgerInv, Follows, Upgraded
  <2> QED BY <2>l, <2>4, <2>5, <2>6, <2>7 DEF MigrationsAreTrue
<1> QED BY <1>1, <1>2, <1>3, PTL DEF ApiSpec
===============================================================================
