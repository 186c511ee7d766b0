-------------------------------- MODULE HttpApi --------------------------------
(***************************************************************************)
(* The HTTP API of a serving process (packages/runtime/src/handler.ts): who *)
(* is let in, which request reaches which operation of the Runtime, with    *)
(* what status it is refused, and what becomes of a request that changes    *)
(* something when its process dies or shuts down under it and the client    *)
(* sends it again with the same Idempotency-Key.                            *)
(*                                                                         *)
(* A request is its route and the things its route asks for that it has.   *)
(* POST /invoices, POST /accounts/:id/watch and the streams are refused     *)
(* here like any other and modelled in modules of their own                *)
(* (InvoiceCreation, AccountStreams).                                      *)
(***************************************************************************)
EXTENDS AccountStreams

MaxTries == 2
Try == 1..MaxTries

VARIABLES
    attempt,   \* [Try -> where the client's n-th request is, and whether it was
               \* sent after a success or with a key that was recorded]
    made,      \* the requests that have taken effect
    told,      \* the requests whose event is in the log
    keyed,     \* its Idempotency-Key is recorded
    hurried    \* the client has sent it again before an answer

api     == <<attempt, made, told, keyed, hurried>>
apivars == <<vars, api>>

-------------------------------------------------------------------------------
(* The routes, each with what it asks for, in the order of its questions,  *)
(* and the status of the answer when the request does not have it          *)

Need(what, status) == [what |-> what, status |-> status]

Key       == Need("key", 400)
Json      == Need("json", 500)       \* req.json() throws
Body      == Need("body", 400)
Found     == Need("resource", 404)
Custodial == Need("custodial", 501)
StreamId  == Need("stream", 400)
Node      == Need("node", 502)
Ready(what) == Need(what, 503)

R(method, path, op, needs) == [method |-> method, path |-> path, op |-> op, needs |-> needs]

PublicRoutes ==
    {R("GET", <<>>, "read", <<>>),
     R("GET", <<"dashboard">>, "read", <<>>),
     R("GET", <<"health", "live">>, "read", <<>>),
     R("GET", <<"health", "storage">>, "read", <<Ready("deposits"), Ready("storage")>>),
     R("GET", <<"health", "ready">>, "read", <<Ready("node"), Ready("synced"), Ready("storage")>>),
     R("GET", <<"v1", "version">>, "read", <<>>)}

AccountRoutes ==
    {R("POST", <<"v1", "accounts">>, "createManaged",
       <<Json, Key, Need("type", 400), Custodial, Body>>),
     R("POST", <<"v1", "accounts">>, "createWatched", <<Json, Key, Need("type", 400), Body>>),
     R("GET", <<"v1", "accounts">>, "read", <<>>),
     R("GET", <<"v1", "accounts", ":id">>, "read", <<Found>>),
     R("PATCH", <<"v1", "accounts", ":id">>, "updateAccount", <<Key, Json, Found>>),
     R("DELETE", <<"v1", "accounts", ":id">>, "deleteAccount",
       <<Key, Found, Need("empty", 409), Need("sendless", 409)>>)}

StreamRoutes ==
    {R("GET", <<"v1", "accounts", "stream">>, "stream", <<>>),
     R("POST", <<"v1", "accounts", ":id", "watch">>, "stream", <<Found, StreamId>>),
     R("DELETE", <<"v1", "accounts", ":id", "watch">>, "stream", <<Found, StreamId>>)}

SendRoutes ==
    {R("POST", <<"v1", "accounts", ":id", "sends">>, "queueSend",
       <<Custodial, Json, Body, Key, Found, Need("managed", 409)>>),
     R("GET", <<"v1", "accounts", ":id", "sends">>, "read", <<Found>>),
     R("GET", <<"v1", "accounts", ":id", "deposits">>, "read", <<Found>>),
     R("GET", <<"v1", "accounts", ":id", "receivable">>, "read", <<Found, Node>>),
     R("GET", <<"v1", "sends", ":id">>, "read", <<Found>>)}

(* In the Runtime, not in the handler: a mode without custody is a 400.    *)
RefundRoutes ==
    {R("GET", <<"v1", "deposits", ":id", "refunds">>, "read", <<Found>>),
     R("POST", <<"v1", "deposits", ":id", "refunds">>, "queueRefund",
       <<Key, Json, Body, Need("custodial", 400), Found, Need("source", 409),
         Need("remainder", 409)>>)}

BlockRoutes ==
    {R("POST", <<"v1", "blocks">>, "publishBlock", <<Json, Body, Key, Need("work", 422)>>),
     R("POST", <<"v1", "work">>, "read", <<Json, Body, Node>>)}

EventRoutes ==
    {R("GET", <<"v1", "events", "stream">>, "stream", <<>>),
     R("GET", <<"v1", "events">>, "read", <<>>)}

InvoiceAccountRoutes ==
    {R("GET", <<"v1", "invoice-accounts", ":key", "balance">>, "read", <<Found>>)}
        \cup {R("GET", <<"v1", "invoice-accounts", ":key", list>>, "read", <<>>) :
                list \in {"aggregated-balance", "invoices", "deposits"}}

InvoiceRoutes ==
    {R("POST", <<"v1", "invoices">>, "createInvoice", <<Custodial, Json, Body, Key>>),
     R("GET", <<"v1", "invoices">>, "read", <<>>),
     R("GET", <<"v1", "invoices", "by-key">>, "read", <<Need("accountKey", 400), Found>>),
     R("GET", <<"v1", "invoices", ":id">>, "read", <<Found>>),
     R("POST", <<"v1", "invoices", ":id", "cancel">>, "cancelInvoice",
       <<Key, Found, Need("open", 409)>>)}
        \cup {R("GET", <<"v1", "invoices", ":id", list>>, "read", <<Found>>) :
                list \in {"payments", "events"}}

WebhookRoutes ==
    {R("POST", <<"v1", "webhooks">>, "createWebhook", <<Json, Body, Key>>),
     R("GET", <<"v1", "webhooks">>, "read", <<>>),
     R("DELETE", <<"v1", "webhooks", ":id">>, "deleteWebhook", <<Key, Found>>)}

(* "Legacy /api routes intentionally 404", and so does whatever else.      *)
OtherRoutes ==
    {R("GET", <<"api", "invoices">>, "none", <<Need("route", 404)>>),
     R("PUT", <<"v1", "invoices">>, "none", <<Need("route", 404)>>),
     R("GET", <<"v1", "invoice-accounts">>, "none", <<Need("route", 400)>>)}

Routes ==
    PublicRoutes \cup AccountRoutes \cup StreamRoutes \cup SendRoutes \cup RefundRoutes
        \cup BlockRoutes \cup EventRoutes \cup InvoiceAccountRoutes \cup InvoiceRoutes
        \cup WebhookRoutes \cup OtherRoutes

-------------------------------------------------------------------------------
(* The door                                                                *)

(* checkAuth asks no key for these.                                        *)
Exempt(c, r) ==
    /\ r.method = "GET"
    /\ \/ r.path \in {<<>>, <<"v1", "version">>}
       \/ r.path \in {<<"health", probe>> : probe \in {"live", "ready", "storage"}}
       \/ r.path = <<"dashboard">> /\ ~ c.guarded

(* What the process has, whatever the request: its mode, and its accounts  *)
(* asked for since it started.                                             *)
Provided ==
    (IF setup.config.mode = "custodial" THEN {"custodial"} ELSE {})
        \cup (IF restoring = {} /\ \A a \in Address : adding[Restorer][a] = None
              THEN {"synced"} ELSE {})

Lacks(request) ==
    {n \in DOMAIN request.route.needs :
        request.route.needs[n].what \notin request.has \cup Provided}

(* The first question that has no answer, if any, gives the status.        *)
Status(request) ==
    IF ~ request.bearer /\ ~ Exempt(setup.config, request.route) THEN 401
    ELSE IF Lacks(request) = {} THEN 200
    ELSE request.route.needs[CHOOSE n \in Lacks(request) :
                                \A m \in Lacks(request) : n <= m].status

-------------------------------------------------------------------------------
(* The mutations, as the Runtime goes about each: "look" the key up in the *)
(* idempotency store, "find" or "check" the resource, "do" it, "tell" the  *)
(* event, "put" the key in the store                                       *)

createManagedAccount  == <<"look", "find", "do", "tell", "put">>
createWatchedAccount  == <<"look", "find", "do", "tell", "put">>
updateAccount         == <<"look", "do", "put">>
deleteAccount         == <<"look", "check", "do", "tell", "put">>
queueSend             == <<"find", "look", "do", "put", "tell">>
queueRefund           == <<"do", "put", "tell">>
publishBlock          == <<"look", "do", "put", "tell">>
cancelInvoice         == <<"look", "check", "do", "put", "tell">>
createWebhookEndpoint == <<"look", "do", "put">>
deleteWebhookEndpoint == <<"look", "do", "put">>

Course ==
    [createManaged |-> createManagedAccount,
     createWatched |-> createWatchedAccount,
     updateAccount |-> updateAccount,
     deleteAccount |-> deleteAccount,
     queueSend     |-> queueSend,
     queueRefund   |-> queueRefund,
     publishBlock  |-> publishBlock,
     cancelInvoice |-> cancelInvoice,
     createWebhook |-> createWebhookEndpoint,
     deleteWebhook |-> deleteWebhookEndpoint]

(* Made again: the row of a webhook endpoint is another one, that of an    *)
(* account that is updated is the same ...                                 *)
Repeatable == {"createWebhook", "updateAccount"}

(* ... a send or a refund with the key is answered with the one there is,  *)
(* and what cannot be made twice fails: on a UNIQUE column, at the node,   *)
(* or because there is nothing left to cancel or to delete.                *)
Again(op) ==
    CASE op \in {"queueSend", "queueRefund"} -> 200
      [] op \in {"deleteAccount", "deleteWebhook"} -> 404
      [] op = "cancelInvoice" -> 409
      [] OTHER -> 500

Mutates == setup.tries > 0 /\ setup.request.route.op \in DOMAIN Course

-------------------------------------------------------------------------------
(* A request                                                               *)

ASSUME ApiAssumption ==
    \A s \in Setup :
        /\ s.tries \in 0..MaxTries
        /\ s.tries > 0 => s.request.route \in Routes /\ s.request.bearer \in BOOLEAN

Alive == \E p \in Process : pc[p] \in {"serving", "closing"}

ApiInit ==
    /\ Init
    /\ attempt = [k \in Try |-> [at |-> "idle", step |-> 1, status |-> 0, after |-> FALSE]]
    /\ made = {} /\ told = {}
    /\ keyed = FALSE /\ hurried = FALSE

Op == setup.request.route.op
Answered(k) == attempt[k].at = "answered"
InFlight(k) == attempt[k].at = "in"
Becomes(k, as) == attempt' = [attempt EXCEPT ![k] = as]
Answers(k, status) == Becomes(k, [attempt[k] EXCEPT !.at = "answered", !.status = status])
GoesOnWith(k) == Becomes(k, [attempt[k] EXCEPT !.step = @ + 1])

(* It is recorded, or the client knows that it has succeeded.              *)
Settled == keyed \/ \E k \in Try : Answered(k) /\ attempt[k].status = 200

(* The client sends it, and sends it again when it has had no answer, an   *)
(* answer that says nothing (5xx), or a success that it forgets or that is *)
(* lost on its way.  What the handler can refuse it refuses.               *)
Ask(k) ==
    /\ Serving /\ k <= setup.tries /\ attempt[k].at = "idle"
    /\ k > 1 => /\ attempt[k - 1].at # "idle"
                /\ Answered(k - 1) => attempt[k - 1].status \in {200} \cup 500..599
    /\ hurried' = (hurried \/ (k > 1 /\ InFlight(k - 1)))
    /\ LET status == Status(setup.request) IN
       Becomes(k, IF status = 200 /\ Mutates
                  THEN [attempt[k] EXCEPT !.at = "in", !.after = Settled]
                  ELSE [attempt[k] EXCEPT !.at = "answered", !.status = status, !.after = Settled])
    /\ UNCHANGED <<vars, made, told, keyed>>

InStep(k, step) ==
    InFlight(k) /\ attempt[k].step \in DOMAIN Course[Op] /\ Course[Op][attempt[k].step] = step

(* Regression: the key is recorded when it is looked up.                   *)
LookUpReserves(k) ==
    /\ Serving /\ InStep(k, "look")
    /\ keyed' = TRUE
    /\ IF keyed THEN Answers(k, 200) ELSE GoesOnWith(k)
    /\ UNCHANGED <<vars, made, told, hurried>>

LookUp(k) ==
    /\ Serving /\ InStep(k, "look")
    /\ IF keyed THEN Answers(k, 200) ELSE GoesOnWith(k)
    /\ UNCHANGED <<vars, made, told, keyed, hurried>>

Find(k) ==
    /\ Serving /\ InStep(k, "find")
    /\ IF made # {} THEN Answers(k, 200) ELSE GoesOnWith(k)
    /\ UNCHANGED <<vars, made, told, keyed, hurried>>

CheckFirst(k) ==
    /\ Serving /\ InStep(k, "check")
    /\ IF made # {} THEN Answers(k, Again(Op)) ELSE GoesOnWith(k)
    /\ UNCHANGED <<vars, made, told, keyed, hurried>>

(* The node takes a block also from a process that is shutting down.       *)
Do(k) ==
    /\ InStep(k, "do")
    /\ Serving \/ (Alive /\ Op = "publishBlock")
    /\ IF made = {} \/ Op \in Repeatable
         THEN made' = made \cup {k} /\ GoesOnWith(k)
         ELSE Answers(k, Again(Op)) /\ UNCHANGED made
    /\ UNCHANGED <<vars, told, keyed, hurried>>

(* Regression: the key is put where nothing looks it up.                   *)
PutElsewhere(k) ==
    /\ Serving /\ InStep(k, "put")
    /\ GoesOnWith(k)
    /\ UNCHANGED <<vars, made, told, keyed, hurried>>

PutKey(k) ==
    /\ Serving /\ InStep(k, "put")
    /\ keyed' = TRUE
    /\ GoesOnWith(k)
    /\ UNCHANGED <<vars, made, told, hurried>>

TellEvent(k) ==
    /\ Serving /\ InStep(k, "tell")
    /\ told' = told \cup {k}
    /\ GoesOnWith(k)
    /\ UNCHANGED <<vars, made, keyed, hurried>>

(* shutdown closes the database under the requests it waits for.           *)
StatementFails(k) ==
    /\ Alive /\ ~ Serving
    /\ InFlight(k) /\ attempt[k].step \in DOMAIN Course[Op]
    /\ ~ (Op = "publishBlock" /\ InStep(k, "do"))
    /\ Answers(k, 500)
    /\ UNCHANGED <<vars, made, told, keyed, hurried>>

Return(k) ==
    /\ Alive /\ InFlight(k) /\ attempt[k].step \notin DOMAIN Course[Op]
    /\ Answers(k, 200)
    /\ UNCHANGED <<vars, made, told, keyed, hurried>>

Handle(k) ==
    \/ LookUp(k) \/ Find(k) \/ CheckFirst(k) \/ Do(k) \/ PutKey(k) \/ TellEvent(k)
    \/ StatementFails(k) \/ Return(k)

(* A request of a process that is gone has no answer.                      *)
Served ==
    /\ Next
    /\ attempt' = IF Alive' THEN attempt
                  ELSE [k \in Try |-> IF InFlight(k) THEN [attempt[k] EXCEPT !.at = "cut"]
                                      ELSE attempt[k]]
    /\ UNCHANGED <<made, told, keyed, hurried>>

ApiNext == Served \/ \E k \in Try : Ask(k) \/ Handle(k)

ApiSpec == ApiInit /\ [][ApiNext]_apivars /\ Fairness

-------------------------------------------------------------------------------
(* Properties                                                              *)

ApiTypeOK ==
    /\ TypeOK
    /\ attempt \in [Try -> [at : {"idle", "in", "answered", "cut"}, step : 1..6, status : 0..599,
                            after : BOOLEAN]]
    /\ made \subseteq Try /\ told \subseteq Try /\ keyed \in BOOLEAN /\ hurried \in BOOLEAN

(* A request has been interrupted, or overtaken by the one sent after it.  *)
Interrupted ==
    hurried \/ \E k \in Try : attempt[k].at = "cut" \/ attempt[k].status = 500

(* "Every mutating operation accepts an idempotency key"                   *)
(* (rfcs/0001-project-framing.md:173): a request that is sent again after  *)
(* a success, or once its key is recorded, makes nothing and announces     *)
(* nothing, and is answered with the success there is, whatever became of  *)
(* the process in between and of the one that answers; or with a 500 when  *)
(* its process is shut down.  So an effect is made twice only when the     *)
(* second request came before the key of the first was recorded.           *)
RepeatsChangeNothing ==
    Mutates =>
        \A k \in Try : attempt[k].after =>
            /\ k \notin made /\ k \notin told
            /\ Answered(k) =>
                   attempt[k].status = 200 \/ (attempt[k].status = 500 /\ stops > 0)

(* What the client is told is what has happened: success is of something   *)
(* made, a refusal of nothing made; only who was interrupted, and comes    *)
(* back, can be refused what the first request has made.                   *)
AnswersAreTrue ==
    Mutates =>
        \A k \in Try : Answered(k) =>
            /\ attempt[k].status = 200 => made # {}
            /\ attempt[k].status \in 400..499 => made = {} \/ (Interrupted /\ Again(Op) = attempt[k].status)
            /\ made # {} /\ ~ Interrupted => attempt[k].status = 200
===============================================================================
