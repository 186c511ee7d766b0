----------------------------- MODULE AccountStreams -----------------------------
(***************************************************************************)
(* The account streams of a serving process: GET /accounts/stream and the  *)
(* calls that watch and unwatch an address for a stream (handler.ts), the  *)
(* SubscriptionManager, and the AccountStateSync that asks the node,       *)
(* stores what changed and publishes it, all of packages/runtime/src.  The *)
(* k-th block of the chain of an address is the number k, which also       *)
(* stands for the balance and the frontier after it.                       *)
(*                                                                         *)
(* All of it but the rows is in the memory of the process: Startup says    *)
(* when that process dies.                                                 *)
(***************************************************************************)
EXTENDS Startup

CONSTANTS
    Address,    \* the addresses of accounts
    Stream,     \* the clients; each comes back with a new connection
    Pass,       \* the runs of reconcile that may overlap
    MaxHeight,  \* a bound on the chains
    Own,        \* the blocks that are sends of RaiFlow
    None

Height == 0..MaxHeight
Restorer == "restore"
Caller == Stream \cup {Restorer}

ASSUME StreamsAssumption ==
    /\ MaxHeight \in Nat /\ Own \subseteq Height
    /\ None \notin Height \cup Address /\ Restorer \notin Stream
    /\ \A s \in Setup :
        /\ s.accounts \subseteq Address /\ s.created \subseteq Address
        /\ s.query \in [Stream -> SUBSET Address]
        /\ s.streams \subseteq Stream /\ s.passes \subseteq Pass /\ s.calls \in Nat
        /\ s.aborts \in BOOLEAN /\ s.faults \in Nat
        /\ s.streams # {} => \E p \in Process : s.processes = {p}

VARIABLES
    chain,      \* [Address -> the node's height]
    row,        \* [Address -> the height the account's row is at, or None]
    toCache,    \* [Address -> sends that are about to update the row]
    watched,    \* watchedAccounts
    restoring,  \* the accounts syncExistingAccounts has still to add
    adding,     \* [Caller -> [Address -> its addAccount: the answer it has, or None]]
    pass,       \* [Pass -> its run of reconcile]
    paused,     \* rateLimitedUntil is to come
    open,       \* the streams that are connected
    subs,       \* [Address -> the streams subscribed]
    ghosts,     \* the addresses with a subscriber that has gone
    watch,      \* [Stream -> the address its POST .../watch is about, or None]
    heard,      \* [Stream -> [Address -> the last height heard, or None]]
    asked,      \* [Stream -> addresses of its query whose account was found]
    spent,      \* answers the node has refused
    called      \* calls that watch or unwatch

node    == <<chain, row, toCache>>
sync    == <<watched, restoring, adding, pass, paused>>
conns   == <<open, subs, ghosts, watch, heard, asked>>
streams == <<node, sync, conns, spent, called>>
vars    == <<daemon, streams>>

Running == \E p \in setup.processes : pc[p] \in {"listen", "serving"}
Serving == \E p \in setup.processes : pc[p] = "serving"

NoRun == [left |-> {}, at |-> None, info |-> None]
NoAdds == [c \in Caller |-> [a \in Address |-> None]]
Asks == [info |-> None]

StreamsInit ==
    /\ chain = [a \in Address |-> 0]
    /\ row = [a \in Address |-> IF a \in setup.accounts THEN 0 ELSE None]
    /\ toCache = [a \in Address |-> {}]
    /\ watched = {} /\ restoring = {}
    /\ adding = NoAdds
    /\ pass = [w \in Pass |-> NoRun]
    /\ paused = FALSE
    /\ open = {} /\ ghosts = {}
    /\ subs = [a \in Address |-> {}]
    /\ watch = [s \in Stream |-> None]
    /\ heard = [s \in Stream |-> [a \in Address |-> None]]
    /\ asked = [s \in Stream |-> {}]
    /\ spent = 0 /\ called = 0

Init == DaemonInit /\ StreamsInit

-------------------------------------------------------------------------------
(* SubscriptionManager                                                     *)

hasSubscribers(a) == subs[a] # {} \/ a \in ghosts

(* publish: whoever is subscribed and connected hears it.                  *)
Publish(a, h) ==
    heard' = [s \in Stream |-> IF s \in subs[a] THEN [heard[s] EXCEPT ![a] = h] ELSE heard[s]]

(* The connection of a client that has gone: main.ts hands no abort and no *)
(* cancel on to the handler, which would remove it.                        *)
Disconnect(s) ==
    /\ open' = open \ {s}
    /\ subs' = [a \in Address |-> subs[a] \ {s}]
    /\ ghosts' = IF setup.aborts THEN ghosts
                 ELSE ghosts \cup {a \in Address : s \in subs[a]}
    /\ heard' = [heard EXCEPT ![s] = [a \in Address |-> None]]
    /\ asked' = [asked EXCEPT ![s] = {}]

-------------------------------------------------------------------------------
(* AccountStateSync                                                        *)

Exists(a) == row[a] # None

(* addAccount finds the account, watches it and asks the node.             *)
Adding(c, as) ==
    adding' = [adding EXCEPT ![c] =
        [a \in Address |-> IF a \in as /\ Exists(a) THEN Asks ELSE @[a]]]

Watched(as) == watched \cup {a \in as : Exists(a)}

Adds(c, as) == Adding(c, as) /\ watched' = Watched(as)

(* syncExistingAccounts                                                    *)
RestoreAccount(a) ==
    /\ Running /\ a \in restoring
    /\ restoring' = restoring \ {a}
    /\ Adds(Restorer, {a})
    /\ UNCHANGED <<daemon, node, pass, paused, conns, spent, called>>

Refuse == spent < setup.faults /\ spent' = spent + 1

(* initialSync takes an account for unopened when the node does not answer.*)
AnswerAdd(c, a) ==
    /\ Running /\ adding[c][a] = Asks
    /\ \/ adding' = [adding EXCEPT ![c][a].info = chain[a]] /\ UNCHANGED spent
       \/ adding' = [adding EXCEPT ![c][a].info = 0] /\ Refuse
    /\ UNCHANGED <<daemon, node, watched, restoring, pass, paused, conns, called>>

(* The row is stored, and published as a snapshot also when it is as it    *)
(* was; a POST that waited for it goes on to subscribe.                    *)
FinishAdd(c, a) ==
    /\ Running /\ adding[c][a] \notin {None, Asks}
    /\ row' = [row EXCEPT ![a] = adding[c][a].info]
    /\ Publish(a, adding[c][a].info)
    /\ adding' = [adding EXCEPT ![c][a] = None]
    /\ UNCHANGED <<daemon, chain, toCache, watched, restoring, pass, paused,
                   open, subs, ghosts, watch, asked, spent, called>>

(* The timer: passes may overlap.                                          *)
Reconcile(w) ==
    /\ Running /\ ~ paused /\ w \in setup.passes /\ pass[w] = NoRun
    /\ watched # {}
    /\ pass' = [pass EXCEPT ![w].left = watched]
    /\ UNCHANGED <<daemon, node, watched, restoring, adding, paused, conns, spent, called>>

(* The next address, unless it has been removed since.                     *)
AskNode(w) ==
    /\ Running /\ pass[w].at = None
    /\ UNCHANGED <<daemon, node, watched, restoring, adding, conns, called>>
    /\ \E a \in pass[w].left :
        LET rest == [pass[w] EXCEPT !.left = @ \ {a}] IN
        \/ /\ a \notin watched
           /\ pass' = [pass EXCEPT ![w] = rest] /\ UNCHANGED <<paused, spent>>
        \/ /\ a \in watched
           /\ pass' = [pass EXCEPT ![w] = [rest EXCEPT !.at = a, !.info = chain[a]]]
           /\ UNCHANGED <<paused, spent>>
        \/ /\ a \in watched /\ Refuse
           /\ \/ pass' = [pass EXCEPT ![w] = rest] /\ UNCHANGED paused
              \/ pass' = [pass EXCEPT ![w] = NoRun] /\ paused' = TRUE

(* What differs from the row is stored and published; of an account that   *)
(* is not opened nothing is.                                               *)
StoreInfo(w) ==
    LET a == pass[w].at
        h == pass[w].info
    IN  /\ Running /\ a # None
        /\ pass' = [pass EXCEPT ![w].at = None, ![w].info = None]
        /\ row' = [row EXCEPT ![a] = h]
        /\ IF h # row[a] /\ h # 0 THEN Publish(a, h) ELSE UNCHANGED heard
        /\ UNCHANGED <<daemon, chain, toCache, watched, restoring, adding, paused,
                       open, subs, ghosts, watch, asked, spent, called>>

BackoffEnds ==
    /\ paused /\ paused' = FALSE
    /\ UNCHANGED <<daemon, node, watched, restoring, adding, pass, conns, spent, called>>

-------------------------------------------------------------------------------
(* The chain, and the sends of RaiFlow, which write the row themselves     *)

Grow(a) ==
    /\ Exists(a) /\ chain[a] < MaxHeight
    /\ chain' = [chain EXCEPT ![a] = @ + 1]
    /\ toCache' = [toCache EXCEPT ![a] = @ \cup ({chain[a] + 1} \cap Own)]
    /\ chain[a] + 1 \in Own => Running
    /\ UNCHANGED <<daemon, row, sync, conns, spent, called>>

CacheSend(a) ==
    /\ Running
    /\ \E h \in toCache[a] :
        /\ row' = [row EXCEPT ![a] = h]
        /\ toCache' = [toCache EXCEPT ![a] = @ \ {h}]
    /\ UNCHANGED <<daemon, chain, sync, conns, spent, called>>

(* createWatchedAccount and createManagedAccount                           *)
CreateAccount(a) ==
    /\ Serving /\ a \in setup.created /\ ~ Exists(a)
    /\ row' = [row EXCEPT ![a] = 0]
    /\ UNCHANGED <<daemon, chain, toCache, sync, conns, spent, called>>

-------------------------------------------------------------------------------
(* The handler                                                             *)

(* GET /accounts/stream?accounts=... subscribes to its accounts, and adds   *)
(* them in the background.                                                 *)
Connect(s) ==
    /\ Serving /\ s \in setup.streams \ open
    /\ \A a \in Address : adding[s][a] = None
    /\ watch[s] = None
    /\ open' = open \cup {s}
    /\ subs' = [a \in Address |-> IF a \in setup.query[s] THEN subs[a] \cup {s} ELSE subs[a]]
    /\ Adds(s, setup.query[s])
    /\ asked' = [asked EXCEPT ![s] = {a \in setup.query[s] : Exists(a)}]
    /\ UNCHANGED <<daemon, node, restoring, pass, paused, ghosts, watch, heard, spent, called>>

Leave(s) ==
    /\ s \in open
    /\ called < setup.calls /\ called' = called + 1
    /\ Disconnect(s)
    /\ UNCHANGED <<daemon, node, sync, watch, spent>>

Calls(s) ==
    /\ Serving /\ s \in open
    /\ called < setup.calls /\ called' = called + 1

(* POST /accounts/:id/watch waits for addAccount ...                       *)
Watch(s, a) ==
    /\ Calls(s)
    /\ Exists(a) /\ watch[s] = None /\ adding[s][a] = None
    /\ watch' = [watch EXCEPT ![s] = a]
    /\ Adds(s, {a})
    /\ UNCHANGED <<daemon, node, restoring, pass, paused, open, subs, ghosts, heard, asked, spent>>

(* ... before it subscribes, also a connection that has gone meanwhile.    *)
Subscribe(s) ==
    LET a == watch[s] IN
    /\ Running /\ a # None /\ adding[s][a] = None
    /\ watch' = [watch EXCEPT ![s] = None]
    /\ IF s \in open
         THEN subs' = [subs EXCEPT ![a] = @ \cup {s}] /\ UNCHANGED ghosts
         ELSE ghosts' = ghosts \cup {a} /\ UNCHANGED subs
    /\ UNCHANGED <<daemon, node, sync, open, heard, asked, spent, called>>

(* Regression: an address is removed with any of its subscribers.          *)
OthersLeft(s, a) == FALSE

(* hasSubscribers, after unsubscribe                                       *)
StillSubscribed(s, a) == subs[a] \ {s} # {} \/ a \in ghosts

(* DELETE /accounts/:id/watch                                              *)
Unwatch(s, a) ==
    /\ Calls(s)
    /\ Exists(a)
    /\ subs' = [subs EXCEPT ![a] = @ \ {s}]
    /\ asked' = [asked EXCEPT ![s] = @ \ {a}]
    /\ watched' = IF StillSubscribed(s, a) THEN watched ELSE watched \ {a}
    /\ UNCHANGED <<daemon, node, restoring, adding, pass, paused, open, ghosts, watch,
                   heard, spent>>

-------------------------------------------------------------------------------
(* The process                                                             *)

(* syncExistingAccounts takes the accounts there are.                      *)
Begin(p) ==
    /\ StartRuntime(p)
    /\ restoring' = {a \in Address : Exists(a)}
    /\ UNCHANGED <<node, watched, adding, pass, paused, conns, spent, called>>

(* The memory of a process that has served goes with it.                   *)
Forget ==
    /\ watched' = {} /\ restoring' = {} /\ adding' = NoAdds
    /\ pass' = [w \in Pass |-> NoRun] /\ paused' = FALSE
    /\ open' = {} /\ ghosts' = {}
    /\ subs' = [a \in Address |-> {}]
    /\ watch' = [s \in Stream |-> None]
    /\ heard' = [s \in Stream |-> [a \in Address |-> None]]
    /\ asked' = [s \in Stream |-> {}]
    /\ UNCHANGED <<node, spent, called>>

(* server.close waits for the streams, as long as the supervisor lets it.  *)
Closes(p) == ServerClosed(p) /\ Forget

GoesOn(p) == (Starting(p) /\ UNCHANGED streams) \/ Begin(p) \/ Closes(p)

Lifecycle(p) ==
    \/ GoesOn(p)
    \/ (Signal(p) \/ StartAgain(p)) /\ UNCHANGED streams
    \/ Crash(p) /\ Forget

Syncing ==
    \/ \E a \in Address : RestoreAccount(a) \/ CacheSend(a)
    \/ \E c \in Caller, a \in Address : AnswerAdd(c, a) \/ FinishAdd(c, a)
    \/ \E w \in Pass : Reconcile(w) \/ AskNode(w) \/ StoreInfo(w)
    \/ BackoffEnds

Next ==
    \/ \E p \in Process : Lifecycle(p)
    \/ \E s \in Stream : Connect(s) \/ Leave(s) \/ Subscribe(s)
    \/ \E s \in Stream, a \in Address : Watch(s, a) \/ Unwatch(s, a)
    \/ \E a \in Address : Grow(a) \/ CreateAccount(a)
    \/ Syncing

Spec == Init /\ [][Next]_vars

(* The supervisor starts what has ended, a process goes on, the timer of   *)
(* reconcile fires, the node answers, and a client connects again.         *)
Fairness ==
    /\ \A p \in Process : WF_vars(GoesOn(p))
    /\ \A a \in Address : WF_vars(RestoreAccount(a)) /\ WF_vars(CacheSend(a))
    /\ \A c \in Caller, a \in Address : WF_vars(AnswerAdd(c, a) \/ FinishAdd(c, a))
    /\ \A w \in Pass : WF_vars(Reconcile(w) \/ AskNode(w) \/ StoreInfo(w))
    /\ WF_vars(BackoffEnds)
    /\ \A s \in Stream : WF_vars(Connect(s) \/ Subscribe(s))

FairSpec == Spec /\ Fairness

-------------------------------------------------------------------------------
(* Properties                                                              *)

TypeOK ==
    /\ DaemonTypeOK
    /\ chain \in [Address -> Height] /\ row \in [Address -> Height \cup {None}]
    /\ toCache \in [Address -> SUBSET Own]
    /\ watched \subseteq Address /\ restoring \subseteq Address
    /\ adding \in [Caller -> [Address -> [info : Height \cup {None}] \cup {None}]]
    /\ pass \in [Pass -> [left : SUBSET Address, at : Address \cup {None},
                          info : Height \cup {None}]]
    /\ paused \in BOOLEAN
    /\ open \subseteq Stream /\ ghosts \subseteq Address
    /\ subs \in [Address -> SUBSET open]
    /\ watch \in [Stream -> Address \cup {None}]
    /\ heard \in [Stream -> [Address -> Height \cup {None}]]
    /\ asked \in [Stream -> SUBSET Address]
    /\ spent \in 0..setup.faults /\ called \in 0..setup.calls

(* A client that stays connected hears in the end where each account of    *)
(* its query is, whatever passes overlap, whatever answers the node has    *)
(* refused, and whoever else watches, unwatches or leaves; except for the  *)
(* sends of RaiFlow, whose row is written before reconcile can tell.       *)
UpToDate(s, a) == heard[s][a] = chain[a] \/ chain[a] \in Own

StreamHearsLatest ==
    \A s \in Stream, a \in Address :
        <>[](Serving /\ a \in asked[s]) => <>[]UpToDate(s, a)
===============================================================================
