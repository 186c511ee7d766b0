------------------------------- MODULE MCProcess -------------------------------
(***************************************************************************)
(* The instances of HttpApi: processes that start over databases of several *)
(* ages, a process with streams, and a process with a request.             *)
(***************************************************************************)
EXTENDS HttpApi, TLC

CONSTANTS p1, p2, s1, s2, a1, w1, w2

MCProcesses == {p1, p2}
MCStreams   == {s1, s2}
MCAddresses == {a1}
MCPasses    == {w1, w2}
MCOwn       == {2}

Relay ==
    [mode |-> "non-custodial", custody |-> "absent", key |-> {"env"}, sweep |-> "off",
     expiry |-> 3600, driver |-> "sqlite", megabytes |-> 1024, deposits |-> 100000,
     minimum |-> 1, guarded |-> TRUE]
Wallet ==
    [Relay EXCEPT !.mode = "custodial", !.custody = "ows", !.key = {"config"},
                  !.sweep = "address", !.megabytes = 16]

Rejected ==
    {[Relay EXCEPT !.mode = "none"], [Relay EXCEPT !.mode = "unknown"],
     [Relay EXCEPT !.key = {}], [Relay EXCEPT !.mode = "custodial"],
     [Wallet EXCEPT !.custody = "seed"], [Wallet EXCEPT !.sweep = "missing"],
     [Relay EXCEPT !.expiry = 0], [Relay EXCEPT !.driver = "postgres"],
     [Relay EXCEPT !.megabytes = 15], [Relay EXCEPT !.deposits = 0],
     [Relay EXCEPT !.minimum = 0]}

NoStreams ==
    [accounts |-> {}, created |-> {}, query |-> [s \in MCStreams |-> {}], streams |-> {}, calls |-> 0,
     passes |-> {}, aborts |-> FALSE, faults |-> 0, up |-> FALSE,
     request |-> None, tries |-> 0]

New == [level |-> 0, filled |-> FALSE, meta |-> "absent"]
Upgrade(k) == [level |-> k, filled |-> TRUE, meta |-> "current"]
Legacy == [level |-> 3, filled |-> TRUE, meta |-> "absent"]

Scene(ps, c, base, crash, refuse, stop) ==
    [processes |-> ps, config |-> c, crashes |-> crash, refusals |-> refuse, stops |-> stop]
        @@ base @@ NoStreams

(* One process creates the database, or upgrades one that has rows, and    *)
(* dies twice; two processes upgrade it at once; some cannot start.        *)
Starts ==
    {Scene({p1}, Wallet, New, 2, 1, 1),
     Scene({p1}, Relay, Upgrade(2), 2, 0, 1),
     Scene({p1, p2}, Relay, New, 0, 0, 0),
     Scene({p1, p2}, Wallet, Upgrade(15), 1, 0, 1),
     Scene({p1}, Relay, Legacy, 0, 0, 1)}
        \cup {Scene({p1}, c, New, 0, 0, 0) : c \in Rejected}

Streams(query, clients, passes, calls, faults, crash, stop, aborts) ==
    [Scene({p1}, Relay, Upgrade(Newest), crash, 0, stop)
        EXCEPT !.accounts = MCAddresses, !.query = query, !.streams = clients,
               !.passes = passes, !.calls = calls, !.faults = faults,
               !.aborts = aborts, !.up = TRUE]

BothAsk == [s \in MCStreams |-> {a1}]
OneAsks == [s \in MCStreams |-> IF s = s1 THEN {a1} ELSE {}]

(* The account is created while the stream that asks for it is connected.  *)
Created == [Streams(OneAsks, {s1}, {w1}, 1, 0, 1, 0, FALSE)
               EXCEPT !.accounts = {}, !.created = MCAddresses]

(* Streams of both clients over one pass of reconcile; overlapping passes; *)
(* restarts; a shutdown.                                                   *)
Streaming ==
    {Streams(BothAsk, MCStreams, {w1}, 2, 0, 0, 0, FALSE),
     Streams(OneAsks, MCStreams, {w1}, 2, 0, 0, 0, TRUE),
     Streams(OneAsks, {s1}, MCPasses, 0, 1, 0, 0, FALSE),
     Streams(OneAsks, {s1}, {w1}, 1, 1, 1, 0, FALSE),
     Streams(OneAsks, {s1}, {w1}, 1, 0, 0, 1, FALSE),
     Created}

(* A request to a process that serves: whole, or without one of the things *)
(* its route asks for.                                                     *)
Asking(c, request, tries, crash, stop) ==
    [Streams([s \in MCStreams |-> {}], {}, {}, 0, 0, crash, stop, FALSE)
        EXCEPT !.config = c, !.accounts = {}, !.request = request, !.tries = tries]

Whats(r) == {r.needs[n].what : n \in DOMAIN r.needs}
Whole(r) == [route |-> r, bearer |-> TRUE, has |-> Whats(r) \ {"custodial", "synced", "route"}]

Variants(r) ==
    {Whole(r), [Whole(r) EXCEPT !.bearer = FALSE]}
        \cup {[Whole(r) EXCEPT !.has = @ \ {what}] : what \in Whole(r).has}

Open == [Relay EXCEPT !.guarded = FALSE]

Requests ==
    UNION {{Asking(c, request, 1, 0, 0) : request \in Variants(r), c \in {Open, Wallet}} :
              r \in Routes}
    \cup {Asking(Wallet, Whole(r), 2, 1, 0) : r \in {x \in Routes : x.op \in DOMAIN Course}}
    \cup {Asking(Wallet, Whole(r), 2, 0, 1) :
              r \in {x \in Routes : x.op \in {"publishBlock", "createWebhook", "queueSend"}}}

MCSetup == Starts \cup Streaming \cup Requests
===============================================================================
