------------------------------- MODULE EventFeed -------------------------------
(***************************************************************************)
(* The pull side of event delivery, beside the outbox: GET /events         *)
(* (packages/runtime/src/handler.ts over listEvents of runtime.ts) and the *)
(* durable consumer of examples/shared/durable-event-consumer.mjs, which   *)
(* pages through it and keeps its cursor in a file.  The consumer asks for *)
(* no types, so the handler takes the opt-in types out of the page, after  *)
(* the page has been cut.                                                  *)
(***************************************************************************)
EXTENDS WebhookOutbox

CONSTANTS
    OptIn,     \* the types that are only served to who asks for them
    PageSize   \* the limit the consumer asks for

ASSUME FeedAssumption == OptIn \subseteq Type /\ PageSize \in Nat \ {0}

VARIABLES
    cursor,   \* entry.after in the consumer's file, 0 when there is none
    pc,       \* where poll is
    after,    \* the cursor poll carries
    page,     \* the events of the page that are still to be handled
    more,     \* the page's nextCursor, 0 for null
    handled,  \* the events onEvent has been given, in order
    spent     \* faults of the consumer

reader == <<pc, after, page, more>>
feed   == <<cursor, reader, handled, spent>>
vars   == <<outbox, feed>>

FeedInit ==
    /\ Init
    /\ cursor = 0
    /\ pc = "idle"
    /\ after = 0 /\ page = << >> /\ more = 0
    /\ handled = << >>
    /\ spent = 0

-------------------------------------------------------------------------------
(* One page                                                                *)

Served(n) == log[n] \notin OptIn

(* The rows are fetched with one to spare, which tells whether more exist. *)
Rows(a)       == {n \in 1..Len(log) : a < n /\ n <= a + PageSize}
HasNext(a)    == Len(log) > a + PageSize
NextCursor(a) == IF HasNext(a) THEN a + PageSize ELSE 0

ListEvents(a) == SelectSeq([i \in 1..Cardinality(Rows(a)) |-> a + i], Served)

-------------------------------------------------------------------------------
(* poll                                                                    *)

Idle ==
    /\ pc' = "idle"
    /\ after' = 0 /\ page' = << >> /\ more' = 0

(* Regression: the cursor is taken from where the last poll was.           *)
ResumeAtEnd == Len(log)

Resume == cursor

StartPoll ==
    /\ setup.reads /\ pc = "idle"
    /\ pc' = "list"
    /\ after' = Resume
    /\ UNCHANGED <<cursor, page, more, handled, spent>>

(* An empty page ends the poll, whether or not more events exist.          *)
ListPage ==
    /\ pc = "list"
    /\ IF ListEvents(after) = << >>
         THEN Idle
         ELSE /\ pc' = "handle"
              /\ page' = ListEvents(after)
              /\ more' = NextCursor(after)
              /\ UNCHANGED after
    /\ UNCHANGED <<cursor, handled, spent>>

OnEvent ==
    /\ pc = "handle"
    /\ pc' = "save"
    /\ handled' = Append(handled, Head(page))
    /\ UNCHANGED <<cursor, after, page, more, spent>>

Commit(n) == n

(* After the last event of the page, the next page or the end of the poll. *)
SaveCursor ==
    /\ pc = "save"
    /\ cursor' = Commit(Head(page))
    /\ IF Tail(page) # << >>
         THEN /\ pc' = "handle"
              /\ page' = Tail(page)
              /\ after' = Head(page)
              /\ UNCHANGED more
         ELSE IF more = 0
                THEN Idle
                ELSE pc' = "list" /\ after' = more /\ page' = << >> /\ more' = 0
    /\ UNCHANGED <<handled, spent>>

(* The list, the handler or the file fails, or the process dies: the next  *)
(* poll starts from the file.                                              *)
PollFails ==
    /\ pc # "idle" /\ spent < setup.maxSpent
    /\ spent' = spent + 1
    /\ Idle
    /\ UNCHANGED <<cursor, handled>>

-------------------------------------------------------------------------------
Poll     == StartPoll \/ ListPage \/ OnEvent \/ SaveCursor
FeedNext == Poll \/ PollFails

FeedSpec ==
    /\ FeedInit
    /\ [][\/ Next /\ UNCHANGED feed
          \/ FeedNext /\ UNCHANGED outbox]_vars
    /\ \A w \in Worker : WF_outbox(RunOnce(w))
    /\ WF_feed(Poll /\ UNCHANGED outbox)

-------------------------------------------------------------------------------
(* Properties                                                              *)

(* A whole page of opt-in events behind the cursor, and more after it.     *)
Stalled ==
    /\ HasNext(cursor)
    /\ \A n \in Rows(cursor) : ~ Served(n)

Missed(n) == Served(n) /\ \A i \in DOMAIN handled : handled[i] # n

(* Every event the feed serves reaches the consumer in the end, unless a   *)
(* whole page behind its cursor is of opt-in types: then the page it gets  *)
(* is empty, and it stops there for ever.                                  *)
FeedCatchesUp ==
    (setup.reads /\ \E n \in 1..Len(log) : Missed(n)) ~>
        (Stalled \/ \A n \in 1..Len(log) : ~ Missed(n))
===============================================================================
