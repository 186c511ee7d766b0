---------------------------- MODULE InvoiceCreation ----------------------------
(***************************************************************************)
(* Creating the invoices of one account (createInvoice of                  *)
(* packages/runtime/src/runtime.ts, createSqliteInvoiceStore,              *)
(* createSqliteInvoiceAccountStore and createSqliteIdempotencyReplayStore  *)
(* of packages/storage/src/index.ts).                                      *)
(*                                                                         *)
(* Calls interleave at their awaits and at every statement of the          *)
(* database, which two processes may share.  A statement can fail; the     *)
(* process can die, and starts again with the rows it finds.  An invoice   *)
(* keeps the name of the call that has inserted it, and an address is its  *)
(* derivation index.                                                       *)
(***************************************************************************)
EXTENDS Null, Integers, FiniteSets, SequencesExt, FiniteSetsExt

CONSTANTS
    Call,       \* calls of createInvoice
    Ref,        \* [Call -> invoiceKey, or None]
    CallKey,    \* [Call -> Idempotency-Key, or None]
    CallAmount, \* [Call -> expectedAmountRaw]
    First,      \* invoiceDerivationStartIndex
    End,        \* the first index of the managed accounts
    Setup       \* the instances: the calls that are made, the failures and
                \* crashes that happen

Refusal == {"conflict", "exhausted", "taken", "failed", "lost"}

ASSUME InvoiceCreationAssumption ==
    /\ IsFiniteSet(Call) /\ Call \cap (Refusal \cup {None}) = {} /\ None \notin Refusal
    /\ First \in Nat /\ End \in Nat /\ None \notin First..End
    /\ \A s \in Setup : s.calls \subseteq Call /\ s.failures \in Nat /\ s.crashes \in Nat

VARIABLES
    \* the database
    rows,       \* the invoices, the oldest first
    payAt,      \* [Call -> pay_address of the invoice, or None]
    plain,      \* [key -> the invoice of the unscoped key, or None]
    scoped,     \* [key -> the invoice of the scoped key, or None]
    owner,      \* [index -> the call that has allocated it, or None]
    announced,  \* the invoices whose invoice.created is stored
    \* the calls
    pc,         \* [Call -> the step that comes next]
    mine,       \* [Call -> the invoice in the variable stored or existing]
    index,      \* [Call -> the derivation index it was given, or None]
    reply,      \* [Call -> an invoice, or why there is none]
    unlucky,    \* the calls that a failing statement has ended
    \* in memory
    watched,    \* the addresses the watcher has been told of
    \* the instance, and what has happened
    setup,
    crashes

tables       == <<rows, payAt, plain, scoped, owner, announced>>
calls        == <<pc, mine, index, reply, unlucky>>
creationvars == <<tables, calls, watched, setup, crashes>>

Keys     == {CallKey[c] : c \in Call} \ {None}
Index    == First..(End - 1)
Invoices == ToSet(rows)
Step     == {"idle", "ref", "replay", "allocate", "insert", "plain", "scoped", "emit",
           "watch", "ended"}

CreationInit ==
    /\ setup \in Setup
    /\ rows = <<>>
    /\ payAt = [c \in Call |-> None]
    /\ plain = [k \in Keys |-> None]
    /\ scoped = [k \in Keys |-> None]
    /\ owner = [i \in Index |-> None]
    /\ announced = {}
    /\ pc = [c \in Call |-> "idle"]
    /\ mine = [c \in Call |-> None]
    /\ index = [c \in Call |-> None]
    /\ reply = [c \in Call |-> None]
    /\ unlucky = {}
    /\ watched = {}
    /\ crashes = 0

At(c, step) == c \in setup.calls /\ pc[c] = step /\ UNCHANGED <<setup, crashes>>

Goes(c, step) ==
    /\ pc' = [pc EXCEPT ![c] = step]
    /\ UNCHANGED <<reply, unlucky>>

Ends(c, answer) ==
    /\ pc' = [pc EXCEPT ![c] = "ended"]
    /\ reply' = [reply EXCEPT ![c] = answer]
    /\ UNCHANGED unlucky

(* Regression: the header does not reach createInvoice.                    *)
NoHeader(c) == FALSE

Keyed(c) == CallKey[c] # None

-------------------------------------------------------------------------------
(* createInvoice                                                           *)

LookupKey(c) ==
    /\ At(c, "idle")
    /\ IF Keyed(c) /\ scoped[CallKey[c]] # None
         THEN Ends(c, scoped[CallKey[c]])
         ELSE Goes(c, "ref")
    /\ UNCHANGED <<tables, mine, index, watched>>

Named(c) == {i \in Invoices : Ref[c] # None /\ Ref[i] = Ref[c]}

(* The oldest of them.                                                     *)
Existing(c) ==
    {rows[n] : n \in {k \in DOMAIN rows :
        rows[k] \in Named(c) /\ \A m \in 1..(k - 1) : rows[m] \notin Named(c)}}

LookupRef(c) ==
    /\ At(c, "ref")
    /\ UNCHANGED <<tables, index, watched>>
    /\ \/ Named(c) = {} /\ Goes(c, "allocate") /\ UNCHANGED mine
       \/ \E existing \in Existing(c) :
            IF CallAmount[existing] # CallAmount[c]
              THEN Ends(c, "conflict") /\ UNCHANGED mine
              ELSE /\ mine' = [mine EXCEPT ![c] = existing]
                   /\ IF Keyed(c) THEN Goes(c, "replay") ELSE Ends(c, existing)

(* INSERT OR IGNORE                                                        *)
Put(keys, c) ==
    IF keys[CallKey[c]] = None THEN [keys EXCEPT ![CallKey[c]] = mine[c]] ELSE keys

PutReplay(c) ==
    /\ At(c, "replay")
    /\ scoped' = Put(scoped, c)
    /\ Ends(c, mine[c])
    /\ UNCHANGED <<rows, payAt, plain, owner, announced, mine, index, watched>>

Used == {i \in Index : owner[i] # None}

Shared(c) == {i \in Used : Ref[c] # None /\ Ref[owner[i]] = Ref[c]}

(* Regression: the indices in use are counted, by a reader that sees only  *)
(* the rows of the invoices.                                               *)
CountRows == First + Len(rows)

FreeIndex == IF Used = {} THEN First ELSE Max(Used) + 1

InRange(i) == i \in Index

(* getOrCreate, one immediate transaction.                                 *)
Allocate(c) ==
    /\ At(c, "allocate")
    /\ UNCHANGED <<rows, payAt, plain, scoped, announced, mine, watched>>
    /\ \/ \E i \in Shared(c) :
             /\ index' = [index EXCEPT ![c] = i]
             /\ Goes(c, "insert")
             /\ UNCHANGED owner
       \/ /\ Shared(c) = {}
          /\ InRange(FreeIndex)
          /\ owner' = [owner EXCEPT ![FreeIndex] = c]
          /\ index' = [index EXCEPT ![c] = FreeIndex]
          /\ Goes(c, "insert")
       \/ /\ Shared(c) = {}
          /\ ~ InRange(FreeIndex)
          /\ Ends(c, "exhausted")
          /\ UNCHANGED <<owner, index>>

InvoiceOfKey(c) == IF Keyed(c) THEN plain[CallKey[c]] ELSE None

(* invoices.idempotency_key is UNIQUE                                      *)
KeyTaken(c) == Keyed(c) /\ \E i \in Invoices : CallKey[i] = CallKey[c]

Insert(c) ==
    /\ At(c, "insert")
    /\ UNCHANGED <<plain, scoped, owner, announced, index, watched>>
    /\ IF InvoiceOfKey(c) # None
         THEN /\ mine' = [mine EXCEPT ![c] = InvoiceOfKey(c)]
              /\ Goes(c, "scoped")
              /\ UNCHANGED <<rows, payAt>>
         ELSE IF KeyTaken(c)
         THEN Ends(c, "taken") /\ UNCHANGED <<mine, rows, payAt>>
         ELSE /\ rows' = Append(rows, c)
              /\ payAt' = [payAt EXCEPT ![c] = index[c]]
              /\ mine' = [mine EXCEPT ![c] = c]
              /\ Goes(c, IF Keyed(c) THEN "plain" ELSE "emit")

PutPlain(c) ==
    /\ At(c, "plain")
    /\ plain' = Put(plain, c)
    /\ Goes(c, "scoped")
    /\ UNCHANGED <<rows, payAt, scoped, owner, announced, mine, index, watched>>

Persisted(c) == scoped'[CallKey[c]]

PutScoped(c) ==
    /\ At(c, "scoped")
    /\ scoped' = Put(scoped, c)
    /\ IF Persisted(c) # mine[c] THEN Ends(c, Persisted(c)) ELSE Goes(c, "emit")
    /\ UNCHANGED <<rows, payAt, plain, owner, announced, mine, index, watched>>

(* Regression: only an invoice without a key is announced.                 *)
Unkeyed(c) == IF Keyed(c) THEN {} ELSE {mine[c]}

ToAnnounce(c) == {mine[c]}

Emit(c) ==
    /\ At(c, "emit")
    /\ announced' = announced \cup ToAnnounce(c)
    /\ Goes(c, "watch")
    /\ UNCHANGED <<rows, payAt, plain, scoped, owner, mine, index, watched>>

(* The address this call was given: also when stored is another's invoice. *)
NewAddress(c) == {index[c]}

Watch(c) ==
    /\ At(c, "watch")
    /\ watched' = watched \cup NewAddress(c)
    /\ Ends(c, mine[c])
    /\ UNCHANGED <<tables, mine, index>>

-------------------------------------------------------------------------------
(* Failures                                                                *)

Running(c) == pc[c] \notin {"idle", "watch", "ended"}

(* A statement fails: the database is locked or full.                      *)
StatementFails(c) ==
    /\ Running(c)
    /\ Cardinality(unlucky) < setup.failures
    /\ unlucky' = unlucky \cup {c}
    /\ pc' = [pc EXCEPT ![c] = "ended"]
    /\ reply' = [reply EXCEPT ![c] = "failed"]
    /\ UNCHANGED <<tables, mine, index, watched, setup, crashes>>

RestoredAddresses == {payAt[i] : i \in Invoices}

(* The calls in flight get no answer; the start of main.ts watches the     *)
(* address of every invoice.                                               *)
CreationCrash ==
    /\ crashes < setup.crashes
    /\ crashes' = crashes + 1
    /\ pc' = [c \in Call |-> IF pc[c] = "idle" THEN "idle" ELSE "ended"]
    /\ reply' = [c \in Call |-> IF pc[c] \in {"idle", "ended"} THEN reply[c] ELSE "lost"]
    /\ watched' = RestoredAddresses
    /\ UNCHANGED <<tables, mine, index, unlucky, setup>>

-------------------------------------------------------------------------------
Advance(c) ==
    \/ LookupKey(c) \/ LookupRef(c) \/ PutReplay(c) \/ Allocate(c) \/ Insert(c)
    \/ PutPlain(c) \/ PutScoped(c) \/ Emit(c) \/ Watch(c)

CreationNext ==
    \/ \E c \in Call : Advance(c) \/ StatementFails(c)
    \/ CreationCrash

CreationSpec == CreationInit /\ [][CreationNext]_creationvars

(* A call that has begun goes on.                                          *)
CreationFairSpec ==
    CreationSpec /\ \A c \in Call : WF_creationvars(pc[c] # "idle" /\ Advance(c))

-------------------------------------------------------------------------------
(* Properties                                                              *)

CreationTypeOK ==
    /\ rows \in Seq(Call) /\ IsInjective(rows)
    /\ payAt \in [Call -> Index \cup {None}]
    /\ {plain, scoped} \subseteq [Keys -> Invoices \cup {None}]
    /\ owner \in [Index -> Call \cup {None}]
    /\ announced \subseteq Invoices
    /\ pc \in [Call -> Step]
    /\ mine \in [Call -> Call \cup {None}] /\ index \in [Call -> Index \cup {None}]
    /\ reply \in [Call -> Call \cup Refusal \cup {None}]
    /\ unlucky \subseteq Call /\ watched \subseteq Index
    /\ setup \in Setup /\ crashes \in 0..setup.crashes

(* An address belongs to one invoice, or to the invoices of one invoiceKey *)
(* ("When it is omitted, each invoice gets a distinct destination",        *)
(* rfcs/0001-project-framing.md), and those have one address, also when an *)
(* attempt has failed between: a payment is matched by its address.        *)
AddressFollowsRef ==
    \A i, j \in Invoices : i # j =>
        (payAt[i] = payAt[j] <=> Ref[i] # None /\ Ref[i] = Ref[j])

(* Calls that repeat an Idempotency-Key get the invoice the first one got, *)
(* whatever failed or crashed between and however they overlap.  (Where    *)
(* another key names the same invoiceKey, a call may be answered by the    *)
(* invoice of that name instead.)                                          *)
SameKey(c) == {d \in setup.calls : CallKey[c] # None /\ CallKey[d] = CallKey[c]}

KeyAnswersOneInvoice ==
    \A c \in setup.calls : \A d \in SameKey(c) :
        (/\ \A x \in setup.calls \ SameKey(c), y \in SameKey(c) :
                Ref[x] = None \/ Ref[x] # Ref[y]
         /\ reply[c] \in Call /\ reply[d] \in Call) => reply[c] = reply[d]

(* Every invoice is announced and its address is watched in the end,       *)
(* however calls overlap, unless a statement has failed; after a crash it  *)
(* is watched, but perhaps not announced.                                  *)
InvoiceIsServed ==
    \A i \in Call : i \in Invoices ~>
        \/ payAt[i] \in watched /\ (i \in announced \/ crashes > 0)
        \/ unlucky # {}

(* "They must still be watched so confirmed incoming sends reach invoice   *)
(* matching" (packages/runtime/src/runtime.ts).  After a failed statement  *)
(* the retry is answered by the invoice and does not watch its address.    *)
RetriedIsWatched ==
    \A i \in Call : (\E c \in Call : reply[c] = i) ~> payAt[i] \in watched
===============================================================================
