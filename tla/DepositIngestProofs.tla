------------------------- MODULE DepositIngestProofs -------------------------
(***************************************************************************)
(* Proofs about the two lives of an invoice row, for every value of the    *)
(* constants: DepositIngest, and InvoiceCreation.                          *)
(***************************************************************************)
EXTENDS DepositIngest, InvoiceCreation, FiniteSetTheorems, SequenceTheorems,
        WellFoundedInduction, TLAPS

-------------------------------------------------------------------------------
(* Operators                                                               *)

(* No payment adds up to nothing.                                          *)
LEMMA NothingTotals == Total({}) = 0
BY Zenon DEF Total, MapThenSumSet, MapThenFoldSet

(* An address that has an invoice has an oldest one.                       *)
LEMMA OldestIsThere ==
    ASSUME TypeOK, NEW a, InvoicesAt(a) # {}
    PROVE  OldestAt(a) \in InvoicesAt(a)
<1> DEFINE times == {created[i] : i \in InvoicesAt(a)}
<1>1. times \subseteq Nat /\ times # {} BY DEF TypeOK, InvoicesAt
<1>2. PICK t \in times : \A u \in times : <<u, t>> \notin OpToRel(<, Nat)
  BY <1>1, NatLessThanWellFounded, WFMin, Zenon
<1>3. \A u \in times : t <= u
  <2> SUFFICES ASSUME NEW u \in times PROVE t <= u
    OBVIOUS
  <2>1. t \in Nat /\ u \in Nat BY <1>1
  <2>2. ~ (u < t) BY <1>1, <1>2, <2>1 DEF OpToRel
  <2> QED BY <2>1, <2>2
<1>4. PICK i \in InvoicesAt(a) : \A j \in InvoicesAt(a) : created[i] <= created[j]
  BY <1>3
<1> QED BY <1>4 DEF OldestAt

LEMMA PaymentAdded ==
    ASSUME TypeOK, NEW b \in Block, NEW i \in Invoice,
           payment' = [payment EXCEPT ![b] = i],
           payment[b] \in {i, None}
    PROVE  /\ PaymentsOf(i)' = PaymentsOf(i) \cup {b}
           /\ \A j \in Invoice \ {i} : PaymentsOf(j)' = PaymentsOf(j)
BY IngestAssumption DEF TypeOK, PaymentsOf

-------------------------------------------------------------------------------
(* The inductive invariant                                                 *)

(* A deposit has an invoice exactly when its disposition says so, and the  *)
(* invoice is a row.                                                       *)
Matching ==
    \A b \in Block :
        /\ matched[b] = None <=> disposition[b] \in {"absent", "unmatched"}
        /\ matched[b] # None => status[matched[b]] # "absent"

(* Between the commit and the end of its handling a block is stored.       *)
CommittedIsStored ==
    \A p \in Process, b \in Block : handling[p][b] = "committed" => Stored(b)

(* The deposits of an account can be counted.                              *)
FiniteDeposits == \A a \in Address : IsFiniteSet(AccountDeposits(a))

IInv ==
    /\ TypeOK /\ Matching /\ AmountIsSumOfPayments /\ CompletedWhenPaid
    /\ CommittedIsStored /\ ProcessedIsStored
    /\ FiniteDeposits /\ BudgetKept

LEMMA InitialInvariant == Init => IInv
<1> SUFFICES ASSUME Init PROVE IInv
  OBVIOUS
<1> USE DEF Init
<1>1. TypeOK
  BY IngestAssumption, EmptySeq
  DEF TypeOK, InvoiceStatus, Disposition, HandlingState, CancelState, Sums
<1>2. \A i \in Invoice : PaymentsOf(i) = {} BY IngestAssumption DEF PaymentsOf
<1>3. Matching /\ AmountIsSumOfPayments
  BY <1>2, NothingTotals DEF Matching, AmountIsSumOfPayments
<1>4. CompletedWhenPaid BY DEF CompletedWhenPaid
<1>5. CommittedIsStored /\ ProcessedIsStored
  BY DEF CommittedIsStored, ProcessedIsStored
<1>6. \A a \in Address : AccountDeposits(a) = {}
  BY DEF AccountDeposits, Stored
<1>7. FiniteDeposits /\ BudgetKept
  <2>1. \A a \in Address : /\ IsFiniteSet(AccountDeposits(a))
                            /\ Cardinality(AccountDeposits(a)) = 0
    BY <1>6, FS_EmptySet, Zenon
  <2>2. 0 <= MaxDepositsPerAccount BY IngestAssumption
  <2> HIDE DEF Init
  <2> QED BY <2>1, <2>2 DEF FiniteDeposits, BudgetKept
<1> QED BY <1>1, <1>3, <1>4, <1>5, <1>7 DEF IInv

-------------------------------------------------------------------------------
(* What a delivery does                                                    *)

(* A block that is stored already changes no row of an invoice, a deposit  *)
(* or a payment.                                                           *)
Replayed(b) ==
    /\ Stored(b)
    /\ UNCHANGED <<status, received, disposition, matched, payment>>

(* A new block is recorded, and counts for no invoice.                     *)
Recorded(b, i, d) ==
    /\ disposition' = [disposition EXCEPT ![b] = d]
    /\ matched' = [matched EXCEPT ![b] = i]
    /\ IF i = None THEN d = "unmatched"
       ELSE i \in Invoice /\ d = "late" /\ status[i] # "absent"
    /\ UNCHANGED <<status, received, payment>>

(* A new block is recorded, and counts for an open invoice.                *)
Credited(b, i, d) ==
    LET amount == Total(PaymentsOf(i) \cup {b}) IN
    /\ i \in Invoice /\ status[i] = "open"
    /\ d \in {"matched", "partial", "excess"}
    /\ disposition' = [disposition EXCEPT ![b] = d]
    /\ matched' = [matched EXCEPT ![b] = i]
    /\ payment' = [payment EXCEPT ![b] = i]
    /\ received' = [received EXCEPT ![i] = amount]
    /\ status' = [status EXCEPT ![i] =
                      IF Complete(i, amount) THEN "completed" ELSE "open"]

LEMMA Delivery ==
    ASSUME IInv, NEW p \in Process, NEW b \in Block, NEW r \in BOOLEAN,
           Ingest(p, b, r)
    PROVE  \/ Replayed(b)
           \/ /\ ~ Stored(b)
              /\ \E i \in Invoice \cup {None}, d \in Disposition :
                    Recorded(b, i, d) \/ Credited(b, i, d)
<1> DEFINE i == InvoiceOf(b)
           d == Disposed(b, i)
<1> USE DEF IInv
<1>1. CASE Stored(b)
  <2>1. i = matched[b] /\ d = disposition[b]
    BY <1>1 DEF InvoiceOf, Disposed
  <2>2. disposition' = disposition /\ matched' = matched
    BY <2>1 DEF Ingest, TypeOK
  <2>3. CASE i = None \/ d = "late"
    BY <1>1, <2>2, <2>3 DEF Ingest, DoNotCount, Replayed
  <2>4. CASE i # None /\ d # "late"
    <3>1. i \in Invoice /\ d \in {"matched", "partial", "excess"}
      BY <1>1, <2>1, <2>4 DEF Matching, TypeOK, Disposition, Stored
    <3>2. payment[b] = i
      BY <2>1, <3>1 DEF AmountIsSumOfPayments
    <3>3. PaymentsOf(i) \cup {b} = PaymentsOf(i)
      BY <3>2 DEF PaymentsOf
    <3>4. SumPayments(i, b) = received[i]
      BY <3>1, <3>3 DEF SumPayments, AmountIsSumOfPayments
    <3>5. StatusAfter(i, received[i]) = status[i]
      BY <3>1 DEF StatusAfter, CompletedWhenPaid
    <3>6. Count(b, i) BY <2>4 DEF Ingest
    <3>7. payment' = payment /\ received' = received /\ status' = status
      BY <3>1, <3>2, <3>4, <3>5, <3>6 DEF Count, TypeOK
    <3> QED BY <1>1, <2>2, <3>7 DEF Replayed
  <2> QED BY <2>3, <2>4
<1>2. CASE ~ Stored(b)
  <2>1. i = OldestAt(Recipient[b]) BY <1>2 DEF InvoiceOf
  <2>2. /\ disposition' = [disposition EXCEPT ![b] = d]
        /\ matched' = [matched EXCEPT ![b] = i]
    BY DEF Ingest
  <2>3. CASE i = None
    <3>1. d = "unmatched" BY <1>2, <2>3 DEF Disposed
    <3>2. DoNotCount(b) BY <2>3 DEF Ingest
    <3>3. Recorded(b, i, d)
      BY <2>2, <2>3, <3>1, <3>2 DEF Recorded, DoNotCount
    <3> QED BY <1>2, <2>3, <3>1, <3>3 DEF Disposition
  <2>4. CASE i # None
    <3>1. i \in Invoice /\ status[i] # "absent"
      <4>1. InvoicesAt(Recipient[b]) # {} BY <2>1, <2>4 DEF OldestAt
      <4> QED BY <2>1, <4>1, OldestIsThere DEF InvoicesAt
    <3>2. CASE status[i] # "open"
      <4>1. d = "late" BY <1>2, <2>4, <3>2 DEF Disposed
      <4>2. DoNotCount(b) BY <4>1 DEF Ingest
      <4>3. Recorded(b, i, d)
        BY <2>2, <2>4, <3>1, <4>1, <4>2 DEF Recorded, DoNotCount
      <4> QED BY <1>2, <3>1, <4>1, <4>3 DEF Disposition
    <3>3. CASE status[i] = "open"
      <4>1. d \in {"matched", "partial", "excess"}
        BY <1>2, <2>4, <3>3 DEF Disposed
      <4>2. Count(b, i) BY <2>4, <4>1 DEF Ingest
      <4>3. StatusAfter(i, SumPayments(i, b)) =
                IF Complete(i, SumPayments(i, b)) THEN "completed" ELSE "open"
        BY <3>3 DEF StatusAfter
      <4>4. Credited(b, i, d)
        BY <2>2, <3>1, <3>3, <4>1, <4>2, <4>3 DEF Credited, Count, SumPayments
      <4> QED BY <1>2, <3>1, <4>1, <4>4 DEF Disposition
    <3> QED BY <3>2, <3>3
  <2> QED BY <2>3, <2>4
<1> QED BY <1>1, <1>2

-------------------------------------------------------------------------------
(* A delivery preserves the books.                                         *)

Books == <<status, received, disposition, matched, payment>>

LEMMA DeliveryKeepsBooks ==
    ASSUME IInv, NEW p \in Process, NEW b \in Block, NEW r \in BOOLEAN,
           Ingest(p, b, r)
    PROVE  Matching' /\ AmountIsSumOfPayments' /\ CompletedWhenPaid'
<1> USE DEF IInv
<1>1. CASE Replayed(b)
  <2>1. UNCHANGED Books BY <1>1 DEF Replayed, Books
  <2> QED BY <2>1 DEF Books, Matching, AmountIsSumOfPayments, PaymentsOf,
                      CompletedWhenPaid
<1>2. ASSUME ~ Stored(b), NEW i \in Invoice \cup {None}, NEW d \in Disposition,
             Recorded(b, i, d)
      PROVE  Matching' /\ AmountIsSumOfPayments' /\ CompletedWhenPaid'
  <2> USE <1>2 DEF Recorded
  <2>1. Matching' BY IngestAssumption DEF Matching, TypeOK
  <2>2. PaymentsOf(i)' = PaymentsOf(i) BY DEF PaymentsOf
  <2>3. payment[b] = None BY DEF AmountIsSumOfPayments, Stored
  <2>4. AmountIsSumOfPayments'
    BY <2>3 DEF AmountIsSumOfPayments, PaymentsOf, TypeOK
  <2>5. CompletedWhenPaid' BY DEF CompletedWhenPaid
  <2> QED BY <2>1, <2>4, <2>5
<1>3. ASSUME ~ Stored(b), NEW i \in Invoice \cup {None}, NEW d \in Disposition,
             Credited(b, i, d)
      PROVE  Matching' /\ AmountIsSumOfPayments' /\ CompletedWhenPaid'
  <2> DEFINE amount == Total(PaymentsOf(i) \cup {b})
  <2>0. i \in Invoice BY <1>3 DEF Credited
  <2>1. Matching'
    BY <1>3, <2>0, IngestAssumption DEF Matching, TypeOK, Credited
  <2>2. payment[b] = None BY <1>3 DEF AmountIsSumOfPayments, Stored
  <2>3. /\ PaymentsOf(i)' = PaymentsOf(i) \cup {b}
        /\ \A j \in Invoice \ {i} : PaymentsOf(j)' = PaymentsOf(j)
    BY <1>3, <2>0, <2>2, PaymentAdded DEF Credited
  <2>4. \A j \in Invoice : received'[j] = Total(PaymentsOf(j)')
    <3>1. received' = [received EXCEPT ![i] = amount] BY <1>3 DEF Credited
    <3>2. received'[i] = Total(PaymentsOf(i)') BY <2>0, <2>3, <3>1 DEF TypeOK
    <3>3. \A j \in Invoice \ {i} : received'[j] = Total(PaymentsOf(j)')
      BY <2>3, <3>1 DEF TypeOK, AmountIsSumOfPayments
    <3> QED BY <3>2, <3>3
  <2>5. \A c \in Block : payment'[c] =
            IF disposition'[c] \in {"matched", "partial", "excess"}
            THEN matched'[c] ELSE None
    BY <1>3 DEF Credited, AmountIsSumOfPayments, TypeOK
  <2>6. CompletedWhenPaid'
    <3>1. /\ received' = [received EXCEPT ![i] = amount]
          /\ status' = [status EXCEPT ![i] =
                            IF Complete(i, amount) THEN "completed" ELSE "open"]
      BY <1>3 DEF Credited
    <3> HIDE DEF amount
    <3> QED BY <2>0, <3>1 DEF CompletedWhenPaid, TypeOK
  <2> QED BY <2>1, <2>4, <2>5, <2>6 DEF AmountIsSumOfPayments
<1> QED BY <1>1, <1>2, <1>3, Delivery

LEMMA DeliveryStores ==
    ASSUME IInv, NEW p \in Process, NEW b \in Block, NEW r \in BOOLEAN,
           Ingest(p, b, r)
    PROVE  \A c \in Block : Stored(c)' <=> Stored(c) \/ c = b
<1>1. disposition' = [disposition EXCEPT ![b] = Disposed(b, InvoiceOf(b))]
  BY DEF Ingest
<1>2. Disposed(b, InvoiceOf(b)) # "absent"
  BY Zenon DEF Disposed, Stored
<1> QED BY <1>1, <1>2 DEF Stored, IInv, TypeOK

LEMMA DeliveryKeepsBudget ==
    ASSUME IInv, NEW p \in Process, NEW b \in Block, NEW r \in BOOLEAN,
           Ingest(p, b, r)
    PROVE  FiniteDeposits' /\ BudgetKept'
<1> SUFFICES ASSUME NEW a \in Address
             PROVE  /\ IsFiniteSet(AccountDeposits(a)')
                    /\ Cardinality(AccountDeposits(a)') <= MaxDepositsPerAccount
  BY DEF FiniteDeposits, BudgetKept
<1>1. /\ IsFiniteSet(AccountDeposits(a))
      /\ Cardinality(AccountDeposits(a)) <= MaxDepositsPerAccount
      /\ Cardinality(AccountDeposits(a)) \in Nat
  BY FS_CardinalityType DEF IInv, FiniteDeposits, BudgetKept
<1>2. CASE Stored(b) \/ Recipient[b] # a
  <2>1. AccountDeposits(a)' = AccountDeposits(a)
    BY <1>2, DeliveryStores DEF AccountDeposits
  <2> QED BY <1>1, <2>1
<1>3. CASE ~ Stored(b) /\ Recipient[b] = a
  <2>1. AccountDeposits(a)' = AccountDeposits(a) \cup {b}
    BY <1>3, DeliveryStores DEF AccountDeposits
  <2>2. b \notin AccountDeposits(a) BY <1>3 DEF AccountDeposits
  <2>3. /\ IsFiniteSet(AccountDeposits(a)')
        /\ Cardinality(AccountDeposits(a)') = Cardinality(AccountDeposits(a)) + 1
    BY <1>1, <2>1, <2>2, FS_AddElement
  <2>4. Cardinality(AccountDeposits(a)) < MaxDepositsPerAccount
    BY <1>3 DEF Ingest, WithinBudget, DepositCount
  <2> QED BY <1>1, <2>3, <2>4, IngestAssumption
<1> QED BY <1>2, <1>3

-------------------------------------------------------------------------------
(* The types are preserved.                                                *)

LEMMA FaultType == ASSUME TypeOK, Fault PROVE faults' \in 0..MaxFaults
BY IngestAssumption DEF Fault, TypeOK

LEMMA Append1Type ==
    ASSUME NEW S, NEW event \in S, NEW when
    PROVE  Append1(when, event) \in Seq(S)
BY EmptySeq DEF Append1

LEMMA NewsTypes ==
    ASSUME NEW b \in Block, NEW i \in Invoice, NEW amount \in Sums
    PROVE  /\ DepositNews(b) \in Seq(BusinessEvent)
           /\ PaymentNews(b, i, amount) \in Seq(BusinessEvent)
           /\ CompletionNews(i, amount) \in Seq(BusinessEvent)
<1>1. /\ Event("deposit.observed", b, None, Amount[b]) \in BusinessEvent
      /\ Event("payment_received", b, i, amount) \in BusinessEvent
      /\ Event("payment_confirmed", b, i, amount) \in BusinessEvent
      /\ Event("completed", None, i, amount) \in BusinessEvent
  BY DEF Event, BusinessEvent, EventType
<1>2. DepositNews(b) \in Seq(BusinessEvent) BY <1>1, Append1Type DEF DepositNews
<1>3. CompletionNews(i, amount) \in Seq(BusinessEvent)
  BY <1>1, Append1Type DEF CompletionNews
<1>4. /\ Append1(~ Logged("payment_received", b, i),
                 Event("payment_received", b, i, amount)) \in Seq(BusinessEvent)
      /\ Append1(~ Logged("payment_confirmed", b, i),
                 Event("payment_confirmed", b, i, amount)) \in Seq(BusinessEvent)
  BY <1>1, Append1Type
<1>5. PaymentNews(b, i, amount) \in Seq(BusinessEvent)
  BY <1>4, ConcatProperties DEF PaymentNews
<1> QED BY <1>2, <1>3, <1>5

LEMMA DepositNewsType ==
    ASSUME NEW b \in Block PROVE DepositNews(b) \in Seq(BusinessEvent)
<1>1. Event("deposit.observed", b, None, Amount[b]) \in BusinessEvent
  BY DEF Event, BusinessEvent, EventType
<1> QED BY <1>1, Append1Type DEF DepositNews

LEMMA DeliveryTypes ==
    ASSUME IInv, NEW p \in Process, NEW b \in Block, NEW r \in BOOLEAN,
           Ingest(p, b, r)
    PROVE  TypeOK'
<1> DEFINE i == InvoiceOf(b)
           d == Disposed(b, i)
           amount == SumPayments(i, b)
<1> USE DEF IInv
<1> DEFINE RowsTyped ==
              /\ status \in [Invoice -> InvoiceStatus]
              /\ received \in [Invoice -> Sums]
              /\ disposition \in [Block -> Disposition]
              /\ matched \in [Block -> Invoice \cup {None}]
              /\ payment \in [Block -> Invoice \cup {None}]
<1>1. RowsTyped'
  <2>1. CASE Replayed(b) BY <2>1 DEF Replayed, TypeOK
  <2>2. ASSUME NEW j \in Invoice \cup {None}, NEW e \in Disposition,
               Recorded(b, j, e) \/ Credited(b, j, e)
        PROVE  RowsTyped'
    <3>1. Total(PaymentsOf(j) \cup {b}) \in Sums BY DEF Sums, PaymentsOf
    <3>2. CASE Recorded(b, j, e) BY <3>2 DEF Recorded, TypeOK
    <3>3. CASE Credited(b, j, e)
      <4>1. j \in Invoice BY <3>3 DEF Credited
      <4>2. received' \in [Invoice -> Sums]
        BY <3>1, <3>3 DEF Credited, TypeOK
      <4>3. status' \in [Invoice -> InvoiceStatus]
        BY <3>3 DEF Credited, TypeOK, InvoiceStatus
      <4> QED BY <3>3, <4>1, <4>2, <4>3 DEF Credited, TypeOK
    <3> QED BY <2>2, <3>2, <3>3
  <2> QED BY <2>1, <2>2, Delivery
<1>2. log' \in Seq(BusinessEvent)
  <2>1. CASE DoNotCount(b)
    BY <2>1, DepositNewsType, ConcatProperties DEF DoNotCount, TypeOK
  <2>2. CASE Count(b, i) /\ i # None
    <3>1. i \in Invoice
      <4>1. CASE Stored(b) BY <2>2, <4>1 DEF InvoiceOf, TypeOK
      <4>2. CASE ~ Stored(b)
        <5>1. i = OldestAt(Recipient[b]) BY <4>2 DEF InvoiceOf
        <5>2. InvoicesAt(Recipient[b]) # {} BY <2>2, <5>1 DEF OldestAt
        <5> QED BY <5>1, <5>2, OldestIsThere DEF InvoicesAt
      <4> QED BY <4>1, <4>2
    <3>2. amount \in Sums BY DEF SumPayments, PaymentsOf, Sums
    <3>3. log' = log \o DepositNews(b) \o PaymentNews(b, i, amount)
                     \o CompletionNews(i, amount)
      BY <2>2 DEF Count
    <3> HIDE DEF i, amount
    <3> QED BY <3>1, <3>2, <3>3, NewsTypes, ConcatProperties DEF TypeOK
  <2> QED BY <2>1, <2>2 DEF Ingest
<1>3. task' \subseteq Block /\ handling' \in [Process -> [Block -> HandlingState]]
  BY DEF Ingest, TypeOK, HandlingState
<1> QED BY <1>1, <1>2, <1>3 DEF Ingest, TypeOK, checks

LEMMA HandlingTypes ==
    ASSUME TypeOK, NEW p \in Process, NEW b \in Block,
           Admit(p, b) \/ IgnoreDust(p, b) \/ Dispatch(p, b)
           \/ RefuseBudget(p, b) \/ IngestFails(p, b)
    PROVE  TypeOK'
<1> USE FaultType DEF TypeOK, database, evidence, checks, Return, HandlingState
<1>1. CASE Admit(p, b) BY <1>1 DEF Admit
<1>2. CASE IgnoreDust(p, b) BY <1>2 DEF IgnoreDust
<1>3. CASE Dispatch(p, b) BY <1>3 DEF Dispatch
<1>4. CASE RefuseBudget(p, b) BY <1>4 DEF RefuseBudget
<1>5. CASE IngestFails(p, b) BY <1>5 DEF IngestFails
<1> QED BY <1>1, <1>2, <1>3, <1>4, <1>5

LEMMA InvoiceEventType ==
    ASSUME TypeOK, NEW i \in Invoice, NEW type \in {"canceled", "expired"}
    PROVE  Append(log, Event(type, None, i, received[i])) \in Seq(BusinessEvent)
<1>1. Event(type, None, i, received[i]) \in BusinessEvent
  BY DEF Event, BusinessEvent, EventType, TypeOK
<1> QED BY <1>1, AppendProperties DEF TypeOK

LEMMA CancelTypes ==
    ASSUME TypeOK, NEW p \in Process, NEW i \in Invoice, Cancel(p, i)
    PROVE  TypeOK'
<1> USE DEF TypeOK, database, evidence, CancelStep, CancelState, InvoiceStatus
<1>1. CASE CancelChecks(p, i) BY <1>1 DEF CancelChecks
<1>2. CASE CancelCommits(p, i) BY <1>2 DEF CancelCommits
<1>3. CASE CancelConflicts(p, i) BY <1>3 DEF CancelConflicts
<1>4. CASE CancelRecordsKey(p, i) BY <1>4 DEF CancelRecordsKey
<1>5. CASE CancelAnnounces(p, i)
  BY <1>5, InvoiceEventType DEF CancelAnnounces
<1> QED BY <1>1, <1>2, <1>3, <1>4, <1>5 DEF Cancel

LEMMA ExpiryTypes ==
    ASSUME TypeOK, NEW p \in Process, ExpiryCheck(p)
    PROVE  TypeOK'
<1> USE IngestAssumption DEF TypeOK, database, evidence, InvoiceStatus
<1>1. CASE ListOverdue(p)
  <2>1. {i \in past : status[i] = "open"} \in SUBSET Invoice OBVIOUS
  <2> QED BY <1>1, <2>1 DEF ListOverdue
<1>2. CASE AnnounceExpired(p)
  <2>1. expired[p] \in Invoice BY <1>2 DEF AnnounceExpired
  <2> QED BY <1>2, <2>1, InvoiceEventType DEF AnnounceExpired
<1>3. ASSUME NEW i \in Invoice, Expire(p, i) PROVE TypeOK'
  <2>1. overdue' \in [Process -> SUBSET Invoice]
    <3>1. overdue[p] \ {i} \in SUBSET Invoice OBVIOUS
    <3> QED BY <1>3, <3>1 DEF Expire
  <2>2. status' \in [Invoice -> InvoiceStatus]
        /\ expired' \in [Process -> Invoice \cup {None}]
    <3>1. CASE status[i] = "open"
      <4>1. /\ status' = [status EXCEPT ![i] = "expired"]
            /\ expired' = [expired EXCEPT ![p] = i]
        BY <1>3, <3>1 DEF Expire
      <4> QED BY <4>1
    <3>2. CASE status[i] # "open"
      <4>1. status' = status /\ expired' = expired BY <1>3, <3>2 DEF Expire
      <4> QED BY <4>1
    <3> QED BY <3>1, <3>2
  <2> QED BY <1>3, <2>1, <2>2 DEF Expire
<1> QED BY <1>1, <1>2, <1>3 DEF ExpiryCheck

LEMMA InvoiceTypes ==
    ASSUME TypeOK, NEW i \in Invoice, CreateInvoice(i) \/ TimePasses(i)
    PROVE  TypeOK'
<1>1. Cardinality({j \in Invoice : status[j] # "absent"}) \in Nat
  BY IngestAssumption, FS_Subset, FS_CardinalityType
<1> USE DEF TypeOK, database, memory, checks, evidence, InvoiceStatus
<1>2. CASE CreateInvoice(i)
  <2>1. created' \in [Invoice -> Nat]
    <3> DEFINE n == Cardinality({j \in Invoice : status[j] # "absent"})
    <3>1. 1 + n \in Nat BY <1>1
    <3>2. created' = [created EXCEPT ![i] = 1 + n] BY <1>2 DEF CreateInvoice
    <3> HIDE DEF n
    <3> QED BY <3>1, <3>2
  <2> QED BY <1>2, <2>1 DEF CreateInvoice
<1>3. CASE TimePasses(i) BY <1>3 DEF TimePasses
<1> QED BY <1>2, <1>3

LEMMA CrashTypes == ASSUME TypeOK, NEW p \in Process, Crash(p) PROVE TypeOK'
BY FaultType DEF Crash, TypeOK, database, evidence, HandlingState, CancelState

LEMMA StepTypes == IInv /\ [Next]_vars => TypeOK'
<1> SUFFICES ASSUME IInv, [Next]_vars PROVE TypeOK'
  OBVIOUS
<1>0. TypeOK BY DEF IInv
<1>1. CASE Next
  BY <1>0, <1>1, DeliveryTypes, HandlingTypes, CancelTypes, ExpiryTypes,
     InvoiceTypes, CrashTypes
  DEF Next, Handle
<1>2. CASE UNCHANGED vars
  BY <1>0, <1>2 DEF TypeOK, vars, database, memory, evidence, checks
<1> QED BY <1>1, <1>2

-------------------------------------------------------------------------------
(* What the other steps do to the books                                    *)

(* An open invoice is canceled or expires.                                 *)
Ended(i) ==
    /\ status[i] = "open"
    /\ \E end \in {"canceled", "expired"} : status' = [status EXCEPT ![i] = end]
    /\ UNCHANGED <<received, disposition, matched, payment>>

Created(i) ==
    /\ status[i] = "absent"
    /\ status' = [status EXCEPT ![i] = "open"]
    /\ UNCHANGED <<received, disposition, matched, payment>>

LEMMA StepOfTheBooks ==
    ASSUME [Next]_vars
    PROVE  \/ \E p \in Process, b \in Block, r \in BOOLEAN : Ingest(p, b, r)
           \/ \E i \in Invoice : Created(i) \/ Ended(i)
           \/ UNCHANGED Books
<1> USE DEF Books, Created, Ended, database, evidence
<1>1. ASSUME NEW i \in Invoice, CreateInvoice(i) PROVE Created(i)
  BY <1>1 DEF CreateInvoice
<1>2. ASSUME NEW i \in Invoice, TimePasses(i) PROVE UNCHANGED Books
  BY <1>2 DEF TimePasses
<1>3. ASSUME NEW p \in Process, NEW b \in Block,
             Admit(p, b) \/ IgnoreDust(p, b) \/ Dispatch(p, b)
             \/ RefuseBudget(p, b) \/ IngestFails(p, b)
      PROVE  UNCHANGED Books
  BY <1>3 DEF Admit, IgnoreDust, Dispatch, RefuseBudget, IngestFails
<1>4. ASSUME NEW p \in Process, NEW i \in Invoice, Cancel(p, i)
      PROVE  Ended(i) \/ UNCHANGED Books
  BY <1>4 DEF Cancel, CancelChecks, CancelCommits, CancelConflicts,
              CancelRecordsKey, CancelAnnounces
<1>5. ASSUME NEW p \in Process, ListOverdue(p) \/ AnnounceExpired(p) \/ Crash(p)
      PROVE  UNCHANGED Books
  BY <1>5 DEF ListOverdue, AnnounceExpired, Crash
<1>6. ASSUME NEW p \in Process, NEW i \in Invoice, Expire(p, i)
      PROVE  Ended(i) \/ UNCHANGED Books
  BY <1>6 DEF Expire
<1>7. CASE Next
  BY <1>1, <1>2, <1>3, <1>4, <1>5, <1>6, <1>7 DEF Next, Handle, ExpiryCheck
<1>8. CASE UNCHANGED vars BY <1>8 DEF vars
<1> QED BY <1>7, <1>8

LEMMA StepKeepsBooks ==
    IInv /\ [Next]_vars => Matching' /\ AmountIsSumOfPayments' /\ CompletedWhenPaid'
<1> SUFFICES ASSUME IInv, [Next]_vars
             PROVE  Matching' /\ AmountIsSumOfPayments' /\ CompletedWhenPaid'
  OBVIOUS
<1> USE DEF IInv
<1>1. ASSUME NEW p \in Process, NEW b \in Block, NEW r \in BOOLEAN, Ingest(p, b, r)
      PROVE  Matching' /\ AmountIsSumOfPayments' /\ CompletedWhenPaid'
  BY <1>1, DeliveryKeepsBooks
<1>2. CASE UNCHANGED Books
  BY <1>2 DEF Books, Matching, AmountIsSumOfPayments, PaymentsOf, CompletedWhenPaid
<1>3. ASSUME NEW i \in Invoice, Created(i) \/ Ended(i)
      PROVE  Matching' /\ AmountIsSumOfPayments'
  <2>1. UNCHANGED <<received, disposition, matched, payment>>
    BY <1>3 DEF Created, Ended
  <2>2. \A j \in Invoice : status[j] # "absent" => status'[j] # "absent"
    BY <1>3 DEF Created, Ended, TypeOK
  <2>3. Matching' BY <2>1, <2>2 DEF Matching, TypeOK
  <2>4. AmountIsSumOfPayments' BY <2>1 DEF AmountIsSumOfPayments, PaymentsOf
  <2> QED BY <2>3, <2>4
<1>4. ASSUME NEW i \in Invoice, Ended(i) PROVE CompletedWhenPaid'
  <2>1. PICK end \in {"canceled", "expired"} :
            status' = [status EXCEPT ![i] = end] /\ received' = received
    BY <1>4 DEF Ended
  <2> QED BY <2>1 DEF CompletedWhenPaid, TypeOK
<1>5. ASSUME NEW i \in Invoice, Created(i) PROVE CompletedWhenPaid'
  <2>1. status' = [status EXCEPT ![i] = "open"] /\ received' = received
    BY <1>5 DEF Created
  <2>2. received[i] = 0
    <3>1. status[i] = "absent" BY <1>5 DEF Created
    <3>2. \A b \in Block : payment[b] # i
      <4> SUFFICES ASSUME NEW b \in Block, payment[b] = i PROVE FALSE
        OBVIOUS
      <4>1. matched[b] = i BY IngestAssumption DEF AmountIsSumOfPayments
      <4> QED BY <3>1, <4>1, IngestAssumption DEF Matching
    <3>3. PaymentsOf(i) = {} BY <3>2 DEF PaymentsOf
    <3> QED BY <3>3, NothingTotals DEF AmountIsSumOfPayments
  <2>3. ~ Complete(i, 0) BY IngestAssumption DEF Complete
  <2> QED BY <2>1, <2>2, <2>3 DEF CompletedWhenPaid, TypeOK
<1> QED BY <1>1, <1>2, <1>3, <1>4, <1>5, StepOfTheBooks

LEMMA StepKeepsStored ==
    ASSUME IInv, [Next]_vars, NEW b \in Block, Stored(b)
    PROVE  Stored(b)'
<1>1. ASSUME NEW p \in Process, NEW c \in Block, NEW r \in BOOLEAN, Ingest(p, c, r)
      PROVE  Stored(b)'
  BY <1>1, DeliveryStores
<1>2. CASE disposition' = disposition BY <1>2 DEF Stored
<1> QED BY <1>1, <1>2, StepOfTheBooks DEF Created, Ended, Books

LEMMA StepKeepsBudget == IInv /\ [Next]_vars => FiniteDeposits' /\ BudgetKept'
<1> SUFFICES ASSUME IInv, [Next]_vars PROVE FiniteDeposits' /\ BudgetKept'
  OBVIOUS
<1>1. ASSUME NEW p \in Process, NEW c \in Block, NEW r \in BOOLEAN, Ingest(p, c, r)
      PROVE  FiniteDeposits' /\ BudgetKept'
  BY <1>1, DeliveryKeepsBudget
<1>2. CASE disposition' = disposition
  BY <1>2 DEF IInv, FiniteDeposits, BudgetKept, AccountDeposits, Stored
<1> QED BY <1>1, <1>2, StepOfTheBooks DEF Created, Ended, Books

(* A process takes a block for handled when its transaction committed.     *)
Handled(p, b) == handling[p][b] = "committed" \/ b \in processed[p]

LEMMA StepHandles ==
    ASSUME IInv, [Next]_vars
    PROVE  /\ \A p \in Process, b \in Block :
                  Handled(p, b)' => Handled(p, b) \/ Stored(b)'
           /\ \A b \in task' : b \in task \/ Stored(b)'
<1> DEFINE Honest == /\ \A p \in Process, b \in Block :
                            Handled(p, b)' => Handled(p, b) \/ Stored(b)'
                     /\ \A b \in task' : b \in task \/ Stored(b)'
<1> SUFFICES Honest
  OBVIOUS
<1> USE DEF Handled, database, evidence, checks, memory
<1>0. TypeOK BY DEF IInv
<1>1. ASSUME NEW p \in Process, NEW b \in Block, NEW r \in BOOLEAN, Ingest(p, b, r)
      PROVE  Honest
  <2>1. Stored(b)' BY <1>1, DeliveryStores
  <2>2. task' \subseteq task \cup {b} BY <1>1 DEF Ingest
  <2>3. /\ handling' = [handling EXCEPT ![p][b] = "committed"]
        /\ processed' = processed
    BY <1>1 DEF Ingest
  <2>4. \A q \in Process, c \in Block : c # b => handling'[q][c] = handling[q][c]
    BY <1>0, <2>3 DEF TypeOK
  <2> QED BY <2>1, <2>2, <2>3, <2>4
<1>2. ASSUME NEW p \in Process, NEW b \in Block,
             Admit(p, b) \/ IgnoreDust(p, b) \/ RefuseBudget(p, b)
             \/ IngestFails(p, b) \/ Dispatch(p, b)
      PROVE  Honest
  <2>1. /\ task' = task
        /\ \E state \in {"idle", "admitted"} :
              handling' = [handling EXCEPT ![p][b] = state]
        /\ \/ processed' = processed
           \/ /\ handling[p][b] = "committed"
              /\ processed' = [processed EXCEPT ![p] = @ \cup {b}]
    BY <1>2 DEF Admit, IgnoreDust, RefuseBudget, IngestFails, Dispatch, Return
  <2>2. \A q \in Process, c \in Block :
            handling'[q][c] = "committed" => handling[q][c] = "committed"
    BY <1>0, <2>1 DEF TypeOK
  <2>3. \A q \in Process, c \in Block :
            c \in processed'[q] => c \in processed[q] \/ handling[q][c] = "committed"
    <3>1. CASE processed' = processed BY <3>1
    <3>2. CASE /\ handling[p][b] = "committed"
               /\ processed' = [processed EXCEPT ![p] = @ \cup {b}]
      <4>1. processed \in [Process -> SUBSET Block] BY <1>0 DEF TypeOK
      <4> QED BY <3>2, <4>1
    <3> QED BY <2>1, <3>1, <3>2
  <2> QED BY <2>1, <2>2, <2>3
<1>3. ASSUME NEW p \in Process, Crash(p) PROVE Honest
  <2>1. /\ handling' = [handling EXCEPT ![p] = [b \in Block |-> "idle"]]
        /\ processed' = [processed EXCEPT ![p] = {}]
        /\ task' = task
    BY <1>3 DEF Crash
  <2>2. \A q \in Process, c \in Block : Handled(q, c)' => Handled(q, c)
    BY <1>0, <2>1 DEF TypeOK
  <2> QED BY <2>1, <2>2
<1>4. ASSUME \/ \E i \in Invoice : CreateInvoice(i) \/ TimePasses(i)
             \/ \E p \in Process, i \in Invoice : Cancel(p, i)
             \/ \E p \in Process : ExpiryCheck(p)
             \/ UNCHANGED vars
      PROVE  handling' = handling /\ processed' = processed /\ task' = task
  BY <1>4 DEF CreateInvoice, TimePasses, Cancel, CancelChecks, CancelCommits,
     CancelConflicts, CancelRecordsKey, CancelAnnounces, ExpiryCheck,
     ListOverdue, AnnounceExpired, Expire, vars
<1> QED BY <1>1, <1>2, <1>3, <1>4 DEF Next, Handle

LEMMA StepKeepsHandled ==
    IInv /\ [Next]_vars => CommittedIsStored' /\ ProcessedIsStored'
<1> SUFFICES ASSUME IInv, [Next]_vars
             PROVE  CommittedIsStored' /\ ProcessedIsStored'
  OBVIOUS
<1>1. TypeOK' BY StepTypes
<1>2. \A p \in Process, b \in Block : Handled(p, b) => Stored(b)
  BY DEF IInv, CommittedIsStored, ProcessedIsStored, Handled
<1>3. \A b \in task : Stored(b) BY DEF IInv, ProcessedIsStored
<1>4. \A p \in Process, b \in Block : Handled(p, b)' => Stored(b)'
  BY <1>2, StepHandles, StepKeepsStored
<1>5. \A b \in task' : Stored(b)'
  BY <1>3, StepHandles, StepKeepsStored DEF IInv, TypeOK
<1> QED BY <1>1, <1>4, <1>5
        DEF CommittedIsStored, ProcessedIsStored, Handled, TypeOK

-------------------------------------------------------------------------------
(* The log, as what it tells: an event is told of by its key, and confirms *)
(* a block for an invoice.  A log grows by one event at a time, so that    *)
(* what a longer log tells follows from what the shorter one does.         *)

EventKey(e) == <<e.type, e.block, e.invoice>>
Never(s, key) == \A n \in DOMAIN s : EventKey(s[n]) # key
Once(s, key) == \E n \in DOMAIN s : \A m \in DOMAIN s : EventKey(s[m]) = key <=> m = n
Told(s, due, key) == IF due THEN Once(s, key) ELSE Never(s, key)

Confirms(e, i) == e.type = "payment_confirmed" /\ e.invoice = i
ConfirmedUpTo(s, n, i) == {s[m].block : m \in {k \in 1..n : Confirms(s[k], i)}}
ConfirmedIn(s, i) == ConfirmedUpTo(s, Len(s), i)

(* The events whose amount is the sum of what was confirmed before.        *)
CarriesSum(e) == e.invoice # None /\ e.type # "payment_received"
AddsUp(s) ==
    \A n \in DOMAIN s : CarriesSum(s[n]) =>
        s[n].amount = Total(ConfirmedUpTo(s, n, s[n].invoice))

Grown(s, when, e) == IF when THEN Append(s, e) ELSE s

LEMMA GrownLog ==
    ASSUME NEW S, NEW s \in Seq(S), NEW e \in S
    PROVE  /\ Append(s, e) \in Seq(S) /\ Len(s) \in Nat
           /\ DOMAIN s = 1..Len(s)
           /\ DOMAIN Append(s, e) = 1..(Len(s) + 1)
           /\ \A n \in 1..Len(s) : Append(s, e)[n] = s[n]
           /\ Append(s, e)[Len(s) + 1] = e
           /\ Len(Append(s, e)) = Len(s) + 1
BY AppendProperties, LenProperties

LEMMA NewsGrows ==
    ASSUME NEW S, NEW s \in Seq(S), NEW e \in S, NEW when \in BOOLEAN
    PROVE  s \o Append1(when, e) = Grown(s, when, e) /\ Grown(s, when, e) \in Seq(S)
BY AppendIsConcat, AppendProperties, ConcatEmptySeq DEF Append1, Grown

LEMMA GrownTells ==
    ASSUME NEW S, NEW s \in Seq(S), NEW e \in S, NEW when \in BOOLEAN,
           NEW due \in BOOLEAN, NEW key, Told(s, due, key),
           ~ (due /\ when /\ EventKey(e) = key)
    PROVE  Told(Grown(s, when, e), due \/ (when /\ EventKey(e) = key), key)
<1>1. CASE ~ when BY <1>1 DEF Grown
<1>2. CASE when
  <2> DEFINE t == Append(s, e)
             N == Len(s) + 1
  <2>1. /\ DOMAIN s = 1..Len(s) /\ Len(s) \in Nat /\ DOMAIN t = 1..N
        /\ \A n \in 1..Len(s) : t[n] = s[n]
        /\ t[N] = e
    BY GrownLog
  <2> HIDE DEF t
  <2>2. Grown(s, when, e) = t BY <1>2 DEF Grown, t
  <2>3. CASE EventKey(e) = key
    <3>1. ~ due /\ Never(s, key) BY <1>2, <2>3 DEF Told
    <3>2. \A m \in DOMAIN t : EventKey(t[m]) = key <=> m = N
      BY <2>1, <2>3, <3>1 DEF Never
    <3>3. Once(t, key) BY <2>1, <3>2 DEF Once
    <3> QED BY <1>2, <2>2, <2>3, <3>3 DEF Told
  <2>4. CASE EventKey(e) # key
    <3>1. CASE due
      <4>1. PICK n \in DOMAIN s : \A m \in DOMAIN s : EventKey(s[m]) = key <=> m = n
        BY <3>1 DEF Told, Once
      <4>2. n \in DOMAIN t /\ \A m \in DOMAIN t : EventKey(t[m]) = key <=> m = n
        BY <2>1, <2>4, <4>1
      <4> QED BY <2>2, <2>4, <3>1, <4>2 DEF Told, Once
    <3>2. CASE ~ due
      BY <2>1, <2>2, <2>4, <3>2 DEF Told, Never
    <3> QED BY <3>1, <3>2
  <2> QED BY <2>3, <2>4
<1> QED BY <1>1, <1>2

LEMMA GrownConfirms ==
    ASSUME NEW S, NEW s \in Seq(S), NEW e \in S, NEW when \in BOOLEAN, NEW i
    PROVE  ConfirmedIn(Grown(s, when, e), i) =
              ConfirmedIn(s, i)
              \cup (IF when /\ Confirms(e, i) THEN {e.block} ELSE {})
<1>1. CASE ~ when BY <1>1 DEF Grown
<1>2. CASE when
  <2> DEFINE t == Append(s, e)
             N == Len(s) + 1
  <2>1. /\ Len(s) \in Nat /\ Len(t) = N
        /\ \A n \in 1..Len(s) : t[n] = s[n]
        /\ t[N] = e /\ 1..N = 1..Len(s) \cup {N}
    BY GrownLog
  <2> HIDE DEF t
  <2>2. ConfirmedIn(t, i) = ConfirmedIn(s, i)
                            \cup (IF Confirms(e, i) THEN {e.block} ELSE {})
    BY <2>1 DEF ConfirmedIn, ConfirmedUpTo
  <2> QED BY <1>2, <2>2 DEF Grown, t
<1> QED BY <1>1, <1>2

LEMMA GrownAddsUp ==
    ASSUME NEW S, NEW s \in Seq(S), NEW e \in S, NEW when \in BOOLEAN, AddsUp(s),
           when /\ CarriesSum(e) =>
              e.amount = Total(ConfirmedIn(Grown(s, when, e), e.invoice))
    PROVE  AddsUp(Grown(s, when, e))
<1>1. CASE ~ when BY <1>1 DEF Grown
<1>2. CASE when
  <2> DEFINE t == Append(s, e)
             N == Len(s) + 1
  <2>1. /\ Len(s) \in Nat /\ Len(t) = N /\ DOMAIN s = 1..Len(s)
        /\ \A n \in 1..Len(s) : t[n] = s[n]
        /\ t[N] = e /\ DOMAIN t = 1..N
    BY GrownLog
  <2>2. Grown(s, when, e) = t BY <1>2 DEF Grown
  <2> HIDE DEF t
  <2>3. ASSUME NEW n \in 1..Len(s), CarriesSum(t[n])
        PROVE  t[n].amount = Total(ConfirmedUpTo(t, n, t[n].invoice))
    <3>1. \A k \in 1..n : t[k] = s[k] BY <2>1
    <3>2. ConfirmedUpTo(t, n, t[n].invoice) = ConfirmedUpTo(s, n, t[n].invoice)
      BY <3>1 DEF ConfirmedUpTo
    <3> QED BY <2>1, <2>3, <3>2 DEF AddsUp
  <2>4. CarriesSum(t[N]) => t[N].amount = Total(ConfirmedUpTo(t, N, t[N].invoice))
    BY <1>2, <2>1, <2>2 DEF ConfirmedIn
  <2> QED BY <2>1, <2>2, <2>3, <2>4 DEF AddsUp
<1> QED BY <1>1, <1>2

(* Counting the events of a key.                                           *)
LEMMA TimesTold ==
    ASSUME NEW type, NEW b, NEW i, NEW due \in BOOLEAN, NEW S, log \in Seq(S)
    PROVE  Times(type, b, i) = (IF due THEN 1 ELSE 0)
              <=> Told(log, due, <<type, b, i>>)
<1> DEFINE hits == {n \in DOMAIN log : log[n].type = type /\ log[n].block = b
                                        /\ log[n].invoice = i}
<1>1. \A n \in DOMAIN log : n \in hits <=> EventKey(log[n]) = <<type, b, i>>
  BY DEF EventKey
<1>2. IsFiniteSet(hits)
  <2>1. DOMAIN log = 1..Len(log) /\ Len(log) \in Int BY LenProperties
  <2>2. IsFiniteSet(DOMAIN log) BY <2>1, FS_Interval
  <2>3. hits \in SUBSET DOMAIN log OBVIOUS
  <2> HIDE DEF hits
  <2> QED BY <2>2, <2>3, FS_Subset
<1>3. hits \subseteq DOMAIN log OBVIOUS
<1>4. Times(type, b, i) = Cardinality(hits) BY DEF Times
<1> HIDE DEF hits
<1>5. Cardinality(hits) = 0 <=> Never(log, <<type, b, i>>)
  <2>1. Cardinality(hits) = 0 <=> hits = {} BY <1>2, FS_EmptySet
  <2> QED BY <1>1, <1>3, <2>1 DEF Never
<1>6. Cardinality(hits) = 1 <=> Once(log, <<type, b, i>>)
  <2>1. Cardinality(hits) = 1 <=> \E n : hits = {n} BY <1>2, FS_Singleton
  <2>2. \A n \in DOMAIN log :
           hits = {n} <=> \A m \in DOMAIN log : m \in hits <=> m = n
    BY <1>3, Zenon
  <2>3. \A n : hits = {n} => n \in DOMAIN log BY <1>3, Zenon
  <2> QED BY <1>1, <2>1, <2>2, <2>3 DEF Once
<1> QED BY <1>4, <1>5, <1>6 DEF Told

(* A log that grows by up to four events.                                  *)
FourNews(s, w1, e1, w2, e2, w3, e3, w4, e4) ==
    Grown(Grown(Grown(Grown(s, w1, e1), w2, e2), w3, e3), w4, e4)
IsNews(w1, e1, w2, e2, w3, e3, w4, e4, key) ==
    \/ (w1 /\ EventKey(e1) = key) \/ (w2 /\ EventKey(e2) = key)
    \/ (w3 /\ EventKey(e3) = key) \/ (w4 /\ EventKey(e4) = key)

(* The log of a delivery that counts, as the events it grows by.           *)
LEMMA CountGrows ==
    ASSUME TypeOK, NEW b \in Block, NEW i \in Invoice, Count(b, i)
    PROVE  LET amount == SumPayments(i, b) IN
           log' = FourNews(log,
                    ~ Logged("deposit.observed", b, None),
                    Event("deposit.observed", b, None, Amount[b]),
                    ~ Logged("payment_received", b, i),
                    Event("payment_received", b, i, amount),
                    ~ Logged("payment_confirmed", b, i),
                    Event("payment_confirmed", b, i, amount),
                    StatusAfter(i, amount) = "completed"
                       /\ ~ Logged("completed", None, i),
                    Event("completed", None, i, amount))
<1> DEFINE amount == SumPayments(i, b)
           e1 == Event("deposit.observed", b, None, Amount[b])
           e2 == Event("payment_received", b, i, amount)
           e3 == Event("payment_confirmed", b, i, amount)
           e4 == Event("completed", None, i, amount)
           w1 == ~ Logged("deposit.observed", b, None)
           w2 == ~ Logged("payment_received", b, i)
           w3 == ~ Logged("payment_confirmed", b, i)
           w4 == StatusAfter(i, amount) = "completed" /\ ~ Logged("completed", None, i)
           s1 == Grown(log, w1, e1)
           s2 == Grown(s1, w2, e2)
           s3 == Grown(s2, w3, e3)
<1>1. amount \in Sums BY DEF SumPayments, PaymentsOf, Sums
<1>2. /\ e1 \in BusinessEvent /\ e2 \in BusinessEvent
      /\ e3 \in BusinessEvent /\ e4 \in BusinessEvent
  BY <1>1 DEF Event, BusinessEvent, EventType
<1>3. w1 \in BOOLEAN /\ w2 \in BOOLEAN /\ w3 \in BOOLEAN /\ w4 \in BOOLEAN
  BY DEF Logged
<1>4. log' = log \o Append1(w1, e1) \o (Append1(w2, e2) \o Append1(w3, e3))
                 \o Append1(w4, e4)
  BY DEF Count, DepositNews, PaymentNews, CompletionNews
<1>5. log \in Seq(BusinessEvent) BY DEF TypeOK
<1> HIDE DEF e1, e2, e3, e4, w1, w2, w3, w4
<1>g. ASSUME NEW s \in Seq(BusinessEvent), NEW e \in BusinessEvent, NEW w \in BOOLEAN
      PROVE  /\ s \o Append1(w, e) = Grown(s, w, e)
             /\ Grown(s, w, e) \in Seq(BusinessEvent)
             /\ Append1(w, e) \in Seq(BusinessEvent)
  BY NewsGrows, Append1Type
<1>6. log \o Append1(w1, e1) = s1 /\ s1 \in Seq(BusinessEvent)
  BY <1>2, <1>3, <1>5, <1>g
<1> HIDE DEF s1
<1>7. s1 \o Append1(w2, e2) = s2 /\ s2 \in Seq(BusinessEvent)
  BY <1>2, <1>3, <1>6, <1>g
<1> HIDE DEF s2
<1>8. s2 \o Append1(w3, e3) = s3 /\ s3 \in Seq(BusinessEvent)
  BY <1>2, <1>3, <1>7, <1>g
<1> HIDE DEF s3
<1>9. s3 \o Append1(w4, e4) = Grown(s3, w4, e4)
  BY <1>2, <1>3, <1>8, <1>g
<1>10. s1 \o (Append1(w2, e2) \o Append1(w3, e3))
          = (s1 \o Append1(w2, e2)) \o Append1(w3, e3)
  <2>1. /\ s1 \in Seq(BusinessEvent) /\ Append1(w2, e2) \in Seq(BusinessEvent)
        /\ Append1(w3, e3) \in Seq(BusinessEvent)
    BY <1>2, <1>3, <1>6, <1>g
  <2> QED BY <2>1, ConcatAssociative
<1>11. log' = FourNews(log, w1, e1, w2, e2, w3, e3, w4, e4)
  BY <1>4, <1>6, <1>7, <1>8, <1>9, <1>10 DEF FourNews, s1, s2, s3
<1> QED BY <1>11 DEF e1, e2, e3, e4, w1, w2, w3, w4

(* What the log tells, by key: a deposit for each stored block, the two    *)
(* events of each payment, the completion of each completed invoice.  The  *)
(* blocks it confirms for an invoice are the invoice's payments, and the   *)
(* amounts it carries are their sums.                                      *)
DepositsTold ==
    \A b \in Block : Told(log, Stored(b), <<"deposit.observed", b, None>>)
PaymentsTold ==
    \A b \in Block, i \in Invoice, type \in {"payment_received", "payment_confirmed"} :
        Told(log, payment[b] = i, <<type, b, i>>)
CompletionsTold ==
    \A i \in Invoice : Told(log, status[i] = "completed", <<"completed", None, i>>)
PaymentsConfirmed == \A i \in Invoice : ConfirmedIn(log, i) = PaymentsOf(i)

LogInv ==
    /\ DepositsTold /\ PaymentsTold /\ CompletionsTold
    /\ PaymentsConfirmed /\ AddsUp(log)

LEMMA InitialLog == Init => LogInv
<1> SUFFICES ASSUME Init PROVE LogInv
  OBVIOUS
<1>1. /\ log = << >>
      /\ \A b \in Block : ~ Stored(b) /\ payment[b] = None
      /\ \A i \in Invoice : status[i] = "absent"
  BY DEF Init, Stored
<1>2. \A key : Told(log, FALSE, key) BY <1>1 DEF Told, Never
<1>3. DepositsTold /\ CompletionsTold
  BY <1>1, <1>2, Zenon DEF DepositsTold, CompletionsTold, Told
<1>4. \A b \in Block, i \in Invoice : payment[b] # i
  BY <1>1, IngestAssumption
<1>5. PaymentsTold BY <1>2, <1>4, Zenon DEF PaymentsTold, Told
<1>6. PaymentsConfirmed
  BY <1>1, <1>4 DEF PaymentsConfirmed, ConfirmedIn, ConfirmedUpTo, PaymentsOf
<1>7. AddsUp(log) BY <1>1 DEF AddsUp
<1> QED BY <1>3, <1>5, <1>6, <1>7 DEF LogInv

(* What is logged is what is due.                                          *)
LEMMA LoggedWhenDue ==
    ASSUME NEW type, NEW b, NEW i, NEW due \in BOOLEAN,
           Told(log, due, <<type, b, i>>)
    PROVE  Logged(type, b, i) <=> due
<1>1. \A n \in DOMAIN log :
         EventKey(log[n]) = <<type, b, i>> <=>
            log[n].type = type /\ log[n].block = b /\ log[n].invoice = i
  BY DEF EventKey
<1>2. CASE due BY <1>1, <1>2 DEF Told, Once, Logged
<1>3. CASE ~ due BY <1>1, <1>3 DEF Told, Never, Logged
<1> QED BY <1>2, <1>3

(* A delivery that counts does so for an invoice, and only once.           *)
LEMMA DeliveryCounts ==
    ASSUME IInv, NEW p \in Process, NEW b \in Block, NEW r \in BOOLEAN,
           Ingest(p, b, r)
    PROVE  \/ DoNotCount(b)
           \/ \E i \in Invoice : Count(b, i) /\ payment[b] = IF Stored(b) THEN i ELSE None
<1> DEFINE i == InvoiceOf(b)
           d == Disposed(b, i)
<1> USE DEF IInv
<1>1. CASE i = None \/ d = "late" BY <1>1 DEF Ingest
<1>2. CASE i # None /\ d # "late"
  <2>1. Count(b, i) BY <1>2 DEF Ingest
  <2>2. CASE Stored(b)
    <3>1. i = matched[b] /\ d = disposition[b]
      BY <2>2 DEF InvoiceOf, Disposed
    <3>2. i \in Invoice /\ d \in {"matched", "partial", "excess"}
      BY <1>2, <2>2, <3>1 DEF Matching, TypeOK, Disposition, Stored
    <3>3. payment[b] = i BY <3>1, <3>2 DEF AmountIsSumOfPayments
    <3> QED BY <2>1, <2>2, <3>2, <3>3
  <2>3. CASE ~ Stored(b)
    <3>1. i = OldestAt(Recipient[b]) BY <2>3 DEF InvoiceOf
    <3>2. i \in Invoice
      <4>1. InvoicesAt(Recipient[b]) # {} BY <1>2, <3>1 DEF OldestAt
      <4> QED BY <3>1, <4>1, OldestIsThere DEF InvoicesAt
    <3>3. payment[b] = None BY <2>3 DEF AmountIsSumOfPayments, Stored
    <3> QED BY <2>1, <2>3, <3>2, <3>3
  <2> QED BY <2>2, <2>3
<1> QED BY <1>1, <1>2

LEMMA NotCountingKeepsLog ==
    ASSUME IInv, LogInv, NEW p \in Process, NEW b \in Block, NEW r \in BOOLEAN,
           Ingest(p, b, r), DoNotCount(b)
    PROVE  LogInv'
<1> DEFINE e == Event("deposit.observed", b, None, Amount[b])
           w == ~ Logged("deposit.observed", b, None)
<1>1. /\ log \in Seq(BusinessEvent) /\ e \in BusinessEvent /\ w \in BOOLEAN
  BY DEF IInv, TypeOK, Event, BusinessEvent, EventType, Logged
<1>2. log' = Grown(log, w, e)
  <2>1. log' = log \o Append1(w, e) BY DEF DoNotCount, DepositNews
  <2> HIDE DEF e, w
  <2> QED BY <1>1, <2>1, NewsGrows
<1>3. EventKey(e) = <<"deposit.observed", b, None>> BY DEF EventKey, Event
<1>4. w <=> ~ Stored(b)
  <2>1. Told(log, Stored(b), <<"deposit.observed", b, None>>)
    BY DEF LogInv, DepositsTold
  <2>2. Stored(b) \in BOOLEAN BY DEF Stored
  <2> QED BY <2>1, <2>2, LoggedWhenDue, Zenon
<1>5. (\A j : ~ Confirms(e, j)) /\ ~ CarriesSum(e)
  BY DEF Confirms, CarriesSum, Event
<1>6. UNCHANGED <<payment, received, status>> BY DEF DoNotCount
<1> HIDE DEF e, w
<1>7. ASSUME NEW key, NEW due \in BOOLEAN, Told(log, due, key), w /\ EventKey(e) = key => ~ due
      PROVE  Told(log', due \/ (w /\ EventKey(e) = key), key)
  BY <1>1, <1>2, <1>7, GrownTells
<1>8. DepositsTold'
  <2> SUFFICES ASSUME NEW c \in Block
               PROVE  Told(log', Stored(c)', <<"deposit.observed", c, None>>)
    BY DEF DepositsTold
  <2>1. Told(log, Stored(c), <<"deposit.observed", c, None>>)
    BY DEF LogInv, DepositsTold
  <2>2. Stored(c)' <=> Stored(c) \/ (w /\ EventKey(e) = <<"deposit.observed", c, None>>)
    BY <1>3, <1>4, DeliveryStores
  <2>3. Stored(c) \in BOOLEAN /\ Stored(c)' \in BOOLEAN BY DEF Stored
  <2>4. w /\ EventKey(e) = <<"deposit.observed", c, None>> => ~ Stored(c)
    BY <1>3, <1>4
  <2>5. Stored(c)' = (Stored(c) \/ (w /\ EventKey(e) = <<"deposit.observed", c, None>>))
    BY <2>2, <2>3
  <2> QED BY <1>7, <2>1, <2>3, <2>4, <2>5
<1>9. ASSUME NEW key, NEW due \in BOOLEAN, Told(log, due, key),
             key[1] # "deposit.observed"
      PROVE  Told(log', due, key)
  <2>1. ~ (w /\ EventKey(e) = key) BY <1>3, <1>9
  <2>2. (due \/ (w /\ EventKey(e) = key)) = due BY <2>1
  <2> QED BY <1>7, <1>9, <2>1, <2>2
<1>10. PaymentsTold'
  <2> SUFFICES ASSUME NEW c \in Block, NEW j \in Invoice,
                      NEW type \in {"payment_received", "payment_confirmed"}
               PROVE  Told(log', payment[c] = j, <<type, c, j>>)
    BY <1>6 DEF PaymentsTold
  <2>1. Told(log, payment[c] = j, <<type, c, j>>) BY DEF LogInv, PaymentsTold
  <2> QED BY <1>9, <2>1
<1>11. CompletionsTold'
  <2> SUFFICES ASSUME NEW j \in Invoice
               PROVE  Told(log', status[j] = "completed", <<"completed", None, j>>)
    BY <1>6 DEF CompletionsTold
  <2>1. Told(log, status[j] = "completed", <<"completed", None, j>>)
    BY DEF LogInv, CompletionsTold
  <2> QED BY <1>9, <2>1
<1>12. PaymentsConfirmed'
  <2> SUFFICES ASSUME NEW j \in Invoice
               PROVE  ConfirmedIn(log', j) = PaymentsOf(j)
    BY <1>6 DEF PaymentsConfirmed, PaymentsOf
  <2>1. ConfirmedIn(log, j) = PaymentsOf(j) BY DEF LogInv, PaymentsConfirmed
  <2>2. ConfirmedIn(Grown(log, w, e), j) =
            ConfirmedIn(log, j) \cup (IF w /\ Confirms(e, j) THEN {e.block} ELSE {})
    BY <1>1, GrownConfirms
  <2> QED BY <1>2, <1>5, <2>1, <2>2
<1>13. AddsUp(log)'
  <2>1. AddsUp(log) BY DEF LogInv
  <2> QED BY <1>1, <1>2, <1>5, <2>1, GrownAddsUp
<1> QED BY <1>8, <1>10, <1>11, <1>12, <1>13 DEF LogInv

LEMMA CountingKeepsLog ==
    ASSUME IInv, LogInv, NEW p \in Process, NEW b \in Block, NEW r \in BOOLEAN,
           Ingest(p, b, r), NEW i \in Invoice, Count(b, i),
           payment[b] = IF Stored(b) THEN i ELSE None
    PROVE  LogInv'
<1> DEFINE amount == SumPayments(i, b)
           e1 == Event("deposit.observed", b, None, Amount[b])
           e2 == Event("payment_received", b, i, amount)
           e3 == Event("payment_confirmed", b, i, amount)
           e4 == Event("completed", None, i, amount)
           w1 == ~ Logged("deposit.observed", b, None)
           w2 == ~ Logged("payment_received", b, i)
           w3 == ~ Logged("payment_confirmed", b, i)
           w4 == StatusAfter(i, amount) = "completed" /\ ~ Logged("completed", None, i)
           s1 == Grown(log, w1, e1)
           s2 == Grown(s1, w2, e2)
           s3 == Grown(s2, w3, e3)
           Due(key) == IsNews(w1, e1, w2, e2, w3, e3, w4, e4, key)
<1>0. TypeOK BY DEF IInv
<1>1. /\ log \in Seq(BusinessEvent)
      /\ e1 \in BusinessEvent /\ e2 \in BusinessEvent
      /\ e3 \in BusinessEvent /\ e4 \in BusinessEvent
      /\ w1 \in BOOLEAN /\ w2 \in BOOLEAN /\ w3 \in BOOLEAN /\ w4 \in BOOLEAN
  <2>1. amount \in Sums BY DEF SumPayments, PaymentsOf, Sums
  <2> HIDE DEF amount
  <2> QED BY <1>0, <2>1 DEF TypeOK, Event, BusinessEvent, EventType, Logged
<1>2. /\ EventKey(e1) = <<"deposit.observed", b, None>>
      /\ EventKey(e2) = <<"payment_received", b, i>>
      /\ EventKey(e3) = <<"payment_confirmed", b, i>>
      /\ EventKey(e4) = <<"completed", None, i>>
  BY DEF EventKey, Event
<1>3. /\ w1 <=> ~ Stored(b)
      /\ w2 <=> payment[b] # i
      /\ w3 <=> payment[b] # i
      /\ w4 <=> StatusAfter(i, amount) = "completed" /\ status[i] # "completed"
  <2>1. /\ Told(log, Stored(b), <<"deposit.observed", b, None>>)
        /\ Told(log, payment[b] = i, <<"payment_received", b, i>>)
        /\ Told(log, payment[b] = i, <<"payment_confirmed", b, i>>)
        /\ Told(log, status[i] = "completed", <<"completed", None, i>>)
    BY DEF LogInv, DepositsTold, PaymentsTold, CompletionsTold
  <2>2. Logged("deposit.observed", b, None) <=> Stored(b)
    <3>1. Stored(b) \in BOOLEAN BY DEF Stored
    <3> QED BY <2>1, <3>1, LoggedWhenDue, Zenon
  <2>3. Logged("payment_received", b, i) <=> payment[b] = i
    BY <2>1, LoggedWhenDue, Zenon
  <2>4. Logged("payment_confirmed", b, i) <=> payment[b] = i
    BY <2>1, LoggedWhenDue, Zenon
  <2>5. Logged("completed", None, i) <=> status[i] = "completed"
    BY <2>1, LoggedWhenDue, Zenon
  <2> QED BY <2>2, <2>3, <2>4, <2>5
<1>4. log' = FourNews(log, w1, e1, w2, e2, w3, e3, w4, e4)
  BY <1>0, CountGrows
<1>5. /\ payment' = [payment EXCEPT ![b] = i]
      /\ status' = [status EXCEPT ![i] = StatusAfter(i, amount)]
  BY DEF Count
<1>6. /\ ~ CarriesSum(e1) /\ ~ CarriesSum(e2)
      /\ e3.amount = amount /\ e3.invoice = i /\ e4.amount = amount /\ e4.invoice = i
      /\ e3.block = b /\ Confirms(e3, i)
      /\ \A j : /\ ~ Confirms(e1, j) /\ ~ Confirms(e2, j) /\ ~ Confirms(e4, j)
                /\ Confirms(e3, j) => j = i
  BY DEF Confirms, CarriesSum, Event
<1>7. amount = Total(PaymentsOf(i) \cup {b}) BY DEF SumPayments
<1> HIDE DEF amount, e1, e2, e3, e4, w1, w2, w3, w4
<1>8. s1 \in Seq(BusinessEvent) /\ s2 \in Seq(BusinessEvent) /\ s3 \in Seq(BusinessEvent)
  <2>1. s1 \in Seq(BusinessEvent) BY <1>1, NewsGrows
  <2> HIDE DEF s1
  <2>2. s2 \in Seq(BusinessEvent) BY <1>1, <2>1, NewsGrows
  <2> HIDE DEF s2
  <2> QED BY <1>1, <2>1, <2>2, NewsGrows
<1>9. log' = Grown(s3, w4, e4) BY <1>4 DEF FourNews
<1>10. ASSUME NEW key, NEW due \in BOOLEAN, NEW then \in BOOLEAN,
             Told(log, due, key), Due(key) => ~ due, then <=> due \/ Due(key)
      PROVE  Told(log', then, key)
  <2> DEFINE k1 == EventKey(e1) = key
             k2 == EventKey(e2) = key
             k3 == EventKey(e3) = key
             k4 == EventKey(e4) = key
             d1 == due \/ (w1 /\ k1)
             d2 == d1 \/ (w2 /\ k2)
             d3 == d2 \/ (w3 /\ k3)
  <2>0. ~ (k1 /\ k2) /\ ~ (k1 /\ k3) /\ ~ (k1 /\ k4)
        /\ ~ (k2 /\ k3) /\ ~ (k2 /\ k4) /\ ~ (k3 /\ k4)
    BY <1>2
  <2>1. Told(s1, d1, key) BY <1>1, <1>10, GrownTells DEF IsNews
  <2> HIDE DEF s1
  <2>2. d1 \in BOOLEAN /\ ~ (d1 /\ w2 /\ k2)
        /\ ~ (d1 /\ w3 /\ k3) /\ ~ (d1 /\ w4 /\ k4)
    BY <1>10, <2>0 DEF IsNews
  <2> HIDE DEF d1
  <2>3. Told(s2, d2, key) BY <1>1, <1>8, <2>1, <2>2, GrownTells
  <2> HIDE DEF s2
  <2>4. d2 \in BOOLEAN /\ ~ (d2 /\ w3 /\ k3) /\ ~ (d2 /\ w4 /\ k4)
    BY <2>0, <2>2
  <2> HIDE DEF d2
  <2>5. Told(s3, d3, key) BY <1>1, <1>8, <2>3, <2>4, GrownTells
  <2> HIDE DEF s3
  <2>6. d3 \in BOOLEAN /\ ~ (d3 /\ w4 /\ k4) BY <2>0, <2>4
  <2> HIDE DEF d3
  <2>7. Told(Grown(s3, w4, e4), d3 \/ (w4 /\ k4), key)
    BY <1>1, <1>8, <2>5, <2>6, GrownTells
  <2>8. (d3 \/ (w4 /\ k4)) = then BY <1>10 DEF d1, d2, d3, IsNews
  <2> QED BY <1>9, <2>7, <2>8
<1>11. DepositsTold'
  <2> SUFFICES ASSUME NEW c \in Block
               PROVE  Told(log', Stored(c)', <<"deposit.observed", c, None>>)
    BY DEF DepositsTold
  <2> DEFINE key == <<"deposit.observed", c, None>>
  <2>1. Told(log, Stored(c), key) BY DEF LogInv, DepositsTold
  <2>2. Due(key) <=> w1 /\ c = b BY <1>2 DEF IsNews
  <2>3. Stored(c)' <=> Stored(c) \/ c = b BY DeliveryStores
  <2>4. Stored(c) \in BOOLEAN /\ Stored(c)' \in BOOLEAN BY DEF Stored
  <2> HIDE DEF Due
  <2> QED BY <1>3, <1>10, <2>1, <2>2, <2>3, <2>4
<1>12. PaymentsTold'
  <2> SUFFICES ASSUME NEW c \in Block, NEW j \in Invoice,
                      NEW type \in {"payment_received", "payment_confirmed"}
               PROVE  Told(log', payment'[c] = j, <<type, c, j>>)
    BY DEF PaymentsTold
  <2> DEFINE key == <<type, c, j>>
  <2>1. Told(log, payment[c] = j, key) BY DEF LogInv, PaymentsTold
  <2>2. Due(key) <=> payment[b] # i /\ c = b /\ j = i
    BY <1>2, <1>3 DEF IsNews
  <2>3. payment'[c] = j <=> payment[c] = j \/ (payment[b] # i /\ c = b /\ j = i)
    BY <1>0, <1>5, IngestAssumption DEF TypeOK
  <2> HIDE DEF Due
  <2> QED BY <1>10, <2>1, <2>2, <2>3
<1>13. CompletionsTold'
  <2> SUFFICES ASSUME NEW j \in Invoice
               PROVE  Told(log', status'[j] = "completed", <<"completed", None, j>>)
    BY DEF CompletionsTold
  <2> DEFINE key == <<"completed", None, j>>
  <2>1. Told(log, status[j] = "completed", key) BY DEF LogInv, CompletionsTold
  <2>2. Due(key) <=> w4 /\ j = i BY <1>2 DEF IsNews
  <2>3. status[i] = "completed" => StatusAfter(i, amount) = "completed"
    BY DEF StatusAfter
  <2>4. status'[j] = "completed" <=> status[j] = "completed" \/ (w4 /\ j = i)
    BY <1>0, <1>3, <1>5, <2>3 DEF TypeOK
  <2>5. w4 /\ j = i => status[j] # "completed" BY <1>3
  <2> HIDE DEF Due
  <2> QED BY <1>10, <2>1, <2>2, <2>4, <2>5
<1>14. /\ \A j \in Invoice \ {i} : PaymentsOf(j)' = PaymentsOf(j)
       /\ PaymentsOf(i)' = PaymentsOf(i) \cup {b}
       /\ ~ w3 => b \in PaymentsOf(i)
  <2>1. payment[b] \in {i, None} OBVIOUS
  <2>2. ~ w3 => b \in PaymentsOf(i) BY <1>3 DEF PaymentsOf
  <2> QED BY <1>0, <1>5, <2>1, <2>2, PaymentAdded
<1>15. ASSUME NEW j \in Invoice
       PROVE  /\ ConfirmedIn(s3, j) = PaymentsOf(j)'
              /\ ConfirmedIn(log', j) = PaymentsOf(j)'
  <2>1. ConfirmedIn(log, j) = PaymentsOf(j) BY DEF LogInv, PaymentsConfirmed
  <2>2. ConfirmedIn(s1, j) = ConfirmedIn(log, j)
    <3>1. ConfirmedIn(s1, j) = ConfirmedIn(log, j)
             \cup (IF w1 /\ Confirms(e1, j) THEN {e1.block} ELSE {})
      BY <1>1, GrownConfirms
    <3> QED BY <1>6, <3>1
  <2>3. ConfirmedIn(s2, j) = ConfirmedIn(s1, j)
    <3>1. ConfirmedIn(s2, j) = ConfirmedIn(s1, j)
             \cup (IF w2 /\ Confirms(e2, j) THEN {e2.block} ELSE {})
      BY <1>1, <1>8, GrownConfirms
    <3> QED BY <1>6, <3>1
  <2>4. ConfirmedIn(s3, j) = ConfirmedIn(s2, j)
             \cup (IF w3 /\ Confirms(e3, j) THEN {e3.block} ELSE {})
    BY <1>1, <1>8, GrownConfirms
  <2>5. ConfirmedIn(log', j) = ConfirmedIn(s3, j)
    <3>1. ConfirmedIn(Grown(s3, w4, e4), j) = ConfirmedIn(s3, j)
             \cup (IF w4 /\ Confirms(e4, j) THEN {e4.block} ELSE {})
      BY <1>1, <1>8, GrownConfirms
    <3> QED BY <1>6, <1>9, <3>1
  <2> HIDE DEF s1, s2, s3
  <2>6. ConfirmedIn(s3, j) = PaymentsOf(j)
             \cup (IF w3 /\ Confirms(e3, j) THEN {b} ELSE {})
    BY <1>6, <2>1, <2>2, <2>3, <2>4
  <2>7. CASE j = i BY <1>6, <1>14, <2>5, <2>6, <2>7
  <2>8. CASE j # i BY <1>6, <1>14, <2>5, <2>6, <2>8
  <2> QED BY <2>7, <2>8
<1>16. PaymentsConfirmed' BY <1>15 DEF PaymentsConfirmed
<1>17. AddsUp(log)'
  <2>1. AddsUp(log) BY DEF LogInv
  <2>2. AddsUp(s1) BY <1>1, <1>6, <2>1, GrownAddsUp
  <2>3. AddsUp(s2)
    <3> HIDE DEF s1
    <3> QED BY <1>1, <1>6, <1>8, <2>2, GrownAddsUp
  <2>4. amount = Total(PaymentsOf(i)') BY <1>7, <1>14
  <2>5. AddsUp(s3)
    <3>1. e3.amount = Total(ConfirmedIn(s3, e3.invoice)) BY <1>6, <1>15, <2>4
    <3> HIDE DEF s2
    <3> QED BY <1>1, <1>8, <2>3, <3>1, GrownAddsUp
  <2>6. e4.amount = Total(ConfirmedIn(log', e4.invoice)) BY <1>6, <1>15, <2>4
  <2> HIDE DEF s3
  <2> QED BY <1>1, <1>8, <1>9, <2>5, <2>6, GrownAddsUp
<1> QED BY <1>11, <1>12, <1>13, <1>16, <1>17 DEF LogInv

(* The end of an invoice is announced with what it received.               *)
Announced(i) ==
    /\ \E type \in {"canceled", "expired"} :
          log' = Append(log, Event(type, None, i, received[i]))
    /\ UNCHANGED Books

LEMMA AnnouncingKeepsLog ==
    ASSUME IInv, LogInv, NEW i \in Invoice, Announced(i)
    PROVE  LogInv'
<1>1. PICK type \in {"canceled", "expired"} :
          log' = Append(log, Event(type, None, i, received[i]))
  BY DEF Announced
<1> DEFINE e == Event(type, None, i, received[i])
<1>2. /\ log \in Seq(BusinessEvent) /\ e \in BusinessEvent
      /\ log' = Grown(log, TRUE, e)
  BY <1>1 DEF IInv, TypeOK, Event, BusinessEvent, EventType, Grown
<1>3. /\ UNCHANGED <<payment, received, status>>
      /\ \A c \in Block : Stored(c)' = Stored(c)
  BY DEF Announced, Books, Stored
<1>4. /\ EventKey(e)[1] \in {"canceled", "expired"}
      /\ \A j : ~ Confirms(e, j)
      /\ e.amount = received[i] /\ e.invoice = i
  BY DEF Confirms, Event, EventKey
<1> HIDE DEF e
<1>5. ASSUME NEW key, NEW due \in BOOLEAN, Told(log, due, key),
             key[1] \notin {"canceled", "expired"}
      PROVE  Told(log', due, key)
  <2>1. EventKey(e) # key BY <1>4, <1>5
  <2>2. Told(Grown(log, TRUE, e), due \/ (TRUE /\ EventKey(e) = key), key)
    BY <1>2, <1>5, <2>1, GrownTells
  <2>3. (due \/ (TRUE /\ EventKey(e) = key)) = due BY <2>1
  <2> QED BY <1>2, <2>2, <2>3
<1>6. DepositsTold'
  <2> SUFFICES ASSUME NEW c \in Block
               PROVE  Told(log', Stored(c), <<"deposit.observed", c, None>>)
    BY <1>3 DEF DepositsTold
  <2>1. Told(log, Stored(c), <<"deposit.observed", c, None>>)
    BY DEF LogInv, DepositsTold
  <2>2. Stored(c) \in BOOLEAN BY DEF Stored
  <2> QED BY <1>5, <2>1, <2>2
<1>7. PaymentsTold'
  <2> SUFFICES ASSUME NEW c \in Block, NEW j \in Invoice,
                      NEW kind \in {"payment_received", "payment_confirmed"}
               PROVE  Told(log', payment[c] = j, <<kind, c, j>>)
    BY <1>3 DEF PaymentsTold
  <2>1. Told(log, payment[c] = j, <<kind, c, j>>) BY DEF LogInv, PaymentsTold
  <2> QED BY <1>5, <2>1
<1>8. CompletionsTold'
  <2> SUFFICES ASSUME NEW j \in Invoice
               PROVE  Told(log', status[j] = "completed", <<"completed", None, j>>)
    BY <1>3 DEF CompletionsTold
  <2>1. Told(log, status[j] = "completed", <<"completed", None, j>>)
    BY DEF LogInv, CompletionsTold
  <2> QED BY <1>5, <2>1
<1>9. ASSUME NEW j \in Invoice PROVE ConfirmedIn(log', j) = PaymentsOf(j)
  <2>1. ConfirmedIn(log, j) = PaymentsOf(j) BY DEF LogInv, PaymentsConfirmed
  <2> DEFINE w == TRUE
  <2>2. w \in BOOLEAN /\ log' = Grown(log, w, e) BY <1>2
  <2> HIDE DEF w
  <2>3. ConfirmedIn(Grown(log, w, e), j) =
            ConfirmedIn(log, j) \cup (IF w /\ Confirms(e, j) THEN {e.block} ELSE {})
    BY <1>2, <2>2, GrownConfirms
  <2> QED BY <1>4, <2>1, <2>2, <2>3
<1>10. PaymentsConfirmed'
  BY <1>3, <1>9 DEF PaymentsConfirmed, PaymentsOf
<1>11. AddsUp(log)'
  <2>1. AddsUp(log) BY DEF LogInv
  <2>2. e.amount = Total(ConfirmedIn(Grown(log, TRUE, e), e.invoice))
    BY <1>2, <1>4, <1>9 DEF IInv, AmountIsSumOfPayments
  <2> QED BY <1>2, <2>1, <2>2, GrownAddsUp
<1> QED BY <1>6, <1>7, <1>8, <1>10, <1>11 DEF LogInv

LEMMA StepOfTheLog ==
    ASSUME TypeOK, [Next]_vars
    PROVE  \/ \E p \in Process, b \in Block, r \in BOOLEAN : Ingest(p, b, r)
           \/ \E i \in Invoice : Announced(i)
           \/ log' = log
<1> USE DEF Announced, Books, database, evidence
<1>1. ASSUME NEW i \in Invoice, CreateInvoice(i) \/ TimePasses(i)
      PROVE  log' = log
  BY <1>1 DEF CreateInvoice, TimePasses
<1>2. ASSUME NEW p \in Process, NEW b \in Block,
             Admit(p, b) \/ IgnoreDust(p, b) \/ Dispatch(p, b)
             \/ RefuseBudget(p, b) \/ IngestFails(p, b)
      PROVE  log' = log
  BY <1>2 DEF Admit, IgnoreDust, Dispatch, RefuseBudget, IngestFails
<1>3. ASSUME NEW p \in Process, NEW i \in Invoice, Cancel(p, i)
      PROVE  Announced(i) \/ log' = log
  BY <1>3 DEF Cancel, CancelChecks, CancelCommits, CancelConflicts,
              CancelRecordsKey, CancelAnnounces
<1>4. ASSUME NEW p \in Process, AnnounceExpired(p)
      PROVE  \E i \in Invoice : Announced(i)
  <2>1. expired[p] \in Invoice BY <1>4 DEF AnnounceExpired, TypeOK
  <2> QED BY <1>4, <2>1 DEF AnnounceExpired
<1>5. ASSUME NEW p \in Process, ListOverdue(p) \/ Crash(p) PROVE log' = log
  BY <1>5 DEF ListOverdue, Crash
<1>6. ASSUME NEW p \in Process, NEW i \in Invoice, Expire(p, i) PROVE log' = log
  BY <1>6 DEF Expire
<1>7. CASE Next
  <2> HIDE DEF Announced
  <2> QED BY <1>1, <1>2, <1>3, <1>4, <1>5, <1>6, <1>7 DEF Next, Handle, ExpiryCheck
<1>8. CASE UNCHANGED vars BY <1>8 DEF vars
<1> QED BY <1>7, <1>8

LEMMA StepKeepsLog == IInv /\ LogInv /\ [Next]_vars => LogInv'
<1> SUFFICES ASSUME IInv, LogInv, [Next]_vars PROVE LogInv'
  OBVIOUS
<1>0. TypeOK BY DEF IInv
<1>1. ASSUME NEW p \in Process, NEW b \in Block, NEW r \in BOOLEAN, Ingest(p, b, r)
      PROVE  LogInv'
  BY <1>1, DeliveryCounts, NotCountingKeepsLog, CountingKeepsLog
<1>2. ASSUME NEW i \in Invoice, Announced(i) PROVE LogInv'
  BY <1>2, AnnouncingKeepsLog
<1>3. ASSUME log' = log, UNCHANGED <<disposition, payment>>,
             \A i \in Invoice : status'[i] = "completed" <=> status[i] = "completed"
      PROVE  LogInv'
  <2>1. /\ \A b \in Block : Stored(b)' = Stored(b)
        /\ \A i \in Invoice : PaymentsOf(i)' = PaymentsOf(i)
    BY <1>3 DEF Stored, PaymentsOf
  <2>2. \A i \in Invoice : (status'[i] = "completed") = (status[i] = "completed")
    BY <1>3
  <2>3. DepositsTold' BY <1>3, <2>1 DEF LogInv, DepositsTold
  <2>4. PaymentsTold' BY <1>3 DEF LogInv, PaymentsTold
  <2>5. CompletionsTold' BY <1>3, <2>2 DEF LogInv, CompletionsTold
  <2>6. PaymentsConfirmed' /\ AddsUp(log)'
    BY <1>3, <2>1 DEF LogInv, PaymentsConfirmed
  <2> QED BY <2>3, <2>4, <2>5, <2>6 DEF LogInv
<1>4. ASSUME log' = log, NEW i \in Invoice, Created(i) \/ Ended(i) PROVE LogInv'
  <2>1. /\ UNCHANGED <<disposition, payment>>
        /\ \A j \in Invoice : status'[j] = "completed" <=> status[j] = "completed"
    BY <1>0, <1>4 DEF Created, Ended, TypeOK
  <2> QED BY <1>3, <1>4, <2>1
<1>5. CASE log' = log /\ UNCHANGED Books BY <1>3, <1>5 DEF Books
<1> QED BY <1>0, <1>1, <1>2, <1>4, <1>5, StepOfTheLog, StepOfTheBooks

(* The keys that are told of once are the events that match the rows.      *)
LEMMA LogTellsTheRows == TypeOK /\ LogInv => EventsTellTheRows
<1> SUFFICES ASSUME TypeOK, LogInv PROVE EventsMatchRows /\ EventAmountsAddUp
  BY DEF EventsTellTheRows
<1>0. log \in Seq(BusinessEvent) BY DEF TypeOK
<1>1. \A b \in Block : Times("deposit.observed", b, None) = IF Stored(b) THEN 1 ELSE 0
  <2> SUFFICES ASSUME NEW b \in Block
               PROVE  Times("deposit.observed", b, None) = IF Stored(b) THEN 1 ELSE 0
    OBVIOUS
  <2>1. Told(log, Stored(b), <<"deposit.observed", b, None>>)
    BY DEF LogInv, DepositsTold
  <2>2. Stored(b) \in BOOLEAN BY DEF Stored
  <2> QED BY <1>0, <2>1, <2>2, TimesTold
<1>2. ASSUME NEW b \in Block, NEW i \in Invoice,
             NEW type \in {"payment_received", "payment_confirmed"}
      PROVE  Times(type, b, i) = IF payment[b] = i THEN 1 ELSE 0
  <2> DEFINE due == payment[b] = i
  <2>1. Told(log, due, <<type, b, i>>) BY DEF LogInv, PaymentsTold
  <2>2. due \in BOOLEAN OBVIOUS
  <2> HIDE DEF due
  <2>3. Times(type, b, i) = IF due THEN 1 ELSE 0
    BY <1>0, <2>1, <2>2, TimesTold
  <2> QED BY <2>3 DEF due
<1>3. ASSUME NEW i \in Invoice
      PROVE  Times("completed", None, i) = IF status[i] = "completed" THEN 1 ELSE 0
  <2> DEFINE due == status[i] = "completed"
  <2>1. Told(log, due, <<"completed", None, i>>) BY DEF LogInv, CompletionsTold
  <2>2. due \in BOOLEAN OBVIOUS
  <2> HIDE DEF due
  <2>3. Times("completed", None, i) = IF due THEN 1 ELSE 0
    BY <1>0, <2>1, <2>2, TimesTold
  <2> QED BY <2>3 DEF due
<1>4. EventsMatchRows BY <1>1, <1>2, <1>3 DEF EventsMatchRows
<1>5. EventAmountsAddUp
  BY Zenon DEF LogInv, AddsUp, CarriesSum, EventAmountsAddUp, Confirmed,
               ConfirmedUpTo, Confirms
<1> QED BY <1>4, <1>5

-------------------------------------------------------------------------------
(* Theorems                                                                *)

(* The inductive invariant holds in every reachable state.                 *)
THEOREM InvariantHolds == Spec => []IInv
<1>1. IInv /\ [Next]_vars => IInv'
  BY StepTypes, StepKeepsBooks, StepKeepsHandled, StepKeepsBudget DEF IInv
<1> QED BY <1>1, InitialInvariant, PTL DEF Spec

(* Type correctness of the invoices, the deposits, the events and what the *)
(* processes remember.                                                     *)
THEOREM TypesHold == Spec => []TypeOK
<1>1. IInv => TypeOK BY DEF IInv
<1> QED BY <1>1, InvariantHolds, PTL

(* However often and in whatever order blocks are delivered, an invoice    *)
(* holds the sum of its payments, and it is completed exactly when that    *)
(* sum satisfies its policy before it is canceled or expires.              *)
THEOREM AmountsHold == Spec => [](AmountIsSumOfPayments /\ CompletedWhenPaid)
<1>1. IInv => AmountIsSumOfPayments /\ CompletedWhenPaid BY DEF IInv
<1> QED BY <1>1, InvariantHolds, PTL

(* A process forgets no block that is not stored, and the deposits of an   *)
(* account stay within the budget.                                         *)
THEOREM NothingIsDropped == Spec => [](ProcessedIsStored /\ BudgetKept)
<1>1. IInv => ProcessedIsStored /\ BudgetKept BY DEF IInv
<1> QED BY <1>1, InvariantHolds, PTL

(* An invoice that ended keeps its status and its amount, whatever is      *)
(* delivered, canceled or expires afterwards.                              *)
THEOREM EndsAreFinal == Spec => TerminalIsFinal
<1> DEFINE Final == \A i \in Invoice : Terminal(i) =>
                        status'[i] = status[i] /\ received'[i] = received[i]
<1>1. ASSUME IInv, [Next]_vars PROVE Final
  <2>1. ASSUME NEW p \in Process, NEW b \in Block, NEW r \in BOOLEAN,
               Ingest(p, b, r)
        PROVE  Final
    <3>1. CASE Replayed(b) BY <3>1 DEF Replayed
    <3>2. ASSUME NEW j \in Invoice \cup {None}, NEW d \in Disposition,
                 Recorded(b, j, d)
          PROVE  Final
      BY <3>2 DEF Recorded
    <3>3. ASSUME NEW j \in Invoice \cup {None}, NEW d \in Disposition,
                 Credited(b, j, d)
          PROVE  Final
      BY <1>1, <3>3 DEF Credited, Terminal, IInv, TypeOK
    <3> QED BY <1>1, <2>1, <3>1, <3>2, <3>3, Delivery
  <2>2. CASE UNCHANGED Books BY <2>2 DEF Books
  <2>3. ASSUME NEW j \in Invoice, Created(j) \/ Ended(j) PROVE Final
    BY <1>1, <2>3 DEF Created, Ended, Terminal, IInv, TypeOK
  <2> QED BY <1>1, <2>1, <2>2, <2>3, StepOfTheBooks
<1>2. IInv /\ [Next]_vars => [Final]_vars BY <1>1
<1> QED BY <1>2, InvariantHolds, PTL DEF Spec, TerminalIsFinal

(* What a block was recorded as, and for which invoice, never changes.     *)
THEOREM EvidenceIsKept == Spec => EvidenceIsPermanent
<1> DEFINE Kept == \A b \in Block : Stored(b) =>
                      /\ disposition'[b] = disposition[b]
                      /\ matched'[b] = matched[b]
                      /\ payment'[b] = payment[b]
<1>1. ASSUME IInv, [Next]_vars PROVE Kept
  <2>1. ASSUME NEW p \in Process, NEW b \in Block, NEW r \in BOOLEAN,
               Ingest(p, b, r)
        PROVE  Kept
    <3>1. CASE Replayed(b) BY <3>1 DEF Replayed
    <3>2. ASSUME ~ Stored(b), NEW j \in Invoice \cup {None}, NEW d \in Disposition,
                 Recorded(b, j, d) \/ Credited(b, j, d)
          PROVE  Kept
      BY <1>1, <3>2 DEF Recorded, Credited, IInv, TypeOK
    <3> QED BY <1>1, <2>1, <3>1, <3>2, Delivery
  <2>2. CASE UNCHANGED <<disposition, matched, payment>> BY <2>2
  <2> QED BY <1>1, <2>1, <2>2, StepOfTheBooks DEF Created, Ended, Books
<1>2. IInv /\ [Next]_vars => [Kept]_vars BY <1>1
<1> QED BY <1>2, InvariantHolds, PTL DEF Spec, EvidenceIsPermanent

(* The events and the rows tell the same story: however often a block is   *)
(* delivered, by whichever process, its deposit, its payment and the       *)
(* completion of its invoice have one event each, and the amounts that the *)
(* events carry add up.                                                    *)
THEOREM EventsAreTrue == Spec => []EventsTellTheRows
<1>1. Init => IInv /\ LogInv BY InitialInvariant, InitialLog
<1>2. (IInv /\ LogInv) /\ [Next]_vars => (IInv /\ LogInv)'
  BY StepTypes, StepKeepsBooks, StepKeepsHandled, StepKeepsBudget, StepKeepsLog
  DEF IInv
<1>3. IInv /\ LogInv => EventsTellTheRows BY LogTellsTheRows DEF IInv
<1> QED BY <1>1, <1>2, <1>3, PTL DEF Spec

-------------------------------------------------------------------------------
(* The creation of the invoices                                            *)

(* What a call has and has not done at its step.                           *)
StepsFit ==
    /\ \A c \in Call : pc[c] # "idle" => c \in setup.calls
    /\ \A c \in Call : pc[c] \in {"idle", "ref", "replay", "allocate"} =>
            /\ index[c] = None /\ c \notin Invoices
            /\ \A i \in Index : owner[i] # c
    /\ \A c \in Call : pc[c] = "insert" => c \notin Invoices
    /\ \A c \in Call : pc[c] \in {"insert", "plain", "scoped", "emit", "watch"} =>
            index[c] \in Index
    /\ \A c \in Call : pc[c] \in {"replay", "plain", "scoped"} => Keyed(c)
    /\ Invoices \subseteq setup.calls

(* The index of a call is its own or one of its invoiceKey; an invoice     *)
(* keeps the index that its call was given.                                *)
IndexFits ==
    \A c \in Call : index[c] # None =>
        /\ owner[index[c]] # None
        /\ \/ owner[index[c]] = c
           \/ Ref[c] # None /\ Ref[owner[index[c]]] = Ref[c]

PaidAtIndex == \A i \in Invoices : payAt[i] = index[i] /\ index[i] # None

(* An index has one owner, and an invoiceKey has one index.                *)
OwnersDiffer ==
    \A i, j \in Used : i # j =>
        /\ owner[i] # owner[j]
        /\ ~ (Ref[owner[i]] # None /\ Ref[owner[i]] = Ref[owner[j]])

(* The indices are given out one after the other.                          *)
Contiguous == \E n \in Nat : First <= n /\ Used = First..(n - 1)

(* An invoice that a call with the key k may be answered with.             *)
OfKey(k, i) ==
    \/ CallKey[i] = k
    \/ \E d \in setup.calls : CallKey[d] = k /\ Ref[d] # None /\ Ref[i] = Ref[d]

UniqueKeys == \A i,
    j \in Invoices : CallKey[i] # None /\ CallKey[i] = CallKey[j] => i = j

KeysFit ==
    \A k \in Keys :
        /\ plain[k] # None => plain[k] \in Invoices /\ CallKey[plain[k]] = k
        /\ scoped[k] # None => scoped[k] \in Invoices /\ OfKey(k, scoped[k])

MineFits ==
    \A c \in Call :
        /\ pc[c] \in {"replay", "plain", "scoped", "emit", "watch"} =>
              /\ mine[c] \in Invoices
              /\ Keyed(c) => OfKey(CallKey[c], mine[c])
        /\ pc[c] = "plain" => CallKey[mine[c]] = CallKey[c]

RepliesFit ==
    \A c \in Call : reply[c] \in Call =>
        /\ reply[c] \in Invoices
        /\ Keyed(c) => OfKey(CallKey[c], reply[c])

Addresses == IndexFits /\ PaidAtIndex /\ OwnersDiffer /\ Contiguous
CreationIInv ==
    /\ CreationTypeOK /\ StepsFit /\ Addresses
    /\ UniqueKeys /\ KeysFit /\ MineFits /\ RepliesFit

-------------------------------------------------------------------------------
(* An address follows the invoiceKey, because its index does.              *)
LEMMA AddressesFollow ==
    ASSUME CreationIInv
    PROVE  AddressFollowsRef
<1> SUFFICES ASSUME NEW i \in Invoices, NEW j \in Invoices, i # j
             PROVE  payAt[i] = payAt[j] <=> Ref[i] # None /\ Ref[i] = Ref[j]
  BY DEF AddressFollowsRef
<1>1. i \in Call /\ j \in Call
  BY DEF CreationIInv, CreationTypeOK, Invoices, ToSet
<1>2. /\ payAt[i] = index[i] /\ payAt[j] = index[j]
      /\ index[i] # None /\ index[j] # None
  BY DEF CreationIInv, Addresses, PaidAtIndex
<1>3. index[i] \in Used /\ index[j] \in Used
  BY <1>1, <1>2 DEF CreationIInv, CreationTypeOK, Addresses, IndexFits, Used
<1> QED BY <1>1, <1>2, <1>3 DEF CreationIInv, Addresses, IndexFits, OwnersDiffer

(* Where no other key names an invoiceKey of the calls of this key, what   *)
(* they are answered with is the one invoice of the key.                   *)
LEMMA KeysAnswer ==
    ASSUME CreationIInv
    PROVE  KeyAnswersOneInvoice
<1> SUFFICES ASSUME NEW c \in setup.calls, NEW d \in SameKey(c),
                    \A x \in setup.calls \ SameKey(c), y \in SameKey(c) :
                        Ref[x] = None \/ Ref[x] # Ref[y],
                    reply[c] \in Call, reply[d] \in Call
             PROVE  reply[c] = reply[d]
  BY DEF KeyAnswersOneInvoice
<1>1. c \in Call /\ d \in Call /\ CallKey[c] # None /\ CallKey[d] = CallKey[c]
  BY InvoiceCreationAssumption DEF SameKey, CreationIInv, CreationTypeOK
<1>2. ASSUME NEW i \in Invoices, OfKey(CallKey[c], i)
      PROVE  CallKey[i] = CallKey[c]
  <2>1. i \in setup.calls BY DEF CreationIInv, StepsFit
  <2> QED BY <1>1, <1>2, <2>1 DEF OfKey, SameKey
<1>3. /\ reply[c] \in Invoices /\ OfKey(CallKey[c], reply[c])
      /\ reply[d] \in Invoices /\ OfKey(CallKey[c], reply[d])
  BY <1>1 DEF CreationIInv, RepliesFit, Keyed
<1> QED BY <1>1, <1>2, <1>3 DEF CreationIInv, UniqueKeys

-------------------------------------------------------------------------------
LEMMA Initially ==
    CreationInit => CreationIInv
<1> SUFFICES ASSUME CreationInit PROVE CreationIInv OBVIOUS
<1>1. Invoices = {} BY DEF CreationInit, Invoices, ToSet
<1>2. Used = {} BY DEF CreationInit, Used
<1>3. rows \in Seq(Call) /\ IsInjective(rows) BY DEF CreationInit, IsInjective
<1>4. CreationTypeOK
  <2>1. crashes \in 0..setup.crashes BY InvoiceCreationAssumption DEF CreationInit
  <2> QED BY <1>1, <1>3, <2>1 DEF CreationInit, CreationTypeOK, Step
<1>5. StepsFit
  BY InvoiceCreationAssumption, <1>1 DEF CreationInit, StepsFit
<1>6. Addresses
  <2>1. Used = First..(First - 1) BY InvoiceCreationAssumption, <1>2
  <2>2. Contiguous BY InvoiceCreationAssumption, <2>1 DEF Contiguous
  <2> QED BY <1>1, <1>2, <2>2
             DEF CreationInit, Addresses, IndexFits, PaidAtIndex, OwnersDiffer
<1>7. UniqueKeys /\ KeysFit /\ MineFits /\ RepliesFit
  BY InvoiceCreationAssumption, <1>1
     DEF CreationInit, UniqueKeys, KeysFit, MineFits,
         RepliesFit
<1> QED BY <1>4, <1>5, <1>6, <1>7 DEF CreationIInv

(* What a step that writes neither rows nor indices keeps.                 *)
LEMMA AddressesStand ==
    ASSUME Addresses, UNCHANGED <<rows, payAt, owner, index>>
    PROVE  Addresses' /\ Invoices' = Invoices /\ Used' = Used
<1>1. Invoices' = Invoices /\ Used' = Used
  BY DEF Invoices, Used
<1> QED BY <1>1 DEF Addresses, IndexFits, PaidAtIndex, OwnersDiffer, Contiguous

(* A step that writes no row and no key.                                   *)
LEMMA KeysStand ==
    ASSUME UniqueKeys, KeysFit, UNCHANGED <<rows, plain, scoped, setup>>
    PROVE  UniqueKeys' /\ KeysFit' /\ \A k, i : OfKey(k, i)' <=> OfKey(k, i)
<1>1. Invoices' = Invoices BY DEF Invoices
<1> QED BY <1>1 DEF UniqueKeys, KeysFit, OfKey

-------------------------------------------------------------------------------
LEMMA KeyOfCall ==
    \A c \in Call : Keyed(c) => CallKey[c] \in Keys
BY DEF Keyed, Keys

(* The types of the variables that every call changes.                     *)
LEMMA GoesType ==
    ASSUME CreationTypeOK, NEW c \in Call, NEW step \in Step, Goes(c, step)
    PROVE  /\ pc' \in [Call -> Step]
           /\ reply' \in [Call -> Call \cup Refusal \cup {None}]
           /\ unlucky' \subseteq Call
BY DEF Goes, CreationTypeOK

LEMMA EndsType ==
    ASSUME CreationTypeOK, NEW c \in Call, NEW answer \in Call \cup Refusal,
           Ends(c, answer)
    PROVE  /\ pc' \in [Call -> Step]
           /\ reply' \in [Call -> Call \cup Refusal \cup {None}]
           /\ unlucky' \subseteq Call
BY DEF Ends, CreationTypeOK, Step

LEMMA LookupKeyStep ==
    ASSUME CreationIInv, NEW c \in Call, LookupKey(c)
    PROVE  CreationIInv'
<1> USE DEF tables, At
<1>t. CreationTypeOK /\ UNCHANGED <<rows, payAt, owner, index, plain, scoped, setup>>
  BY DEF CreationIInv, LookupKey
<1>a. Addresses' /\ Invoices' = Invoices
  BY <1>t, AddressesStand DEF CreationIInv
<1>k. UniqueKeys' /\ KeysFit' /\ \A k, i : OfKey(k, i)' <=> OfKey(k, i)
  BY <1>t, KeysStand DEF CreationIInv
<1>1. CASE Keyed(c) /\ scoped[CallKey[c]] # None
  <2>1. /\ CallKey[c] \in Keys /\ scoped[CallKey[c]] \in Invoices
        /\ OfKey(CallKey[c], scoped[CallKey[c]]) /\ scoped[CallKey[c]] \in Call
    BY <1>1, KeyOfCall DEF CreationIInv, KeysFit, CreationTypeOK, Invoices, ToSet
  <2>2. Ends(c, scoped[CallKey[c]]) BY <1>1 DEF LookupKey
  <2>3. CreationTypeOK' BY <1>t, <1>a, <2>1, <2>2, EndsType DEF LookupKey, CreationTypeOK
  <2>4. StepsFit'
    BY <1>t, <1>a, <2>2
       DEF LookupKey, Ends, CreationIInv, StepsFit, CreationTypeOK
  <2>5. MineFits' /\ RepliesFit'
    BY <1>t, <1>a, <1>k, <2>1, <2>2
       DEF LookupKey, Ends, CreationIInv, MineFits, RepliesFit, CreationTypeOK
  <2> QED BY <1>a, <1>k, <2>3, <2>4, <2>5 DEF CreationIInv
<1>2. CASE ~ (Keyed(c) /\ scoped[CallKey[c]] # None)
  <2>2. Goes(c, "ref") BY <1>2 DEF LookupKey
  <2>3. CreationTypeOK'
    BY <1>t, <1>a, <2>2, GoesType DEF LookupKey, CreationTypeOK, Step
  <2>4. StepsFit'
    BY <1>t, <1>a, <2>2
       DEF LookupKey, Goes, CreationIInv, StepsFit, CreationTypeOK
  <2>5. MineFits' /\ RepliesFit'
    BY <1>t, <1>a, <1>k, <2>2
       DEF LookupKey, Goes, CreationIInv, MineFits, RepliesFit, CreationTypeOK
  <2> QED BY <1>a, <1>k, <2>3, <2>4, <2>5 DEF CreationIInv
<1> QED BY <1>1, <1>2

LEMMA LookupRefStep ==
    ASSUME CreationIInv, NEW c \in Call, LookupRef(c)
    PROVE  CreationIInv'
<1> USE DEF tables, At
<1>t. CreationTypeOK /\ UNCHANGED <<rows, payAt, owner, index, plain, scoped, setup>>
  BY DEF CreationIInv, LookupRef
<1>a. Addresses' /\ Invoices' = Invoices
  BY <1>t, AddressesStand DEF CreationIInv
<1>k. UniqueKeys' /\ KeysFit' /\ \A k, i : OfKey(k, i)' <=> OfKey(k, i)
  BY <1>t, KeysStand DEF CreationIInv
<1>1. CASE Named(c) = {} /\ Goes(c, "allocate") /\ UNCHANGED mine
  <2>3. CreationTypeOK'
    BY <1>t, <1>a, <1>1, GoesType DEF LookupRef, CreationTypeOK, Step
  <2>4. StepsFit'
    BY <1>t, <1>a, <1>1
       DEF LookupRef, Goes, CreationIInv, StepsFit, CreationTypeOK
  <2>5. MineFits' /\ RepliesFit'
    BY <1>t, <1>a, <1>k, <1>1
       DEF LookupRef, Goes, CreationIInv, MineFits, RepliesFit, CreationTypeOK
  <2> QED BY <1>a, <1>k, <2>3, <2>4, <2>5 DEF CreationIInv
<1>2. ASSUME NEW existing \in Existing(c),
             IF CallAmount[existing] # CallAmount[c]
               THEN Ends(c, "conflict") /\ UNCHANGED mine
               ELSE /\ mine' = [mine EXCEPT ![c] = existing]
                    /\ IF Keyed(c) THEN Goes(c, "replay") ELSE Ends(c, existing)
      PROVE  CreationIInv'
  <2>1. /\ existing \in Invoices /\ existing \in Call
        /\ Ref[c] # None /\ Ref[existing] = Ref[c]
    BY <1>t DEF Existing, Named, CreationTypeOK, Invoices, ToSet
  <2>2. c \in setup.calls BY DEF LookupRef
  <2>3. Keyed(c) => OfKey(CallKey[c], existing) BY <2>1, <2>2 DEF OfKey
  <2>4. CASE CallAmount[existing] # CallAmount[c]
    <3>1. Ends(c, "conflict") /\ UNCHANGED mine BY <1>2, <2>4
    <3>2. "conflict" \notin Call /\ "conflict" \in Refusal
      BY InvoiceCreationAssumption DEF Refusal
    <3>3. CreationTypeOK'
      BY <1>t, <1>a, <3>1, <3>2, EndsType DEF LookupRef, CreationTypeOK
    <3>4. StepsFit'
      BY <1>t, <1>a, <3>1
         DEF LookupRef, Ends, CreationIInv, StepsFit, CreationTypeOK
    <3>5. MineFits' /\ RepliesFit'
      BY <1>t, <1>a, <1>k, <3>1, <3>2
         DEF LookupRef, Ends, CreationIInv, MineFits, RepliesFit, CreationTypeOK
    <3> QED BY <1>a, <1>k, <3>3, <3>4, <3>5 DEF CreationIInv
  <2>5. CASE CallAmount[existing] = CallAmount[c] /\ Keyed(c)
    <3>1. Goes(c, "replay") /\ mine' = [mine EXCEPT ![c] = existing] BY <1>2, <2>5
    <3>3. CreationTypeOK'
      BY <1>t, <1>a, <2>1, <3>1, GoesType DEF LookupRef, CreationTypeOK, Step
    <3>4. StepsFit'
      BY <1>t, <1>a, <2>5, <3>1
         DEF LookupRef, Goes, CreationIInv, StepsFit, CreationTypeOK
    <3>5. MineFits' /\ RepliesFit'
      BY <1>t, <1>a, <1>k, <2>1, <2>3, <3>1
         DEF LookupRef, Goes, CreationIInv, MineFits, RepliesFit, CreationTypeOK
    <3> QED BY <1>a, <1>k, <3>3, <3>4, <3>5 DEF CreationIInv
  <2>6. CASE CallAmount[existing] = CallAmount[c] /\ ~ Keyed(c)
    <3>1. Ends(c, existing) /\ mine' = [mine EXCEPT ![c] = existing] BY <1>2, <2>6
    <3>3. CreationTypeOK'
      BY <1>t, <1>a, <2>1, <3>1, EndsType DEF LookupRef, CreationTypeOK
    <3>4. StepsFit'
      BY <1>t, <1>a, <3>1
         DEF LookupRef, Ends, CreationIInv, StepsFit, CreationTypeOK
    <3>5. MineFits' /\ RepliesFit'
      BY <1>t, <1>a, <1>k, <2>1, <2>6, <3>1
         DEF LookupRef, Ends, CreationIInv, MineFits, RepliesFit, CreationTypeOK
    <3> QED BY <1>a, <1>k, <3>3, <3>4, <3>5 DEF CreationIInv
  <2> QED BY <2>4, <2>5, <2>6
<1> QED BY <1>1, <1>2 DEF LookupRef

(* A put keeps the first invoice of a key.                                 *)
LEMMA PutKeeps ==
    ASSUME CreationTypeOK, NEW c \in Call, Keyed(c), mine[c] \in Invoices,
           NEW keys \in [Keys -> Invoices \cup {None}]
    PROVE  /\ Put(keys, c) \in [Keys -> Invoices \cup {None}]
           /\ \A k \in Keys : Put(keys, c)[k] =
                  IF k = CallKey[c] /\ keys[k] = None THEN mine[c] ELSE keys[k]
BY KeyOfCall DEF Put

LEMMA KeyTypes ==
    ASSUME CreationIInv
    PROVE  /\ plain \in [Keys -> Invoices \cup {None}]
           /\ scoped \in [Keys -> Invoices \cup {None}]
BY DEF CreationIInv, CreationTypeOK

LEMMA MineIsCall ==
    ASSUME CreationIInv, NEW c \in Call, mine[c] \in Invoices
    PROVE  mine[c] \in Call
BY DEF CreationIInv, CreationTypeOK, Invoices, ToSet

LEMMA PutReplayStep ==
    ASSUME CreationIInv, NEW c \in Call, PutReplay(c)
    PROVE  CreationIInv'
<1> USE DEF tables, At
<1>t. CreationTypeOK /\ UNCHANGED <<rows, payAt, owner, index, plain, setup, mine>>
  BY DEF CreationIInv, PutReplay
<1>a. Addresses' /\ Invoices' = Invoices
  BY <1>t, AddressesStand DEF CreationIInv
<1>o. \A k, i : OfKey(k, i)' <=> OfKey(k, i) BY <1>t DEF OfKey
<1>1. /\ Keyed(c) /\ mine[c] \in Invoices
      /\ OfKey(CallKey[c], mine[c]) /\ mine[c] \in Call
      /\ Ends(c, mine[c]) /\ pc[c] = "replay"
  BY MineIsCall DEF CreationIInv, StepsFit, MineFits, PutReplay
<1>2. /\ scoped' \in [Keys -> Invoices \cup {None}]
      /\ \A k \in Keys : scoped'[k] =
            IF k = CallKey[c] /\ scoped[k] = None THEN mine[c] ELSE scoped[k]
  BY <1>t, <1>1, KeyTypes, PutKeeps DEF PutReplay
<1>3. CreationTypeOK' BY <1>t, <1>a, <1>1, <1>2, EndsType DEF PutReplay, CreationTypeOK
<1>4. StepsFit'
  BY <1>t, <1>a, <1>1 DEF PutReplay, Ends, CreationIInv, StepsFit, CreationTypeOK
<1>5. UniqueKeys' /\ KeysFit'
  BY <1>t, <1>a, <1>o, <1>1, <1>2 DEF CreationIInv, UniqueKeys, KeysFit
<1>6. MineFits' /\ RepliesFit'
  BY <1>t, <1>a, <1>o, <1>1
     DEF Ends, CreationIInv, MineFits, RepliesFit, CreationTypeOK
<1> QED BY <1>a, <1>3, <1>4, <1>5, <1>6 DEF CreationIInv

LEMMA PutPlainStep ==
    ASSUME CreationIInv, NEW c \in Call, PutPlain(c)
    PROVE  CreationIInv'
<1> USE DEF At
<1>t. CreationTypeOK /\ UNCHANGED <<rows, payAt, owner, index, scoped, setup, mine>>
  BY DEF CreationIInv, PutPlain
<1>a. Addresses' /\ Invoices' = Invoices
  BY <1>t, AddressesStand DEF CreationIInv
<1>o. \A k, i : OfKey(k, i)' <=> OfKey(k, i) BY <1>t DEF OfKey
<1>1. /\ Keyed(c) /\ mine[c] \in Invoices /\ CallKey[mine[c]] = CallKey[c]
      /\ Goes(c, "scoped") /\ pc[c] = "plain"
  BY DEF CreationIInv, StepsFit, MineFits, PutPlain
<1>2. /\ plain' \in [Keys -> Invoices \cup {None}]
      /\ \A k \in Keys : plain'[k] =
            IF k = CallKey[c] /\ plain[k] = None THEN mine[c] ELSE plain[k]
  BY <1>t, <1>1, KeyTypes, PutKeeps DEF PutPlain
<1>3. CreationTypeOK'
  BY <1>t, <1>a, <1>1, <1>2, GoesType DEF PutPlain, CreationTypeOK, Step
<1>4. StepsFit'
  BY <1>t, <1>a, <1>1 DEF PutPlain, Goes, CreationIInv, StepsFit, CreationTypeOK
<1>5. UniqueKeys' /\ KeysFit'
  BY <1>t, <1>a, <1>o, <1>1, <1>2 DEF CreationIInv, UniqueKeys, KeysFit
<1>6. MineFits' /\ RepliesFit'
  BY <1>t, <1>a, <1>o, <1>1
     DEF Goes, CreationIInv, MineFits, RepliesFit, CreationTypeOK
<1> QED BY <1>a, <1>3, <1>4, <1>5, <1>6 DEF CreationIInv

LEMMA PutScopedStep ==
    ASSUME CreationIInv, NEW c \in Call, PutScoped(c)
    PROVE  CreationIInv'
<1> USE DEF At
<1>t. CreationTypeOK /\ UNCHANGED <<rows, payAt, owner, index, plain, setup, mine>>
  BY DEF CreationIInv, PutScoped
<1>a. Addresses' /\ Invoices' = Invoices
  BY <1>t, AddressesStand DEF CreationIInv
<1>o. \A k, i : OfKey(k, i)' <=> OfKey(k, i) BY <1>t DEF OfKey
<1>1. /\ Keyed(c) /\ mine[c] \in Invoices
      /\ OfKey(CallKey[c], mine[c]) /\ mine[c] \in Call
      /\ pc[c] = "scoped" /\ CallKey[c] \in Keys
  BY MineIsCall, KeyOfCall DEF CreationIInv, StepsFit, MineFits, PutScoped
<1>2. /\ scoped' \in [Keys -> Invoices \cup {None}]
      /\ \A k \in Keys : scoped'[k] =
            IF k = CallKey[c] /\ scoped[k] = None THEN mine[c] ELSE scoped[k]
  BY <1>t, <1>1, KeyTypes, PutKeeps DEF PutScoped
<1>5. UniqueKeys' /\ KeysFit'
  BY <1>t, <1>a, <1>o, <1>1, <1>2 DEF CreationIInv, UniqueKeys, KeysFit
<1>7. /\ Persisted(c) \in Invoices /\ Persisted(c) \in Call
      /\ OfKey(CallKey[c], Persisted(c))
  <2>1. Persisted(c) \in Invoices /\ OfKey(CallKey[c], Persisted(c))
    BY <1>1, <1>2 DEF Persisted, CreationIInv, KeysFit
  <2> QED BY <2>1, <1>t DEF CreationTypeOK, Invoices, ToSet
<1>8. CASE Persisted(c) # mine[c]
  <2>1. Ends(c, Persisted(c)) BY <1>8 DEF PutScoped
  <2>3. CreationTypeOK'
    BY <1>t, <1>a, <1>2, <1>7, <2>1, EndsType DEF PutScoped, CreationTypeOK
  <2>4. StepsFit'
    BY <1>t, <1>a, <1>1, <2>1
       DEF PutScoped, Ends, CreationIInv, StepsFit, CreationTypeOK
  <2>6. MineFits' /\ RepliesFit'
    BY <1>t, <1>a, <1>o, <1>7, <2>1
       DEF Ends, CreationIInv, MineFits, RepliesFit, CreationTypeOK
  <2> QED BY <1>a, <1>5, <2>3, <2>4, <2>6 DEF CreationIInv
<1>9. CASE Persisted(c) = mine[c]
  <2>1. Goes(c, "emit") BY <1>9 DEF PutScoped
  <2>2. index[c] \in Index
    BY <1>1 DEF CreationIInv, StepsFit
  <2>3. CreationTypeOK'
    BY <1>t, <1>a, <1>2, <2>1, GoesType DEF PutScoped, CreationTypeOK, Step
  <2>4. StepsFit'
    BY <1>t, <1>a, <1>1, <2>1, <2>2
       DEF PutScoped, Goes, CreationIInv, StepsFit, CreationTypeOK
  <2>6. MineFits' /\ RepliesFit'
    BY <1>t, <1>a, <1>o, <1>1, <2>1
       DEF Goes, CreationIInv, MineFits, RepliesFit, CreationTypeOK
  <2> QED BY <1>a, <1>5, <2>3, <2>4, <2>6 DEF CreationIInv
<1> QED BY <1>8, <1>9

LEMMA AnnounceStep ==
    ASSUME CreationIInv, NEW c \in Call, Emit(c) \/ Watch(c)
    PROVE  CreationIInv'
<1> USE DEF At, tables
<1>t. CreationTypeOK /\ UNCHANGED <<rows, payAt, owner, index, plain, scoped, setup, mine>>
  BY DEF CreationIInv, Emit, Watch
<1>a. Addresses' /\ Invoices' = Invoices
  BY <1>t, AddressesStand DEF CreationIInv
<1>k. UniqueKeys' /\ KeysFit' /\ \A k, i : OfKey(k, i)' <=> OfKey(k, i)
  BY <1>t, KeysStand DEF CreationIInv
<1>1. /\ mine[c] \in Invoices /\ mine[c] \in Call
      /\ Keyed(c) => OfKey(CallKey[c], mine[c])
      /\ index[c] \in Index /\ pc[c] \in {"emit", "watch"}
  BY MineIsCall DEF CreationIInv, StepsFit, MineFits, Emit, Watch
<1>2. CASE Emit(c)
  <2>1. /\ Goes(c, "watch") /\ UNCHANGED watched
        /\ announced' = announced \cup {mine[c]}
    BY <1>2 DEF Emit, ToAnnounce
  <2>3. CreationTypeOK'
    BY <1>t, <1>a, <1>1, <1>2, <2>1, GoesType DEF Emit, CreationTypeOK, Step
  <2>4. StepsFit'
    BY <1>t, <1>a, <1>1, <2>1 DEF Goes, CreationIInv, StepsFit, CreationTypeOK
  <2>6. MineFits' /\ RepliesFit'
    BY <1>t, <1>a, <1>k, <1>1, <2>1
       DEF Goes, CreationIInv, MineFits, RepliesFit, CreationTypeOK
  <2> QED BY <1>a, <1>k, <2>3, <2>4, <2>6 DEF CreationIInv
<1>3. CASE Watch(c)
  <2>1. Ends(c, mine[c]) /\ watched' = watched \cup {index[c]} /\ UNCHANGED announced
    BY <1>3 DEF Watch, NewAddress
  <2>3. CreationTypeOK'
    BY <1>t, <1>a, <1>1, <1>3, <2>1, EndsType DEF Watch, CreationTypeOK
  <2>4. StepsFit'
    BY <1>t, <1>a, <1>1, <2>1 DEF Ends, CreationIInv, StepsFit, CreationTypeOK
  <2>6. MineFits' /\ RepliesFit'
    BY <1>t, <1>a, <1>k, <1>1, <2>1
       DEF Ends, CreationIInv, MineFits, RepliesFit, CreationTypeOK
  <2> QED BY <1>a, <1>k, <2>3, <2>4, <2>6 DEF CreationIInv
<1> QED BY <1>2, <1>3

-------------------------------------------------------------------------------
(* The next index is one that nobody has.                                  *)
LEMMA NextIndex ==
    ASSUME Contiguous, InRange(FreeIndex)
    PROVE  /\ FreeIndex \in Index \ Used
           /\ \E n \in Nat : First <= n /\ Used \cup {FreeIndex} = First..(n - 1)
<1>1. PICK n \in Nat : First <= n /\ Used = First..(n - 1) BY DEF Contiguous
<1>2. FreeIndex = n
  <2>1. CASE Used = {}
    <3>1. n = First
      <4>1. ~ (First <= n - 1) BY InvoiceCreationAssumption, <1>1, <2>1
      <4> QED BY InvoiceCreationAssumption, <1>1, <4>1
    <3> QED BY <2>1, <3>1 DEF FreeIndex
  <2>2. CASE Used # {}
    <3>1. n - 1 \in Used BY InvoiceCreationAssumption, <1>1, <2>2
    <3>2. \A x \in Used : (\A y \in Used : x >= y) <=> x = n - 1
      BY InvoiceCreationAssumption, <1>1, <3>1
    <3>3. Max(Used) = n - 1 BY <3>1, <3>2 DEF Max
    <3> QED BY <2>2, <3>3, <1>1 DEF FreeIndex
  <2> QED BY <2>1, <2>2
<1>3. n \notin Used BY InvoiceCreationAssumption, <1>1
<1>4. /\ n + 1 \in Nat /\ First <= n + 1
      /\ Used \cup {n} = First..((n + 1) - 1)
  BY InvoiceCreationAssumption, <1>1
<1> QED BY <1>2, <1>3, <1>4 DEF InRange

LEMMA AllocateStep ==
    ASSUME CreationIInv, NEW c \in Call, Allocate(c)
    PROVE  CreationIInv'
<1> USE DEF At
<1>t. CreationTypeOK /\ UNCHANGED <<rows, payAt, plain, scoped, announced, mine,
    watched, setup, crashes>>
  BY DEF CreationIInv, Allocate
<1>k. UniqueKeys' /\ KeysFit' /\ \A k, i : OfKey(k, i)' <=> OfKey(k, i)
  BY <1>t, KeysStand DEF CreationIInv
<1>i. Invoices' = Invoices BY <1>t DEF Invoices
<1>p. /\ pc[c] = "allocate" /\ index[c] = None /\ c \notin Invoices
      /\ \A i \in Index : owner[i] # c
      /\ None \notin Index /\ c # None
  BY InvoiceCreationAssumption DEF CreationIInv, StepsFit, Allocate,
         Index
<1>1. ASSUME NEW i \in Shared(c), index' = [index EXCEPT ![c] = i],
             Goes(c, "insert"), UNCHANGED owner
      PROVE  CreationIInv'
  <2>1. i \in Index /\ owner[i] # None /\ Ref[c] # None /\ Ref[owner[i]] = Ref[c]
    BY <1>1 DEF Shared, Used
  <2>2. Used' = Used BY <1>1 DEF Used
  <2>3. CreationTypeOK' BY <1>t, <1>i, <1>1, <2>1, GoesType DEF CreationTypeOK, Step
  <2>4. StepsFit'
    BY <1>t, <1>i, <1>p, <1>1, <2>1 DEF Goes, CreationIInv, StepsFit, CreationTypeOK
  <2>5. IndexFits'
    BY <1>t, <1>1, <2>1 DEF CreationIInv, Addresses, IndexFits, CreationTypeOK
  <2>6. PaidAtIndex'
    BY <1>t, <1>i, <1>p, <1>1 DEF CreationIInv, Addresses, PaidAtIndex, CreationTypeOK
  <2>7. OwnersDiffer' /\ Contiguous'
    BY <1>1, <2>2 DEF CreationIInv, Addresses, OwnersDiffer, Contiguous
  <2>8. MineFits' /\ RepliesFit'
    BY <1>t, <1>i, <1>k, <1>1
       DEF Goes, CreationIInv, MineFits, RepliesFit, CreationTypeOK
  <2> QED BY <1>k, <2>3, <2>4, <2>5, <2>6, <2>7, <2>8 DEF CreationIInv, Addresses
<1>2. CASE /\ Shared(c) = {} /\ InRange(FreeIndex)
           /\ owner' = [owner EXCEPT ![FreeIndex] = c]
           /\ index' = [index EXCEPT ![c] = FreeIndex]
           /\ Goes(c, "insert")
  <2> DEFINE f == FreeIndex
  <2>1. /\ f \in Index /\ f \notin Used
        /\ \E n \in Nat : First <= n /\ Used \cup {f} = First..(n - 1)
    BY <1>2, NextIndex DEF CreationIInv, Addresses
  <2>2. owner[f] = None BY <2>1 DEF Used
  <2> HIDE DEF f
  <2>e. /\ owner' = [owner EXCEPT ![f] = c] /\ index' = [index EXCEPT ![c] = f]
    BY <1>2 DEF f
  <2>3. Used' = Used \cup {f}
    BY <1>t, <1>p, <2>e, <2>1 DEF Used, CreationTypeOK
  <2>4. CreationTypeOK'
    BY <1>t, <1>i, <1>2, <2>e, <2>1, GoesType DEF CreationTypeOK, Step
  <2>5. StepsFit'
    BY <1>t, <1>i, <1>p, <1>2, <2>e, <2>1
       DEF Goes, CreationIInv, StepsFit, CreationTypeOK
  <2>6. IndexFits'
    <3> SUFFICES ASSUME NEW d \in Call, index'[d] # None
                 PROVE  /\ owner'[index'[d]] # None
                        /\ \/ owner'[index'[d]] = d
                           \/ Ref[d] # None /\ Ref[owner'[index'[d]]] = Ref[d]
      BY DEF IndexFits
    <3>1. CASE d = c BY <3>1, <1>t, <1>p, <2>e, <2>1 DEF CreationTypeOK
    <3>2. CASE d # c
      <4>1. index'[d] = index[d] /\ index[d] \in Index
        BY <3>2, <1>t, <2>e DEF CreationTypeOK
      <4>2. index[d] # f BY <4>1, <2>2 DEF CreationIInv, Addresses, IndexFits
      <4> QED
        BY <4>1, <4>2, <1>t, <2>e DEF CreationIInv, Addresses, IndexFits, CreationTypeOK
    <3> QED BY <3>1, <3>2
  <2>7. PaidAtIndex'
    BY <1>t, <1>i, <1>p, <2>e DEF CreationIInv, Addresses, PaidAtIndex, CreationTypeOK
  <2>8. OwnersDiffer'
    <3>1. \A i \in Used : /\ i # f /\ i \in Index
                               /\ owner'[i] = owner[i] /\ owner[i] # c
                               /\ ~ (Ref[c] # None /\ Ref[owner[i]] = Ref[c])
      BY <1>t, <1>p, <1>2, <2>e, <2>1 DEF Used, Shared, CreationTypeOK
    <3>2. owner'[f] = c BY <1>t, <2>e, <2>1 DEF CreationTypeOK
    <3> QED BY <2>3, <3>1, <3>2 DEF CreationIInv, Addresses, OwnersDiffer
  <2>9. Contiguous' BY <2>1, <2>3 DEF Contiguous
  <2>10. MineFits' /\ RepliesFit'
    BY <1>t, <1>i, <1>k, <1>2
       DEF Goes, CreationIInv, MineFits, RepliesFit, CreationTypeOK
  <2> QED BY <1>k, <2>4, <2>5, <2>6, <2>7, <2>8, <2>9, <2>10 DEF CreationIInv, Addresses
<1>3. CASE Ends(c, "exhausted") /\ UNCHANGED <<owner, index>>
  <2>1. "exhausted" \notin Call /\ "exhausted" \in Refusal
    BY InvoiceCreationAssumption DEF Refusal
  <2>2. Addresses' BY <1>t, <1>3, AddressesStand DEF CreationIInv
  <2>3. CreationTypeOK' BY <1>t, <1>i, <1>3, <2>1, EndsType DEF CreationTypeOK
  <2>4. StepsFit'
    BY <1>t, <1>i, <1>p, <1>3
       DEF Allocate, Ends, CreationIInv, StepsFit, CreationTypeOK
  <2>5. MineFits' /\ RepliesFit'
    BY <1>t, <1>i, <1>k, <1>3, <2>1
       DEF Ends, CreationIInv, MineFits, RepliesFit, CreationTypeOK
  <2> QED BY <1>k, <2>2, <2>3, <2>4, <2>5 DEF CreationIInv
<1> QED BY <1>1, <1>2, <1>3 DEF Allocate

LEMMA InsertStep ==
    ASSUME CreationIInv, NEW c \in Call, Insert(c)
    PROVE  CreationIInv'
<1> USE DEF At
<1>t. CreationTypeOK /\ UNCHANGED <<plain, scoped, owner, announced, index, watched,
    setup, crashes>>
  BY DEF CreationIInv, Insert
<1>p. /\ pc[c] = "insert" /\ index[c] \in Index /\ c \notin Invoices
      /\ c \in setup.calls /\ index[c] # None /\ c # None
  BY InvoiceCreationAssumption DEF CreationIInv, StepsFit, Insert, Index
<1>o. \A k, i : OfKey(k, i)' <=> OfKey(k, i) BY <1>t DEF OfKey
<1>1. CASE InvoiceOfKey(c) # None
  <2>1. /\ UNCHANGED <<rows, payAt>> /\ Goes(c, "scoped")
        /\ mine' = [mine EXCEPT ![c] = InvoiceOfKey(c)]
    BY <1>1 DEF Insert
  <2>2. Keyed(c) /\ InvoiceOfKey(c) = plain[CallKey[c]] /\ CallKey[c] \in Keys
    BY <1>1, KeyOfCall DEF InvoiceOfKey
  <2>3. InvoiceOfKey(c) \in Invoices /\ CallKey[InvoiceOfKey(c)] = CallKey[c]
    BY <1>1, <2>2 DEF CreationIInv, KeysFit
  <2>4. InvoiceOfKey(c) \in Call
    BY <1>t, <2>3 DEF CreationTypeOK, Invoices, ToSet
  <2>5. Addresses' /\ Invoices' = Invoices
    BY <1>t, <2>1, AddressesStand DEF CreationIInv
  <2>6. UniqueKeys' /\ KeysFit' BY <1>t, <2>1, KeysStand DEF CreationIInv
  <2>7. CreationTypeOK' BY <1>t, <2>1, <2>4, <2>5, GoesType DEF CreationTypeOK, Step
  <2>8. StepsFit'
    BY <1>t, <1>p, <2>1, <2>2, <2>5 DEF Goes, CreationIInv, StepsFit, CreationTypeOK
  <2>9. MineFits' /\ RepliesFit'
    BY <1>t, <1>o, <2>1, <2>2, <2>3, <2>5
       DEF Goes, CreationIInv, MineFits, RepliesFit, CreationTypeOK, OfKey
  <2> QED BY <2>5, <2>6, <2>7, <2>8, <2>9 DEF CreationIInv
<1>2. CASE Ends(c, "taken") /\ UNCHANGED <<mine, rows, payAt>>
  <2>1. "taken" \notin Call /\ "taken" \in Refusal
    BY InvoiceCreationAssumption DEF Refusal
  <2>2. Addresses' /\ Invoices' = Invoices
    BY <1>t, <1>2, AddressesStand DEF CreationIInv
  <2>3. UniqueKeys' /\ KeysFit' BY <1>t, <1>2, KeysStand DEF CreationIInv
  <2>4. CreationTypeOK' BY <1>t, <1>2, <2>1, <2>2, EndsType DEF CreationTypeOK
  <2>5. StepsFit'
    BY <1>t, <1>p, <1>2, <2>2 DEF Ends, CreationIInv, StepsFit, CreationTypeOK
  <2>6. MineFits' /\ RepliesFit'
    BY <1>t, <1>o, <1>2, <2>1, <2>2
       DEF Ends, CreationIInv, MineFits, RepliesFit, CreationTypeOK
  <2> QED BY <2>2, <2>3, <2>4, <2>5, <2>6 DEF CreationIInv
<1>3. CASE /\ ~ KeyTaken(c)
           /\ rows' = Append(rows, c)
           /\ payAt' = [payAt EXCEPT ![c] = index[c]]
           /\ mine' = [mine EXCEPT ![c] = c]
           /\ Goes(c, IF Keyed(c) THEN "plain" ELSE "emit")
  <2>1. /\ rows' \in Seq(Call) /\ Len(rows') = Len(rows) + 1
        /\ \A n \in 1..Len(rows) : rows'[n] = rows[n]
        /\ rows'[Len(rows) + 1] = c
    BY <1>t, <1>3, AppendProperties DEF CreationTypeOK
  <2>2. Len(rows) \in Nat /\ DOMAIN rows = 1..Len(rows)
        /\ DOMAIN rows' = 1..(Len(rows) + 1)
    BY <1>t, <2>1, LenProperties DEF CreationTypeOK
  <2>3. Invoices' = Invoices \cup {c} BY <2>1, <2>2 DEF Invoices, ToSet
  <2>4. \A n \in DOMAIN rows : rows[n] # c BY <1>p DEF Invoices, ToSet
  <2>5. IsInjective(rows')
    BY <1>t, <2>1, <2>2, <2>4 DEF CreationTypeOK, IsInjective
  <2>6. pc' \in [Call -> Step] /\ UNCHANGED <<reply, unlucky>>
    BY <1>t, <1>3 DEF Goes, CreationTypeOK, Step
  <2>7. CreationTypeOK'
    <3>1. payAt' \in [Call -> Index \cup {None}] /\ mine' \in [Call -> Call \cup {None}]
      BY <1>t, <1>3 DEF CreationTypeOK
    <3>2. {plain, scoped} \subseteq [Keys -> Invoices' \cup {None}]
      BY <1>t, <2>3 DEF CreationTypeOK
    <3>3. announced \subseteq Invoices' BY <1>t, <2>3 DEF CreationTypeOK
    <3> QED BY <1>t, <1>p, <1>3, <2>1, <2>5, <2>6, <3>1, <3>2, <3>3 DEF CreationTypeOK
  <2>8. StepsFit'
    BY <1>t, <1>p, <1>3, <2>3 DEF Goes, CreationIInv, StepsFit, CreationTypeOK
  <2>9. Addresses'
    <3>1. Used' = Used BY <1>t DEF Used
    <3>2. IndexFits' /\ OwnersDiffer' /\ Contiguous'
      BY <1>t, <3>1 DEF CreationIInv, Addresses, IndexFits, OwnersDiffer, Contiguous
    <3>3. PaidAtIndex'
      BY <1>t, <1>p, <1>3, <2>3 DEF CreationIInv, Addresses, PaidAtIndex, CreationTypeOK
    <3> QED BY <3>2, <3>3 DEF Addresses
  <2>10. UniqueKeys'
    BY <1>3, <2>3 DEF CreationIInv, UniqueKeys, KeyTaken, Keyed
  <2>11. KeysFit' BY <1>t, <1>o, <2>3 DEF CreationIInv, KeysFit
  <2>12. MineFits' /\ RepliesFit'
    BY <1>t, <1>o, <1>3, <2>3, <2>6
       DEF Goes, CreationIInv, MineFits, RepliesFit, CreationTypeOK, OfKey
  <2> QED BY <2>7, <2>8, <2>9, <2>10, <2>11, <2>12 DEF CreationIInv
<1> QED BY <1>1, <1>2, <1>3 DEF Insert

LEMMA FailureStep ==
    ASSUME CreationIInv, (\E c \in Call : StatementFails(c)) \/ CreationCrash
    PROVE  CreationIInv'
<1> USE DEF tables
<1>t. CreationTypeOK /\ UNCHANGED <<rows, payAt, owner, index, plain, scoped, setup, mine,
    announced>>
  BY DEF CreationIInv, StatementFails, CreationCrash
<1>a. Addresses' /\ Invoices' = Invoices
  BY <1>t, AddressesStand DEF CreationIInv
<1>k. UniqueKeys' /\ KeysFit' /\ \A k, i : OfKey(k, i)' <=> OfKey(k, i)
  BY <1>t, KeysStand DEF CreationIInv
<1>r. /\ {"failed", "lost"} \subseteq Refusal
      /\ "failed" \notin Call /\ "lost" \notin Call
  BY InvoiceCreationAssumption DEF Refusal
<1>1. ASSUME NEW c \in Call, StatementFails(c)
      PROVE  CreationIInv'
  <2>1. CreationTypeOK'
    BY <1>t, <1>a, <1>r, <1>1 DEF StatementFails, CreationTypeOK, Step
  <2>2. StepsFit'
    BY <1>t, <1>a, <1>1
       DEF StatementFails, Running, CreationIInv, StepsFit, CreationTypeOK
  <2>3. MineFits' /\ RepliesFit'
    BY <1>t, <1>a, <1>k, <1>r, <1>1
       DEF StatementFails, CreationIInv, MineFits, RepliesFit, CreationTypeOK
  <2> QED BY <1>a, <1>k, <2>1, <2>2, <2>3 DEF CreationIInv
<1>2. CASE CreationCrash
  <2>1. RestoredAddresses \subseteq Index
    <3>1. \A i \in Invoices : i \in Call /\ payAt[i] # None
      BY <1>t
         DEF CreationTypeOK, Invoices, ToSet, CreationIInv, Addresses, PaidAtIndex
    <3> QED BY <1>t, <3>1 DEF RestoredAddresses, CreationTypeOK
  <2>2. crashes' \in 0..setup'.crashes
    BY InvoiceCreationAssumption, <1>t, <1>2 DEF CreationCrash, CreationTypeOK
  <2>3. CreationTypeOK'
    BY <1>t, <1>a, <1>r, <1>2, <2>1, <2>2 DEF CreationCrash, CreationTypeOK, Step
  <2>4. StepsFit'
    BY <1>t, <1>a, <1>2 DEF CreationCrash, CreationIInv, StepsFit, CreationTypeOK
  <2>5. MineFits' /\ RepliesFit'
    BY <1>t, <1>a, <1>k, <1>r, <1>2
       DEF CreationCrash, CreationIInv, MineFits, RepliesFit, CreationTypeOK
  <2> QED BY <1>a, <1>k, <2>3, <2>4, <2>5 DEF CreationIInv
<1> QED BY <1>1, <1>2

-------------------------------------------------------------------------------
LEMMA Preserved ==
    CreationIInv /\ [CreationNext]_creationvars => CreationIInv'
<1> SUFFICES ASSUME CreationIInv, [CreationNext]_creationvars PROVE CreationIInv' OBVIOUS
<1>1. CASE UNCHANGED creationvars
  <2> USE <1>1 DEF creationvars, tables, calls
  <2>1. Addresses' /\ Invoices' = Invoices BY AddressesStand DEF CreationIInv
  <2>2. UniqueKeys' /\ KeysFit' /\ \A k, i : OfKey(k, i)' <=> OfKey(k, i)
    BY KeysStand DEF CreationIInv
  <2>3. CreationTypeOK' /\ StepsFit' BY <2>1 DEF CreationIInv, CreationTypeOK, StepsFit
  <2>4. MineFits' /\ RepliesFit' BY <2>1, <2>2 DEF CreationIInv, MineFits, RepliesFit
  <2> QED BY <2>1, <2>2, <2>3, <2>4 DEF CreationIInv
<1> QED
  BY <1>1, LookupKeyStep, LookupRefStep, PutReplayStep, AllocateStep, InsertStep,
     PutPlainStep, PutScopedStep, AnnounceStep, FailureStep
     DEF CreationNext, Advance

(* What a call of createInvoice has done, holds and knows at each of its   *)
(* steps stays true, whatever other calls and processes do.                *)
THEOREM CreationHolds == CreationSpec => []CreationIInv
BY Initially, Preserved, PTL DEF CreationSpec

(* Type correctness for any calls, keys, failures and crashes.             *)
THEOREM CreationTypesHold == CreationSpec => []CreationTypeOK
BY CreationHolds, PTL DEF CreationIInv

(* However calls overlap, fail and crash, two invoices share an address    *)
(* exactly when they have the same invoiceKey.                             *)
THEOREM AddressesFollowRefs == CreationSpec => []AddressFollowsRef
BY CreationHolds, AddressesFollow, PTL

(* However often and by however many processes a key is repeated, and      *)
(* whatever fails between, it is answered with one invoice.                *)
THEOREM KeysAnswerOneInvoice == CreationSpec => []KeyAnswersOneInvoice
BY CreationHolds, KeysAnswer, PTL
===============================================================================
