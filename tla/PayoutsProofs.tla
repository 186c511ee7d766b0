----------------------------- MODULE PayoutsProofs -----------------------------
(***************************************************************************)
(* Proofs about the money that leaves an account and the account's row,    *)
(* for every value of the constants: Payouts, and AccountRows.             *)
(***************************************************************************)
EXTENDS Payouts, AccountRows, FiniteSetTheorems, WellFoundedInduction, TLAPS

-------------------------------------------------------------------------------
(* Sums over finite sets                                                   *)

(* What MapThenSumSet computes: the sums of the subsets of S, each made of *)
(* an element that CHOOSE picks and of the sum of the others.              *)
Pick(s) == CHOOSE x \in s : TRUE

Rest(s) == s \ {Pick(s)}

SumsOf(f, S, g) ==
    g = [s \in SUBSET S |-> IF s = {} THEN 0 ELSE f[Pick(s)] + g[Rest(s)]]

Sum(f, S) == (CHOOSE g : SumsOf(f, S, g))[S]

LEMMA Least ==
    ASSUME NEW T \in SUBSET Nat, T # {}
    PROVE  \E n \in T : \A m \in T : n <= m
<1>1. PICK n \in T : \A m \in T : <<m, n>> \notin OpToRel(<, Nat)
  BY NatLessThanWellFounded, WFMin, Zenon
<1>2. ASSUME NEW m \in T PROVE n <= m
  <2>1. ~ (m < n) BY <1>1 DEF OpToRel
  <2> QED BY <2>1
<1> QED BY <1>2

LEMMA PickOne ==
    ASSUME NEW s, s # {}, IsFiniteSet(s)
    PROVE  /\ Pick(s) \in s /\ IsFiniteSet(Rest(s))
           /\ Cardinality(s) \in Nat /\ Cardinality(Rest(s)) = Cardinality(s) - 1
           /\ Cardinality(Rest(s)) \in Nat
<1>1. Pick(s) \in s BY DEF Pick
<1> QED BY <1>1, FS_RemoveElement, FS_CardinalityType DEF Rest

(* A set of sets of which one is left out has a smallest one left out.     *)
LEMMA SmallestSubset ==
    ASSUME NEW S, IsFiniteSet(S), NEW B \in SUBSET SUBSET S, B # {}
    PROVE  \E T \in B : \A U \in B : Cardinality(T) <= Cardinality(U)
<1> DEFINE N == {Cardinality(T) : T \in B}
<1>1. \A T \in B : Cardinality(T) \in Nat BY FS_Subset, FS_CardinalityType
<1>2. N \subseteq Nat /\ N # {} BY <1>1
<1>3. PICK n \in N : \A m \in N : n <= m BY <1>2, Least
<1> QED BY <1>3

(* The sums of all subsets exist, level by level.                          *)
LEMMA SumsExist ==
    ASSUME NEW S, IsFiniteSet(S), NEW f, \A x \in S : f[x] \in Nat
    PROVE  \E g \in [SUBSET S -> Nat] : SumsOf(f, S, g)
<1> DEFINE
      Next1(g) == [s \in SUBSET S |-> IF s = {} THEN 0 ELSE f[Pick(s)] + g[Rest(s)]]
      UpTo(g, n) == \A s \in SUBSET S : Cardinality(s) <= n => g[s] = Next1(g)[s]
      T == {n \in Nat : ~ \E g \in [SUBSET S -> Nat] : UpTo(g, n)}
<1>f. \A s \in SUBSET S : IsFiniteSet(s) /\ Cardinality(s) \in Nat
  BY FS_Subset, FS_CardinalityType
<1>p. \A s \in SUBSET S : s # {} =>
          /\ f[Pick(s)] \in Nat /\ Rest(s) \in SUBSET S
          /\ Cardinality(Rest(s)) = Cardinality(s) - 1
  BY <1>f, PickOne DEF Rest
<1>1. ASSUME NEW g \in [SUBSET S -> Nat]
      PROVE  Next1(g) \in [SUBSET S -> Nat]
  BY <1>p
<1>2. T = {}
  <2> SUFFICES ASSUME T # {} PROVE FALSE OBVIOUS
  <2>1. PICK n \in T : \A m \in T : n <= m
    <3> HIDE DEF T
    <3>1. T \subseteq Nat BY DEF T
    <3> QED BY <3>1, Least
  <2>2. CASE n = 0
    <3> DEFINE g == [s \in SUBSET S |-> 0]
    <3>1. g \in [SUBSET S -> Nat] OBVIOUS
    <3>2. ASSUME NEW s \in SUBSET S, Cardinality(s) <= 0 PROVE s = {}
      BY <1>f, <3>2, FS_EmptySet
    <3>3. UpTo(g, 0) BY <3>2
    <3> QED BY <2>1, <2>2, <3>1, <3>3
  <2>3. CASE n # 0
    <3>1. n \in Nat /\ n - 1 \in Nat /\ ~ (n <= n - 1) BY <2>3
    <3>2. n - 1 \notin T BY <2>1, <3>1
    <3>3. PICK g \in [SUBSET S -> Nat] : UpTo(g, n - 1) BY <3>1, <3>2
    <3> DEFINE h == Next1(g)
    <3>4. h \in [SUBSET S -> Nat] BY <1>1
    <3>5. ASSUME NEW s \in SUBSET S, Cardinality(s) <= n
          PROVE  h[s] = Next1(h)[s]
      <4>1. CASE s = {} BY <4>1
      <4>2. CASE s # {}
        <5>1. Rest(s) \in SUBSET S /\ Cardinality(Rest(s)) <= n - 1
          BY <1>f, <1>p, <3>1, <3>5, <4>2
        <5>2. g[Rest(s)] = h[Rest(s)] BY <3>3, <5>1
        <5> QED BY <4>2, <5>2
      <4> QED BY <4>1, <4>2
    <3>6. UpTo(h, n) BY <3>5
    <3> HIDE DEF h, UpTo
    <3> QED BY <2>1, <3>4, <3>6
  <2> QED BY <2>2, <2>3
<1>3. PICK g \in [SUBSET S -> Nat] : UpTo(g, Cardinality(S))
  BY <1>2, FS_CardinalityType
<1>4. \A s \in SUBSET S : Cardinality(s) <= Cardinality(S) BY FS_Subset
<1>5. \A s \in SUBSET S : g[s] = Next1(g)[s] BY <1>3, <1>4
<1>6. g = Next1(g) BY <1>5
<1> QED BY <1>6 DEF SumsOf

(* The sum of a set does not depend on the sets around it, nor on what is  *)
(* added outside of it.                                                    *)
LEMMA SumsAgree ==
    ASSUME NEW S, IsFiniteSet(S), NEW R, S \subseteq R,
           NEW f, NEW h, \A x \in S : f[x] = h[x],
           NEW g1, SumsOf(f, S, g1), NEW g2, SumsOf(h, R, g2)
    PROVE  \A s \in SUBSET S : g1[s] = g2[s]
<1> DEFINE B == {s \in SUBSET S : g1[s] # g2[s]}
<1> SUFFICES ASSUME B # {} PROVE FALSE OBVIOUS
<1>1. PICK s \in B : \A u \in B : Cardinality(s) <= Cardinality(u)
  <2> HIDE DEF B
  <2>1. B \in SUBSET SUBSET S BY DEF B
  <2> QED BY <2>1, SmallestSubset
<1>2. g1[s] = IF s = {} THEN 0 ELSE f[Pick(s)] + g1[Rest(s)] BY DEF SumsOf
<1>3. g2[s] = IF s = {} THEN 0 ELSE h[Pick(s)] + g2[Rest(s)] BY DEF SumsOf
<1>4. s # {} BY <1>2, <1>3
<1>5. /\ Pick(s) \in s /\ Cardinality(s) \in Nat
      /\ Cardinality(Rest(s)) = Cardinality(s) - 1
  BY <1>4, PickOne, FS_Subset
<1>6. Rest(s) \in SUBSET S /\ Rest(s) \notin B
  BY <1>1, <1>5 DEF Rest
<1> QED BY <1>2, <1>3, <1>5, <1>6

(* Any element may be taken out first.                                     *)
LEMMA SumsTake ==
    ASSUME NEW S, IsFiniteSet(S), NEW f, \A x \in S : f[x] \in Nat,
           NEW g \in [SUBSET S -> Nat], SumsOf(f, S, g),
           NEW t \in SUBSET S, NEW y \in t
    PROVE  g[t] = f[y] + g[t \ {y}]
<1> DEFINE B == {s \in SUBSET S : \E x \in s : g[s] # f[x] + g[s \ {x}]}
<1> SUFFICES ASSUME B # {} PROVE FALSE OBVIOUS
<1>1. PICK s \in B : \A u \in B : Cardinality(s) <= Cardinality(u)
  <2> HIDE DEF B
  <2>1. B \in SUBSET SUBSET S BY DEF B
  <2> QED BY <2>1, SmallestSubset
<1>2. PICK x \in s : g[s] # f[x] + g[s \ {x}] BY <1>1
<1>3. g[s] = f[Pick(s)] + g[Rest(s)] BY <1>2 DEF SumsOf
<1>4. x # Pick(s) BY <1>2, <1>3 DEF Rest
<1>5. IsFiniteSet(s) /\ Cardinality(s) \in Nat BY FS_Subset, FS_CardinalityType
<1>6. ASSUME NEW z \in s
      PROVE  /\ s \ {z} \in SUBSET S /\ s \ {z} \notin B
  <2>1. Cardinality(s \ {z}) = Cardinality(s) - 1 BY <1>5, FS_RemoveElement
  <2> QED BY <1>1, <1>5, <2>1
<1>7. Pick(s) \in s BY <1>2 DEF Pick
<1>8. g[Rest(s)] = f[x] + g[Rest(s) \ {x}] BY <1>2, <1>4, <1>6, <1>7 DEF Rest
<1>9. g[s \ {x}] = f[Pick(s)] + g[(s \ {x}) \ {Pick(s)}] BY <1>4, <1>6, <1>7
<1>10. (s \ {x}) \ {Pick(s)} = Rest(s) \ {x} BY DEF Rest
<1>11. /\ f[x] \in Nat /\ f[Pick(s)] \in Nat /\ g[Rest(s) \ {x}] \in Nat
  BY <1>2, <1>7 DEF Rest
<1>12. PICK a \in Nat, b \in Nat, z \in Nat :
          a = f[x] /\ b = f[Pick(s)] /\ z = g[Rest(s) \ {x}]
  BY <1>11
<1>13. g[s] = b + (a + z) BY <1>3, <1>8, <1>12
<1>14. g[s \ {x}] = b + z BY <1>9, <1>10, <1>12
<1> QED BY <1>2, <1>12, <1>13, <1>14

LEMMA SumIsOne ==
    ASSUME NEW S, IsFiniteSet(S), NEW f, \A x \in S : f[x] \in Nat
    PROVE  \E g \in [SUBSET S -> Nat] : SumsOf(f, S, g) /\ Sum(f, S) = g[S]
<1>1. PICK g \in [SUBSET S -> Nat] : SumsOf(f, S, g) BY SumsExist
<1> DEFINE h == CHOOSE k : SumsOf(f, S, k)
<1>2. SumsOf(f, S, h) BY <1>1
<1>3. Sum(f, S) = h[S] BY DEF Sum
<1> HIDE DEF h
<1>4. \A s \in SUBSET S : g[s] = h[s] BY <1>1, <1>2, SumsAgree
<1> QED BY <1>1, <1>3, <1>4

(* What the proofs use of sums.                                            *)
LEMMA SumFacts ==
    ASSUME NEW S, IsFiniteSet(S), NEW f, \A x \in S : f[x] \in Nat
    PROVE  /\ Sum(f, S) \in Nat
           /\ \A y \in S : Sum(f, S) = f[y] + Sum(f, S \ {y})
<1>1. PICK g \in [SUBSET S -> Nat] : SumsOf(f, S, g) /\ Sum(f, S) = g[S]
  BY SumIsOne
<1>2. ASSUME NEW y \in S PROVE Sum(f, S) = f[y] + Sum(f, S \ {y})
  <2>1. PICK T : T = S \ {y} OBVIOUS
  <2>2. IsFiniteSet(T) /\ T \subseteq S BY <2>1, FS_RemoveElement
  <2>3. PICK k \in [SUBSET T -> Nat] : SumsOf(f, T, k) /\ Sum(f, T) = k[T]
    BY <2>2, SumIsOne
  <2>4. k[T] = g[T] BY <1>1, <2>2, <2>3, SumsAgree
  <2>5. g[S] = f[y] + g[T] BY <1>1, <2>1, SumsTake
  <2> QED BY <1>1, <2>1, <2>3, <2>4, <2>5
<1> QED BY <1>1, <1>2

LEMMA EmptySum == ASSUME NEW f PROVE Sum(f, {}) = 0
<1>1. PICK g \in [SUBSET {} -> Nat] : SumsOf(f, {}, g) /\ Sum(f, {}) = g[{}]
  BY SumIsOne, FS_EmptySet
<1> QED BY <1>1 DEF SumsOf

LEMMA SameSum ==
    ASSUME NEW S, IsFiniteSet(S), NEW f, NEW h,
           \A x \in S : f[x] \in Nat /\ h[x] = f[x]
    PROVE  Sum(f, S) = Sum(h, S)
<1>1. PICK g \in [SUBSET S -> Nat] : SumsOf(f, S, g) /\ Sum(f, S) = g[S]
  BY SumIsOne
<1>2. PICK k \in [SUBSET S -> Nat] : SumsOf(h, S, k) /\ Sum(h, S) = k[S]
  BY SumIsOne
<1> QED BY <1>1, <1>2, SumsAgree

LEMMA SumWith ==
    ASSUME NEW S, IsFiniteSet(S), NEW f, NEW y, y \notin S,
           \A x \in S \cup {y} : f[x] \in Nat
    PROVE  Sum(f, S \cup {y}) = f[y] + Sum(f, S)
<1>1. PICK T : T = S \cup {y} OBVIOUS
<1>2. IsFiniteSet(T) /\ T \ {y} = S BY <1>1, FS_AddElement
<1>3. Sum(f, T) = f[y] + Sum(f, T \ {y}) BY <1>1, <1>2, SumFacts
<1> QED BY <1>1, <1>2, <1>3

(* The sums of the model are such sums.                                    *)
LEMMA AmountSum ==
    ASSUME NEW S
    PROVE  Total(S) = Sum(Amount, S)
BY DEF Total, MapThenSumSet, MapThenFoldSet, Sum, SumsOf, Pick, Rest

(* What the sends of a set take, when sweeps take tk.                      *)
WorthOf(tk, s) == IF s \in Call THEN Asked[s] ELSE tk[s]

Spending(tk, S) == MapThenSumSet(LAMBDA s : WorthOf(tk, s), S)

LEMMA SpendingSum ==
    ASSUME NEW S, IsFiniteSet(S), NEW tk,
           NEW f, \A x \in S : f[x] \in Nat /\ f[x] = WorthOf(tk, x)
    PROVE  Spending(tk, S) = Sum(f, S)
<1> DEFINE W(g) == g = [s \in SUBSET S |->
                          IF s = {} THEN 0 ELSE WorthOf(tk, Pick(s)) + g[Rest(s)]]
<1>1. ASSUME NEW g PROVE SumsOf(f, S, g) <=> W(g)
  <2>1. ASSUME NEW s \in SUBSET S, s # {} PROVE f[Pick(s)] = WorthOf(tk, Pick(s))
    BY <2>1 DEF Pick
  <2>2. [s \in SUBSET S |-> IF s = {} THEN 0 ELSE f[Pick(s)] + g[Rest(s)]]
          = [s \in SUBSET S |->
                IF s = {} THEN 0 ELSE WorthOf(tk, Pick(s)) + g[Rest(s)]]
    BY <2>1
  <2> QED BY <2>2 DEF SumsOf
<1>2. Spending(tk, S) = (CHOOSE g : W(g))[S]
  BY DEF Spending, MapThenSumSet, MapThenFoldSet, Pick, Rest
<1>3. PICK g \in [SUBSET S -> Nat] : SumsOf(f, S, g) /\ Sum(f, S) = g[S]
  BY SumIsOne
<1>4. PICK h : h = (CHOOSE k : W(k)) OBVIOUS
<1>5. W(h) BY <1>1, <1>3, <1>4
<1> HIDE DEF W
<1>6. SumsOf(f, S, h) BY <1>1, <1>5
<1>7. h[S] = g[S] BY <1>3, <1>6, SumsAgree
<1> QED BY <1>2, <1>3, <1>4, <1>7

LEMMA SpendingFacts ==
    ASSUME NEW S, IsFiniteSet(S), NEW tk, \A x \in S : WorthOf(tk, x) \in Nat
    PROVE  /\ Spending(tk, S) \in Nat
           /\ \A y : y \notin S /\ WorthOf(tk, y) \in Nat =>
                 Spending(tk, S \cup {y}) = WorthOf(tk, y) + Spending(tk, S)
           /\ \A other : (\A x \in S : WorthOf(other, x) = WorthOf(tk, x)) =>
                 Spending(other, S) = Spending(tk, S)
<1> DEFINE f == [x \in S |-> WorthOf(tk, x)]
<1>1. \A x \in S : f[x] \in Nat /\ f[x] = WorthOf(tk, x) OBVIOUS
<1> HIDE DEF f
<1>2. Spending(tk, S) = Sum(f, S) BY <1>1, SpendingSum
<1>3. Spending(tk, S) \in Nat BY <1>1, <1>2, SumFacts
<1>4. ASSUME NEW y, y \notin S, WorthOf(tk, y) \in Nat
      PROVE  Spending(tk, S \cup {y}) = WorthOf(tk, y) + Spending(tk, S)
  <2>1. PICK T : T = S \cup {y} OBVIOUS
  <2> DEFINE h == [x \in T |-> WorthOf(tk, x)]
  <2>2. \A x \in T : h[x] \in Nat /\ h[x] = WorthOf(tk, x) BY <1>4, <2>1
  <2> HIDE DEF h
  <2>3. IsFiniteSet(T) BY <2>1, FS_AddElement
  <2>4. Spending(tk, T) = Sum(h, T) BY <2>2, <2>3, SpendingSum
  <2>5. Sum(h, T) = h[y] + Sum(h, S) BY <1>4, <2>1, <2>2, SumWith
  <2>6. Sum(f, S) = Sum(h, S) BY <1>1, <2>1, <2>2, SameSum
  <2> QED BY <1>2, <2>1, <2>2, <2>4, <2>5, <2>6
<1>5. ASSUME NEW other, \A x \in S : WorthOf(other, x) = WorthOf(tk, x)
      PROVE  Spending(other, S) = Spending(tk, S)
  <2>1. \A x \in S : f[x] \in Nat /\ f[x] = WorthOf(other, x) BY <1>1, <1>5
  <2> QED BY <1>2, <2>1, SpendingSum
<1> QED BY <1>3, <1>4, <1>5

LEMMA BalanceNow == Balance = Sum(Amount, Pocketed) - Spending(taken, Moved)
BY DEF Balance, Total, Spending, Worth, WorthOf, MapThenSumSet, MapThenFoldSet, Sum,
       SumsOf, Pick, Rest

LEMMA BalanceAfter == Balance' = Sum(Amount, Pocketed') - Spending(taken', Moved')
BY DEF Balance, Total, Spending, Worth, WorthOf, MapThenSumSet, MapThenFoldSet, Sum,
       SumsOf, Pick, Rest

-------------------------------------------------------------------------------
(* The inductive invariant                                                 *)

(* Only the send of a row that has not failed has moved money.             *)
MovedAreRows ==
    /\ IsFiniteSet(Moved)
    /\ \A s \in Moved : outcome[s] \in {"queued", "published", "confirmed"}

(* The refunds that count against a deposit.                               *)
Owed(d) == {c \in Rows(Call) : RefundOf[c] = d /\ outcome[c] # "failed"}

WithinDeposit == \A d \in Deposit : Amount[d] >= Sum(Asked, Owed(d))

(* A reply names a row of the call's deposit and key, and they have one.   *)
SameRefund(c, x) == RefundOf[x] = RefundOf[c] /\ Key[x] = Key[c]

RepliesAreRows ==
    \A c \in Call : reply[c] \in Call =>
        /\ outcome[reply[c]] # "absent" /\ SameRefund(c, reply[c])
        /\ Asked[reply[c]] = Asked[c]

OneRowPerKey == \A c, x \in Rows(Call) : SameRefund(c, x) => x = c

(* What a pass knows of the deposits that were stored when it looked at    *)
(* the tasks.                                                              *)
StoredHasArrived == \A d \in Deposit : stored[d] => chain[d] # "absent"

PassesFit ==
    \A p \in Pass :
        /\ outcome[p] # "absent" => pc[p] = "idle" /\ known[p] \subseteq counted[p]
        /\ pc[p] = "clear" => \A d \in known[p] : chain[d] # "absent"
        /\ pc[p] = "empty" => known[p] \subseteq Pocketed
        /\ pc[p] = "counted" => known[p] \subseteq counted[p]

IInv ==
    /\ TypeOK /\ MovedAreRows /\ WithinDeposit
    /\ RepliesAreRows /\ OneRowPerKey /\ OneSweep
    /\ StoredHasArrived /\ PassesFit

-------------------------------------------------------------------------------
(* Types                                                                   *)

LEMMA InitialInvariant == Init => IInv
<1> SUFFICES ASSUME Init PROVE IInv OBVIOUS
<1> USE DEF Init, Contract!Init
<1>1. Pocketed = {} /\ Moved = {} BY DEF Pocketed, Moved
<1>2. IsFiniteSet({}) BY FS_EmptySet
<1>3. Balance \in Nat
  <2>1. Spending(taken, {}) = Sum(Asked, {}) BY <1>2, SpendingSum
  <2>2. Sum(Amount, {}) = 0 /\ Sum(Asked, {}) = 0 BY EmptySum
  <2> QED BY <1>1, <2>1, <2>2, BalanceNow
<1>4. TypeOK
  <2>1. faults \in 0..setup.maxFaults BY PayoutsAssumption
  <2> QED BY <1>3, <2>1 DEF TypeOK, ChainState, TaskState, Reply, Stage
<1>5. MovedAreRows BY <1>1, <1>2 DEF MovedAreRows
<1>6. \A ids \in SUBSET Send : Rows(ids) = {} BY DEF Rows
<1>7. Rows(Call) = {} /\ Rows(Pass) = {} BY <1>6 DEF Send
<1>8. WithinDeposit
  <2>1. \A d \in Deposit : Owed(d) = {} BY <1>7 DEF Owed
  <2>2. \A d \in Deposit : Amount[d] \in Nat BY PayoutsAssumption
  <2>3. Sum(Asked, {}) = 0 BY EmptySum
  <2> HIDE DEF Init
  <2> QED BY <2>1, <2>2, <2>3 DEF WithinDeposit
<1>9. RepliesAreRows BY PayoutsAssumption DEF RepliesAreRows
<1>10. OneRowPerKey /\ OneSweep BY <1>7 DEF OneRowPerKey, OneSweep
<1>11. StoredHasArrived BY DEF StoredHasArrived
<1>12. PassesFit BY DEF PassesFit, Send
<1> QED BY <1>4, <1>5, <1>8, <1>9, <1>10, <1>11, <1>12 DEF IInv

(* The steps of a deposit, of a refund call, of a send and of a pass.      *)
DepositStep(d) == Arrive(d) \/ Receiving(d) \/ FailReceive(d)
CallStep(c)    == QueueRefund(c) \/ ReplayRefund(c) \/ RefuseRefund(c)
SendStep(s)    == AnnounceQueued(s) \/ Sending(s) \/ PollAgain(s)
PassStep(p)    == Sweep(p) \/ PassFails(p)

LEMMA DepositTypes ==
    ASSUME TypeOK, NEW d \in Deposit, DepositStep(d), Balance' \in Nat
    PROVE  TypeOK'
<1> USE PayoutsAssumption DEF TypeOK, sends, passes, events, identity, Fault
<1>1. CASE Arrive(d) BY <1>1 DEF Arrive, ChainState
<1>2. CASE Ingest(d)
  <2>1. completed' \in BOOLEAN BY <1>2 DEF Ingest
  <2>2. stored' \in [Deposit -> BOOLEAN] BY <1>2 DEF Ingest
  <2> QED BY <1>2, <2>1, <2>2 DEF Ingest
<1>3. CASE Enqueue(d) BY <1>3 DEF Enqueue, Work, TaskState
<1>4. CASE PublishReceive(d)
  BY <1>4 DEF PublishReceive, Work, TaskState, ChainState
<1>5. CASE ConfirmReceive(d) BY <1>5 DEF ConfirmReceive, Work, TaskState
<1>6. CASE FailReceive(d) BY <1>6 DEF FailReceive, Work, TaskState
<1> QED BY <1>1, <1>2, <1>3, <1>4, <1>5, <1>6 DEF DepositStep, Receiving

LEMMA CallTypes ==
    ASSUME TypeOK, NEW c \in Call, CallStep(c), Balance' \in Nat
    PROVE  TypeOK'
<1> USE DEF TypeOK, deposits, passes, events, identity
<1>1. \A answer \in Reply : Answer(c, answer) => reply' \in [Call -> Reply]
  BY DEF Answer
<1>2. CASE QueueRefund(c)
  <2>1. reply' \in [Call -> Reply] BY <1>1, <1>2 DEF QueueRefund, Reply
  <2>2. outcome' \in
           [Send -> {"absent", "queued", "published", "confirmed", "failed"}]
    BY <1>2 DEF QueueRefund, Contract!Accept, Contract!Become
  <2>3. announcing' \subseteq Send BY <1>2 DEF QueueRefund, Send
  <2> QED BY <1>2, <2>1, <2>2, <2>3 DEF QueueRefund, Answer
<1>3. CASE ReplayRefund(c)
  <2>1. PICK x \in Earlier(c) :
            Answer(c, IF Asked[x] = Asked[c] THEN x ELSE "conflict")
    BY <1>3 DEF ReplayRefund
  <2>2. x \in Call BY DEF Earlier, Rows
  <2>3. reply' \in [Call -> Reply] BY <1>1, <2>1, <2>2 DEF Reply
  <2> QED BY <1>3, <2>1, <2>3 DEF ReplayRefund, Answer
<1>4. CASE RefuseRefund(c)
  <2>1. reply' \in [Call -> Reply] BY <1>1, <1>4 DEF RefuseRefund, Reply
  <2> QED BY <1>4, <2>1 DEF RefuseRefund, Answer
<1> QED BY <1>2, <1>3, <1>4 DEF CallStep

LEMMA SendTypes ==
    ASSUME TypeOK, NEW s \in Send, SendStep(s), Balance' \in Nat
    PROVE  TypeOK'
<1> USE DEF TypeOK, deposits, sends, passes, events, identity, Pipeline, Contract!Become
<1>1. CASE AnnounceQueued(s) BY <1>1 DEF AnnounceQueued
<1>2. CASE Transfer(s) BY <1>2 DEF Transfer, Contract!Transfer
<1>3. CASE Fail(s) BY <1>3 DEF Fail, Contract!ReportFailed
<1>4. CASE Publish(s) BY <1>4 DEF Publish, Contract!ReportPublished
<1>5. CASE Confirm(s) BY <1>5 DEF Confirm, Contract!ReportConfirmed
<1>6. CASE OnConfirmed(s) BY <1>6 DEF OnConfirmed, Swept
<1>7. CASE PollAgain(s) BY <1>7 DEF PollAgain
<1> QED BY <1>1, <1>2, <1>3, <1>4, <1>5, <1>6, <1>7 DEF SendStep, Sending

LEMMA PassTypes ==
    ASSUME TypeOK, NEW p \in Pass, PassStep(p), Balance' \in Nat
    PROVE  TypeOK'
<1> USE DEF TypeOK, deposits, identity
<1>e. Ends(p) => /\ pc' \in [Pass -> Stage] /\ read' \in [Pass -> Nat]
                 /\ known' \in [Pass -> SUBSET Deposit]
                 /\ counted' \in [Pass -> SUBSET Deposit]
  BY DEF Ends, Stage
<1>g. \A to \in Stage : Goes(p, to) => pc' \in [Pass -> Stage]
  BY DEF Goes
<1>1. CASE Look(p)
  <2>1. pc' \in [Pass -> Stage] BY <1>1, <1>g DEF Look, Stage
  <2>2. sweptBy' \in Send \cup {None}
    BY <1>1 DEF Look, Repair, Swept, Rows, Send
  <2> QED BY <1>1, <2>1, <2>2 DEF Look, Sweeping
<1>2. CASE CheckTasks(p)
  <2>1. /\ pc' \in [Pass -> Stage] /\ read' \in [Pass -> Nat]
        /\ known' \in [Pass -> SUBSET Deposit]
        /\ counted' \in [Pass -> SUBSET Deposit]
    BY <1>2, <1>e, <1>g DEF CheckTasks, Stage
  <2> QED BY <1>2, <2>1 DEF CheckTasks, Sweeping
<1>3. CASE CheckReceivables(p)
  <2>1. /\ pc' \in [Pass -> Stage] /\ read' \in [Pass -> Nat]
        /\ known' \in [Pass -> SUBSET Deposit]
        /\ counted' \in [Pass -> SUBSET Deposit]
    BY <1>3, <1>e, <1>g DEF CheckReceivables, Stage
  <2> QED BY <1>3, <2>1 DEF CheckReceivables, Sweeping
<1>4. CASE ReadBalance(p)
  <2>1. Pocketed \subseteq Deposit BY DEF Pocketed
  <2>2. /\ pc' \in [Pass -> Stage] /\ read' \in [Pass -> Nat]
        /\ known' \in [Pass -> SUBSET Deposit]
        /\ counted' \in [Pass -> SUBSET Deposit]
    BY <1>4, <1>e, <1>g, <2>1 DEF ReadBalance, Stage
  <2> QED BY <1>4, <2>2 DEF ReadBalance, Sweeping
<1>5. CASE CreateSweep(p)
  <2>1. /\ pc' \in [Pass -> Stage] /\ read' \in [Pass -> Nat]
        /\ known' \in [Pass -> SUBSET Deposit]
        /\ counted' \in [Pass -> SUBSET Deposit]
    BY <1>5, <1>e DEF CreateSweep
  <2>2. /\ outcome' \in
              [Send -> {"absent", "queued", "published", "confirmed", "failed"}]
        /\ taken' \in [Pass -> Nat] /\ announcing' \subseteq Send
    BY <1>5 DEF CreateSweep, Send
  <2> QED BY <1>5, <2>1, <2>2 DEF CreateSweep, Sweeping
<1>6. CASE PassFails(p)
  <2>1. /\ pc' \in [Pass -> Stage] /\ read' \in [Pass -> Nat]
        /\ known' \in [Pass -> SUBSET Deposit]
        /\ counted' \in [Pass -> SUBSET Deposit]
    BY <1>6, <1>e DEF PassFails
  <2>2. faults' \in 0..setup.maxFaults BY <1>6, PayoutsAssumption DEF PassFails, Fault
  <2> QED BY <1>6, <2>1, <2>2 DEF PassFails, Sweeping
<1> QED BY <1>1, <1>2, <1>3, <1>4, <1>5, <1>6 DEF PassStep, Sweep

LEMMA CrashTypes ==
    ASSUME TypeOK, Crash, Balance' \in Nat
    PROVE  TypeOK'
<1>1. faults' \in 0..setup.maxFaults BY PayoutsAssumption DEF TypeOK, Crash, Fault
<1>2. /\ known' \in [Pass -> SUBSET Deposit] /\ counted' \in [Pass -> SUBSET Deposit]
      /\ pc' \in [Pass -> Stage] /\ read' \in [Pass -> Nat]
  BY DEF TypeOK, Crash, Stage
<1> QED BY <1>1, <1>2 DEF TypeOK, Crash, Fault, deposits, sends, events, identity

LEMMA OtherTypes ==
    ASSUME TypeOK, AnotherInvoice, Balance' \in Nat
    PROVE  TypeOK'
BY DEF TypeOK, AnotherInvoice, deposits, sends, passes, events

LEMMA TypesStep ==
    ASSUME TypeOK, [Next]_vars, Balance' \in Nat
    PROVE  TypeOK'
<1>1. CASE UNCHANGED vars
  BY <1>1 DEF vars, deposits, sends, events, passes, identity, TypeOK
<1> QED BY <1>1, DepositTypes, CallTypes, SendTypes, PassTypes, OtherTypes,
         CrashTypes
        DEF Next, DepositStep, CallStep, SendStep, PassStep

-------------------------------------------------------------------------------
(* The balance                                                             *)

LEMMA Money ==
    ASSUME TypeOK, MovedAreRows
    PROVE  /\ \A s \in Send : WorthOf(taken, s) \in Nat
           /\ IsFiniteSet(Pocketed) /\ Pocketed \subseteq Deposit
           /\ \A d \in Deposit : Amount[d] \in Nat
           /\ Sum(Amount, Pocketed) \in Nat /\ Spending(taken, Moved) \in Nat
<1>1. \A s \in Send : WorthOf(taken, s) \in Nat
  BY PayoutsAssumption DEF TypeOK, WorthOf, Send
<1>2. IsFiniteSet(Pocketed) /\ Pocketed \subseteq Deposit
  BY PayoutsAssumption, FS_Subset DEF Pocketed
<1>3. \A d \in Deposit : Amount[d] \in Nat BY PayoutsAssumption
<1>4. Moved \subseteq Send BY DEF Moved
<1>5. Sum(Amount, Pocketed) \in Nat BY <1>2, <1>3, SumFacts
<1>6. Spending(taken, Moved) \in Nat
  BY <1>1, <1>4, SpendingFacts DEF MovedAreRows
<1> QED BY <1>1, <1>2, <1>3, <1>5, <1>6

(* A step that pockets nothing and moves nothing.                          *)
LEMMA MoneyStays ==
    ASSUME TypeOK, MovedAreRows, Pocketed' = Pocketed, Moved' = Moved,
           \A s \in Moved : WorthOf(taken', s) = WorthOf(taken, s)
    PROVE  Balance' = Balance /\ Balance' \in Nat
<1>1. Moved \subseteq Send BY DEF Moved
<1>2. Spending(taken', Moved) = Spending(taken, Moved)
  BY <1>1, Money, SpendingFacts DEF MovedAreRows
<1>3. Balance' = Balance BY <1>2, BalanceNow, BalanceAfter
<1> QED BY <1>3 DEF TypeOK

LEMMA PocketedMore ==
    ASSUME TypeOK, MovedAreRows, NEW d \in Deposit, d \notin Pocketed,
           Pocketed' = Pocketed \cup {d}, Moved' = Moved, taken' = taken
    PROVE  Balance' \in Nat
<1>1. Sum(Amount, Pocketed \cup {d}) = Amount[d] + Sum(Amount, Pocketed)
  BY Money, SumWith
<1>2. PICK a \in Nat, b \in Nat, z \in Nat :
          a = Amount[d] /\ b = Sum(Amount, Pocketed) /\ z = Spending(taken, Moved)
  BY Money
<1>3. Balance = b - z /\ Balance \in Nat BY <1>2, BalanceNow DEF TypeOK
<1>4. Balance' = (a + b) - z BY <1>1, <1>2, BalanceAfter
<1> QED BY <1>2, <1>3, <1>4

LEMMA MovedMore ==
    ASSUME TypeOK, MovedAreRows, NEW s \in Send, s \notin Moved, Affordable(s),
           Pocketed' = Pocketed, Moved' = Moved \cup {s}, taken' = taken
    PROVE  Balance' \in Nat
<1>1. Moved \subseteq Send BY DEF Moved
<1>2. Spending(taken, Moved \cup {s}) = WorthOf(taken, s) + Spending(taken, Moved)
  BY <1>1, Money, SpendingFacts DEF MovedAreRows
<1>3. PICK w \in Nat, b \in Nat, z \in Nat :
          /\ w = WorthOf(taken, s) /\ b = Sum(Amount, Pocketed)
          /\ z = Spending(taken, Moved)
  BY Money
<1>4. Balance = b - z /\ Balance >= w
  BY <1>3, BalanceNow DEF Affordable, Worth, WorthOf
<1>5. Balance' = b - (w + z) BY <1>2, <1>3, BalanceAfter
<1> QED BY <1>3, <1>4, <1>5

-------------------------------------------------------------------------------
(* What the steps leave alone                                              *)

(* A step that makes no row and answers no call.                           *)
LEMMA SameRows ==
    ASSUME RepliesAreRows, OneRowPerKey, OneSweep, reply' = reply,
           \A s \in Send : outcome'[s] = "absent" <=> outcome[s] = "absent"
    PROVE  RepliesAreRows' /\ OneRowPerKey' /\ OneSweep'
<1>1. Rows(Call)' = Rows(Call) /\ Rows(Pass)' = Rows(Pass) BY DEF Rows, Send
<1> QED BY <1>1 DEF RepliesAreRows, OneRowPerKey, OneSweep, SameRefund, Send

(* A step that fails at most one refund and queues none.                   *)
LEMMA OwedLess ==
    ASSUME WithinDeposit,
           \A d \in Deposit : \/ Owed(d)' = Owed(d)
                              \/ \E y \in Owed(d) : Owed(d)' = Owed(d) \ {y}
    PROVE  WithinDeposit'
<1> SUFFICES ASSUME NEW d \in Deposit PROVE Amount[d] >= Sum(Asked, Owed(d)')
  BY DEF WithinDeposit
<1>1. PICK S : S = Owed(d) OBVIOUS
<1>2. /\ IsFiniteSet(S) /\ \A c \in S : Asked[c] \in Nat
  BY <1>1, PayoutsAssumption, FS_Subset DEF Owed, Rows
<1>3. Amount[d] >= Sum(Asked, S) /\ Amount[d] \in Nat
  BY <1>1, PayoutsAssumption DEF WithinDeposit
<1>4. CASE Owed(d)' = S BY <1>3, <1>4
<1>5. CASE \E y \in S : Owed(d)' = S \ {y}
  <2>1. PICK y \in S : Owed(d)' = S \ {y} BY <1>5
  <2>2. Sum(Asked, S) = Asked[y] + Sum(Asked, S \ {y}) BY <1>2, SumFacts
  <2>3. IsFiniteSet(S \ {y}) BY <1>2, FS_RemoveElement
  <2>4. Sum(Asked, S \ {y}) \in Nat BY <1>2, <2>3, SumFacts
  <2>5. Asked[y] \in Nat BY <1>2
  <2> QED BY <1>3, <2>1, <2>2, <2>4, <2>5
<1> QED BY <1>1, <1>4, <1>5

LEMMA SamePasses ==
    ASSUME PassesFit, UNCHANGED <<pc, known, counted>>,
           \A p \in Pass : outcome'[p] = "absent" <=> outcome[p] = "absent",
           \A d \in Deposit : chain[d] # "absent" => chain'[d] # "absent",
           Pocketed \subseteq Pocketed',
           known \in [Pass -> SUBSET Deposit]
    PROVE  PassesFit'
BY DEF PassesFit

-------------------------------------------------------------------------------
(* Preservation                                                            *)

LEMMA DepositKeeps ==
    ASSUME IInv, NEW d \in Deposit, DepositStep(d)
    PROVE  IInv'
<1> USE DEF sends, passes, events
<1>0. TypeOK /\ MovedAreRows BY DEF IInv
<1>1. UNCHANGED <<outcome, moved, taken, reply, pc, known, counted>>
  BY DEF DepositStep, Receiving, Arrive, Ingest, Enqueue, PublishReceive,
         ConfirmReceive, FailReceive, Work
<1>2. /\ \A x \in Deposit : chain[x] # "absent" => chain'[x] # "absent"
      /\ \A x \in Deposit : stored'[x] => stored[x] \/ chain[x] # "absent"
      /\ \/ Pocketed' = Pocketed
         \/ d \notin Pocketed /\ Pocketed' = Pocketed \cup {d}
  <2>1. CASE Arrive(d) BY <1>0, <2>1 DEF Arrive, TypeOK, Pocketed
  <2>2. CASE Ingest(d) BY <1>0, <2>2 DEF Ingest, TypeOK, Pocketed
  <2>3. CASE Enqueue(d) \/ ConfirmReceive(d) \/ FailReceive(d)
    BY <2>3 DEF Enqueue, ConfirmReceive, FailReceive, Work, Pocketed
  <2>4. CASE PublishReceive(d)
    BY <1>0, <2>4 DEF PublishReceive, Work, TypeOK, Pocketed
  <2> QED BY <2>1, <2>2, <2>3, <2>4 DEF DepositStep, Receiving
<1>3. Moved' = Moved BY <1>1 DEF Moved
<1>4. Balance' \in Nat BY <1>0, <1>1, <1>2, <1>3, MoneyStays, PocketedMore
<1>5. TypeOK' BY <1>0, <1>4, DepositTypes
<1>6. MovedAreRows' BY <1>0, <1>1, <1>3 DEF MovedAreRows
<1>7. \A x \in Deposit : Owed(x)' = Owed(x) BY <1>1 DEF Owed, Rows
<1>8. WithinDeposit' BY <1>7, OwedLess DEF IInv
<1>9. RepliesAreRows' /\ OneRowPerKey' /\ OneSweep' BY <1>1, SameRows DEF IInv
<1>10. StoredHasArrived' BY <1>2 DEF IInv, StoredHasArrived
<1>11. PassesFit' BY <1>0, <1>1, <1>2, SamePasses DEF IInv, TypeOK
<1> QED BY <1>5, <1>6, <1>8, <1>9, <1>10, <1>11 DEF IInv

(* A refund is queued only within its deposit and for a key of its own.    *)
LEMMA CallKeeps ==
    ASSUME IInv, NEW c \in Call, CallStep(c)
    PROVE  IInv'
<1> USE DEF deposits, passes, events
<1>0. TypeOK /\ MovedAreRows BY DEF IInv
<1>1. UNCHANGED <<chain, stored, moved, taken, pc, known, counted>>
  BY DEF CallStep, QueueRefund, ReplayRefund, RefuseRefund, Answer
<1>2. Pocketed' = Pocketed /\ Moved' = Moved BY <1>1 DEF Pocketed, Moved
<1>3. Balance' \in Nat BY <1>0, <1>1, <1>2, MoneyStays
<1>4. TypeOK' BY <1>0, <1>3, CallTypes
<1>5. StoredHasArrived' BY <1>1 DEF IInv, StoredHasArrived
<1>6. c \in Send /\ c \notin Pass BY PayoutsAssumption DEF Send
<1>7. CASE ReplayRefund(c) \/ RefuseRefund(c)
  <2>1. outcome' = outcome BY <1>7 DEF ReplayRefund, RefuseRefund
  <2>2. MovedAreRows' BY <1>0, <1>2, <2>1 DEF MovedAreRows
  <2>3. \A d \in Deposit : Owed(d)' = Owed(d) BY <2>1 DEF Owed, Rows
  <2>4. WithinDeposit' BY <2>3, OwedLess DEF IInv
  <2>5. OneRowPerKey' /\ OneSweep' BY <2>1 DEF IInv, OneRowPerKey, OneSweep, Rows
  <2>6. RepliesAreRows'
    <3>1. CASE ReplayRefund(c)
      <4>1. PICK x \in Earlier(c) :
                Answer(c, IF Asked[x] = Asked[c] THEN x ELSE "conflict")
        BY <3>1 DEF ReplayRefund
      <4>2. x \in Call /\ outcome[x] # "absent" /\ SameRefund(c, x)
        BY DEF Earlier, Rows, SameRefund
      <4>3. reply'[c] \in Call => reply'[c] = x /\ Asked[x] = Asked[c]
        BY <1>0, <4>1, PayoutsAssumption DEF Answer, TypeOK
      <4>4. \A b \in Call \ {c} : reply'[b] = reply[b]
        BY <1>0, <4>1 DEF Answer, TypeOK
      <4> QED BY <2>1, <4>2, <4>3, <4>4 DEF IInv, RepliesAreRows, SameRefund
    <3>2. CASE RefuseRefund(c)
      <4>1. /\ reply'[c] \notin Call /\ \A b \in Call \ {c} : reply'[b] = reply[b]
        BY <1>0, <3>2, PayoutsAssumption DEF RefuseRefund, Answer, TypeOK
      <4> QED BY <2>1, <4>1 DEF IInv, RepliesAreRows, SameRefund
    <3> QED BY <1>7, <3>1, <3>2
  <2>7. PassesFit' BY <1>0, <1>1, <1>2, <2>1, SamePasses DEF IInv, TypeOK
  <2> QED BY <1>4, <1>5, <2>2, <2>4, <2>5, <2>6, <2>7 DEF IInv
<1>8. CASE QueueRefund(c)
  <2>1. /\ outcome[c] = "absent" /\ outcome'[c] = "queued"
        /\ \A s \in Send \ {c} : outcome'[s] = outcome[s]
    BY <1>0, <1>6, <1>8 DEF QueueRefund, Contract!Accept, Contract!Become, TypeOK
  <2>2. MovedAreRows'
    BY <1>0, <1>2, <1>6, <2>1 DEF MovedAreRows, Moved
  <2>3. /\ Rows(Call)' = Rows(Call) \cup {c} /\ c \notin Rows(Call)
        /\ Rows(Pass)' = Rows(Pass)
    BY <1>6, <2>1 DEF Rows, Send
  <2>4. OneSweep' BY <2>3 DEF IInv, OneSweep
  <2>5. OneRowPerKey'
    <3>1. \A x \in Rows(Call) : ~ SameRefund(c, x) /\ ~ SameRefund(x, c)
      BY <1>8 DEF QueueRefund, IsNew, Earlier, SameRefund
    <3> QED BY <2>3, <3>1 DEF IInv, OneRowPerKey, SameRefund
  <2>6. RepliesAreRows'
    <3>1. /\ reply'[c] = c /\ \A b \in Call \ {c} : reply'[b] = reply[b]
      BY <1>0, <1>8 DEF QueueRefund, Answer, TypeOK
    <3>2. \A x \in Call : outcome[x] # "absent" => outcome'[x] # "absent"
      BY <2>1 DEF Send
    <3> QED BY <2>1, <3>1, <3>2 DEF IInv, RepliesAreRows, SameRefund
  <2>7. PassesFit'
    <3>1. \A p \in Pass : outcome'[p] = outcome[p] BY <1>6, <2>1 DEF Send
    <3> QED BY <1>0, <1>1, <1>2, <3>1, SamePasses DEF IInv, TypeOK
  <2>8. WithinDeposit'
    <3>0. RefundOf[c] \in Deposit BY PayoutsAssumption
    <3>1. PICK d \in Deposit : d = RefundOf[c] BY <3>0
    <3>2. PICK S : S = Owed(d) OBVIOUS
    <3>3. Active(c) = S /\ Owed(d)' = S \cup {c} /\ c \notin S
      <4>1. \A x \in Rows(Call) : outcome[x] # "absent" /\ outcome[x] \in
                {"absent", "queued", "published", "confirmed", "failed"}
        BY <1>0 DEF TypeOK, Rows, Send
      <4>2. Active(c) = S BY <3>1, <3>2, <4>1 DEF Active, Owed
      <4>3. \A x \in Call \ {c} : outcome'[x] = outcome[x] BY <2>1 DEF Send
      <4>4. \A x : x \in Owed(d)' <=> x = c \/ x \in Owed(d)
        BY <2>1, <2>3, <3>1, <4>3 DEF Owed, Rows
      <4>5. c \notin Owed(d) BY <2>3 DEF Owed
      <4> QED BY <3>2, <4>2, <4>4, <4>5
    <3>4. ASSUME NEW x \in Deposit, x # d PROVE Owed(x)' = Owed(x)
      <4>1. \A y \in Call \ {c} : outcome'[y] = outcome[y] BY <2>1 DEF Send
      <4>2. \A y : y \in Owed(x)' <=> y \in Owed(x)
        BY <2>3, <3>1, <3>4, <4>1 DEF Owed, Rows
      <4> QED BY <4>2
    <3>5. Total({d}) >= Sum(Asked, Active(c)) + Asked[c]
      BY <1>8, <3>1 DEF QueueRefund, MapThenSumSet, MapThenFoldSet, Sum, SumsOf, Pick, Rest
    <3>6. Total({d}) = Amount[d]
      <4>1. IsFiniteSet({}) /\ {} \cup {d} = {d} BY FS_EmptySet
      <4>2. Sum(Amount, {d}) = Amount[d] + Sum(Amount, {})
        BY <3>1, <4>1, SumWith, PayoutsAssumption
      <4>3. Amount[d] \in Nat BY <3>1, PayoutsAssumption
      <4> QED BY <4>2, <4>3, EmptySum, AmountSum
    <3>7. IsFiniteSet(S) /\ \A x \in S \cup {c} : Asked[x] \in Nat
      BY <3>2, PayoutsAssumption, FS_Subset DEF Owed, Rows
    <3>8. Sum(Asked, S \cup {c}) = Asked[c] + Sum(Asked, S)
      BY <3>3, <3>7, SumWith
    <3>9. Sum(Asked, S) \in Nat /\ Asked[c] \in Nat BY <3>7, SumFacts
    <3>10. Amount[d] >= Sum(Asked, Owed(d)')
      BY <3>3, <3>5, <3>6, <3>8, <3>9
    <3> QED BY <3>4, <3>10 DEF IInv, WithinDeposit
  <2> QED BY <1>4, <1>5, <2>2, <2>4, <2>5, <2>6, <2>7, <2>8 DEF IInv
<1> QED BY <1>7, <1>8 DEF CallStep

LEMMA SendKeeps ==
    ASSUME IInv, NEW s \in Send, SendStep(s)
    PROVE  IInv'
<1> USE DEF deposits, sends, passes, events
<1>0. TypeOK /\ MovedAreRows BY DEF IInv
<1>1. UNCHANGED <<chain, stored, taken, reply, pc, known, counted>>
  BY DEF SendStep, Sending, AnnounceQueued, Transfer, Fail, Publish, Confirm,
         OnConfirmed, PollAgain, Pipeline
<1>2. Pocketed' = Pocketed BY <1>1 DEF Pocketed
<1>3. \/ outcome' = outcome /\ moved' = moved
      \/ /\ outcome' = outcome /\ outcome[s] = "queued" /\ Affordable(s)
         /\ s \notin Moved /\ Moved' = Moved \cup {s}
      \/ /\ moved' = moved /\ outcome[s] # "absent"
         /\ \A x \in Send \ {s} : outcome'[x] = outcome[x]
         /\ \/ outcome[s] \in {"queued", "published"}
               /\ outcome'[s] \in {"published", "confirmed"}
            \/ s \notin Moved /\ outcome[s] = "queued" /\ outcome'[s] = "failed"
  <2>1. CASE AnnounceQueued(s) \/ OnConfirmed(s) \/ PollAgain(s)
    BY <2>1 DEF AnnounceQueued, OnConfirmed, PollAgain
  <2>2. CASE Transfer(s)
    BY <1>0, <2>2 DEF Transfer, Pipeline, Contract!Transfer, TypeOK, Moved
  <2>3. CASE Fail(s)
    BY <1>0, <2>3
       DEF Fail, Pipeline, Contract!ReportFailed, Contract!Become, TypeOK, Moved
  <2>4. CASE Publish(s)
    BY <1>0, <2>4
       DEF Publish, Pipeline, Contract!ReportPublished, Contract!Become, TypeOK
  <2>5. CASE Confirm(s)
    BY <1>0, <2>5
       DEF Confirm, Pipeline, Contract!ReportConfirmed, Contract!Become, TypeOK
  <2> QED BY <2>1, <2>2, <2>3, <2>4, <2>5 DEF SendStep, Sending
<1>4. \/ Moved' = Moved
      \/ Affordable(s) /\ s \notin Moved /\ Moved' = Moved \cup {s}
  BY <1>3 DEF Moved
<1>5. Balance' \in Nat BY <1>0, <1>1, <1>2, <1>4, MoneyStays, MovedMore
<1>6. TypeOK' BY <1>0, <1>5, SendTypes
<1>7. \A x \in Send : outcome'[x] = "absent" <=> outcome[x] = "absent" BY <1>3
<1>8. RepliesAreRows' /\ OneRowPerKey' /\ OneSweep'
  BY <1>1, <1>7, SameRows DEF IInv
<1>9. PassesFit' BY <1>0, <1>1, <1>2, <1>7, SamePasses DEF IInv, TypeOK, Send
<1>10. StoredHasArrived' BY <1>1 DEF IInv, StoredHasArrived
<1>11. MovedAreRows'
  <2>1. IsFiniteSet(Moved') BY <1>0, <1>4, FS_AddElement DEF MovedAreRows
  <2>2. \A x \in Moved' : outcome'[x] \in {"queued", "published", "confirmed"}
    BY <1>0, <1>3 DEF MovedAreRows, Moved
  <2> QED BY <2>1, <2>2 DEF MovedAreRows
<1>12. WithinDeposit'
  <2>1. ASSUME NEW d \in Deposit
        PROVE  Owed(d)' = Owed(d) \/ \E y \in Owed(d) : Owed(d)' = Owed(d) \ {y}
    <3>1. Rows(Call)' = Rows(Call) BY <1>7 DEF Rows, Send
    <3>2. CASE s \in Owed(d) /\ outcome'[s] = "failed"
      <4>1. Owed(d)' = Owed(d) \ {s} BY <1>3, <3>1, <3>2 DEF Owed, Rows, Send
      <4> QED BY <3>2, <4>1
    <3>3. CASE s \notin Owed(d) \/ outcome'[s] # "failed"
      <4>1. \A x \in Call : outcome'[x] = "failed" <=>
                outcome[x] = "failed" \/ (x = s /\ outcome'[s] = "failed")
        BY <1>3 DEF Send
      <4>2. \A x : x \in Owed(d)' <=> x \in Owed(d)
        BY <3>1, <3>3, <4>1 DEF Owed, Rows
      <4>3. Owed(d)' = Owed(d) BY <4>2
      <4> QED BY <4>3
    <3> QED BY <3>2, <3>3
  <2> QED BY <2>1, OwedLess DEF IInv
<1> QED BY <1>6, <1>8, <1>9, <1>10, <1>11, <1>12 DEF IInv

(* What a pass that ends leaves.                                           *)
LEMMA EndsAt ==
    ASSUME TypeOK, NEW p \in Pass, Ends(p)
    PROVE  /\ pc'[p] = "idle" /\ \A q \in Pass \ {p} : pc'[q] = pc[q]
           /\ \A q \in Pass \ {p} : known'[q] = known[q] /\ counted'[q] = counted[q]
           /\ outcome'[p] # "absent" => known'[p] = known[p] /\ counted'[p] = counted[p]
           /\ outcome'[p] = "absent" => known'[p] = {} /\ counted'[p] = {}
BY DEF TypeOK, Ends

(* A step of pass p that fits p fits the others.                           *)
LEMMA PassFits ==
    ASSUME PassesFit, NEW p \in Pass, chain' = chain,
           \A q \in Pass \ {p} : /\ pc'[q] = pc[q] /\ outcome'[q] = outcome[q]
                                 /\ known'[q] = known[q] /\ counted'[q] = counted[q],
           outcome'[p] # "absent" => pc'[p] = "idle" /\ known'[p] \subseteq counted'[p],
           pc'[p] = "clear" => \A d \in known'[p] : chain[d] # "absent",
           pc'[p] = "empty" => known'[p] \subseteq Pocketed,
           pc'[p] = "counted" => known'[p] \subseteq counted'[p]
    PROVE  PassesFit'
<1>1. Pocketed' = Pocketed BY DEF Pocketed
<1> QED BY <1>1 DEF PassesFit

(* A pass that makes no row.                                               *)
LEMMA PassLooks ==
    ASSUME IInv, NEW p \in Pass, PassStep(p), ~ CreateSweep(p)
    PROVE  PassesFit' /\ UNCHANGED <<outcome, taken>>
<1>0. TypeOK /\ PassesFit /\ StoredHasArrived BY DEF IInv
<1>1. UNCHANGED <<outcome, taken, chain, stored>>
  BY DEF PassStep, Sweep, Look, CheckTasks, CheckReceivables, ReadBalance, PassFails,
         Sweeping, deposits
<1>2. outcome[p] = "absent" \/ pc[p] = "idle" BY <1>0 DEF PassesFit
<1>e. ASSUME Ends(p), outcome[p] = "absent" PROVE PassesFit'
  BY <1>0, <1>1, <1>e, EndsAt, PassFits
<1>3. CASE Look(p)
  <2>1. CASE Rows(Pass) = {} /\ Goes(p, "looked")
    <3>1. outcome[p] = "absent" BY <2>1 DEF Rows
    <3>2. /\ pc'[p] = "looked" /\ \A q \in Pass \ {p} : pc'[q] = pc[q]
          /\ UNCHANGED <<known, counted>>
      BY <1>0, <1>3, <2>1 DEF Look, Goes, TypeOK
    <3> QED BY <1>0, <1>1, <3>1, <3>2, PassFits
  <2>2. CASE pc' = pc
    BY <1>0, <1>1, <1>3, <2>2 DEF Look, PassesFit, Pocketed
  <2> QED BY <1>3, <2>1, <2>2 DEF Look
<1>4. CASE CheckTasks(p)
  <2>1. outcome[p] = "absent" BY <1>2, <1>4 DEF CheckTasks, Sweeping
  <2>2. CASE Goes(p, "clear") /\ known' = [known EXCEPT ![p] = {d \in Deposit : stored[d]}]
    <3>1. /\ pc'[p] = "clear" /\ \A q \in Pass \ {p} : pc'[q] = pc[q]
          /\ known'[p] = {d \in Deposit : stored[d]}
          /\ \A q \in Pass \ {p} : known'[q] = known[q]
      BY <1>0, <2>2 DEF Goes, TypeOK
    <3>2. counted' = counted \/ Ends(p) BY <1>4 DEF CheckTasks
    <3>3. \A d \in known'[p] : chain[d] # "absent"
      BY <1>0, <3>1 DEF StoredHasArrived
    <3> QED BY <1>0, <1>1, <1>e, <2>1, <3>1, <3>2, <3>3, PassFits
  <2> QED BY <1>4, <1>e, <2>1, <2>2 DEF CheckTasks
<1>5. CASE CheckReceivables(p)
  <2>1. outcome[p] = "absent" /\ pc[p] = "clear"
    BY <1>2, <1>5 DEF CheckReceivables, Sweeping
  <2>2. CASE Receivables = {} /\ Goes(p, "empty") /\ UNCHANGED <<known, counted>>
    <3>1. /\ pc'[p] = "empty" /\ \A q \in Pass \ {p} : pc'[q] = pc[q]
      BY <1>0, <2>2 DEF Goes, TypeOK
    <3>2. known[p] \subseteq Pocketed
      BY <1>0, <2>1, <2>2 DEF PassesFit, Receivables, Pocketed, TypeOK, ChainState
    <3> QED BY <1>0, <1>1, <2>1, <2>2, <3>1, <3>2, PassFits
  <2> QED BY <1>5, <1>e, <2>1, <2>2 DEF CheckReceivables
<1>6. CASE ReadBalance(p)
  <2>1. outcome[p] = "absent" /\ pc[p] = "empty"
    BY <1>2, <1>6 DEF ReadBalance, Sweeping
  <2>2. CASE /\ Goes(p, "counted") /\ counted' = [counted EXCEPT ![p] = Pocketed]
             /\ UNCHANGED known
    <3>1. /\ pc'[p] = "counted" /\ \A q \in Pass \ {p} : pc'[q] = pc[q]
          /\ counted'[p] = Pocketed /\ \A q \in Pass \ {p} : counted'[q] = counted[q]
      BY <1>0, <2>2 DEF Goes, TypeOK
    <3>2. known[p] \subseteq Pocketed BY <1>0, <2>1 DEF PassesFit
    <3> QED BY <1>0, <1>1, <2>1, <2>2, <3>1, <3>2, PassFits
  <2> QED BY <1>6, <1>e, <2>1, <2>2 DEF ReadBalance
<1>7. CASE PassFails(p)
  <2>1. outcome[p] = "absent" BY <1>2, <1>7 DEF PassFails
  <2> QED BY <1>7, <1>e, <2>1 DEF PassFails
<1> QED BY <1>1, <1>3, <1>4, <1>5, <1>6, <1>7 DEF PassStep, Sweep

(* The key of the sweep is free once.                                      *)
LEMMA PassKeeps ==
    ASSUME IInv, NEW p \in Pass, PassStep(p)
    PROVE  IInv'
<1> USE DEF deposits
<1>0. TypeOK /\ MovedAreRows BY DEF IInv
<1>1. UNCHANGED <<chain, stored, moved, reply>>
  BY DEF PassStep, Sweep, Look, CheckTasks, CheckReceivables, ReadBalance,
         CreateSweep, PassFails, Sweeping
<1>2. Pocketed' = Pocketed /\ Moved' = Moved BY <1>1 DEF Pocketed, Moved
<1>3. StoredHasArrived' BY <1>1 DEF IInv, StoredHasArrived
<1>4. p \in Send /\ p \notin Call BY PayoutsAssumption DEF Send
<1>5. CASE UNCHANGED <<outcome, taken>> /\ PassesFit'
  <2>1. Balance' \in Nat BY <1>0, <1>2, <1>5, MoneyStays
  <2>2. TypeOK' BY <1>0, <2>1, PassTypes
  <2>3. MovedAreRows' BY <1>0, <1>2, <1>5 DEF MovedAreRows
  <2>4. \A d \in Deposit : Owed(d)' = Owed(d) BY <1>5 DEF Owed, Rows
  <2>5. WithinDeposit' BY <2>4, OwedLess DEF IInv
  <2>6. RepliesAreRows' /\ OneRowPerKey' /\ OneSweep'
    BY <1>1, <1>5, SameRows DEF IInv
  <2> QED BY <1>3, <1>5, <2>2, <2>3, <2>5, <2>6 DEF IInv
<1>6. CASE CreateSweep(p)
  <2>1. pc[p] = "counted" /\ outcome[p] = "absent" /\ Ends(p)
    BY <1>6 DEF CreateSweep, Sweeping, IInv, PassesFit
  <2>2. known[p] \subseteq counted[p] BY <2>1 DEF IInv, PassesFit
  <2>3. /\ \A s \in Send \ {p} : outcome'[s] = outcome[s]
        /\ \A q \in Pass \ {p} : taken'[q] = taken[q]
        /\ \/ outcome'[p] = "absent"
           \/ outcome'[p] = "queued" /\ Rows(Pass) = {}
    BY <1>0, <1>4, <1>6, <2>1 DEF CreateSweep, KeyIsFree, TypeOK
  <2>4. p \notin Moved BY <1>0, <2>1 DEF MovedAreRows
  <2>5. \A s \in Moved : WorthOf(taken', s) = WorthOf(taken, s)
    BY <2>3, <2>4 DEF WorthOf, Moved, Send
  <2>6. Balance' \in Nat BY <1>0, <1>2, <2>5, MoneyStays
  <2>7. TypeOK' BY <1>0, <2>6, PassTypes
  <2>8. MovedAreRows' BY <1>0, <1>2, <2>3, <2>4 DEF MovedAreRows, Moved
  <2>9. \A c \in Call : outcome'[c] = outcome[c] BY <1>4, <2>3 DEF Send
  <2>10. \A d \in Deposit : Owed(d)' = Owed(d)
    <3> SUFFICES ASSUME NEW d \in Deposit PROVE Owed(d)' = Owed(d)
      OBVIOUS
    <3>1. \A x : x \in Owed(d)' <=> x \in Owed(d) BY <2>9 DEF Owed, Rows
    <3> QED BY <3>1
  <2>11. WithinDeposit' BY <2>10, OwedLess DEF IInv
  <2>12. RepliesAreRows' BY <1>1, <2>9 DEF IInv, RepliesAreRows, SameRefund
  <2>13. Rows(Call)' = Rows(Call) BY <2>9 DEF Rows
  <2>14. OneRowPerKey' BY <2>13 DEF IInv, OneRowPerKey, SameRefund
  <2>15. Rows(Pass)' = Rows(Pass) \/ Rows(Pass)' = {p}
    BY <2>1, <2>3 DEF Rows, Send
  <2>16. OneSweep' BY <2>15 DEF IInv, OneSweep
  <2>17. PassesFit'
    <3>1. \A q \in Pass \ {p} : outcome'[q] = outcome[q] BY <2>3 DEF Send
    <3> QED BY <1>0, <1>1, <2>1, <2>2, <3>1, EndsAt, PassFits DEF IInv
  <2> QED BY <1>3, <2>7, <2>8, <2>11, <2>12, <2>14, <2>16, <2>17 DEF IInv
<1> QED BY <1>5, <1>6, PassLooks

(* A crash ends the passes that have no row.                               *)
LEMMA CrashKeeps ==
    ASSUME IInv, Crash
    PROVE  IInv'
<1> USE DEF deposits, sends, events
<1>0. TypeOK /\ MovedAreRows BY DEF IInv
<1>1. UNCHANGED <<chain, stored, outcome, moved, taken, reply>> BY DEF Crash
<1>2. Pocketed' = Pocketed /\ Moved' = Moved BY <1>1 DEF Pocketed, Moved
<1>3. Balance' \in Nat BY <1>0, <1>1, <1>2, MoneyStays
<1>4. TypeOK' BY <1>0, <1>3, CrashTypes
<1>5. MovedAreRows' BY <1>0, <1>1, <1>2 DEF MovedAreRows
<1>6. \A d \in Deposit : Owed(d)' = Owed(d) BY <1>1 DEF Owed, Rows
<1>7. WithinDeposit' BY <1>6, OwedLess DEF IInv
<1>8. RepliesAreRows' /\ OneRowPerKey' /\ OneSweep' BY <1>1, SameRows DEF IInv
<1>9. StoredHasArrived' BY <1>1 DEF IInv, StoredHasArrived
<1>10. PassesFit'
  <2>1. \A p \in Pass : /\ pc'[p] = "idle"
                        /\ outcome[p] # "absent" => /\ known'[p] = known[p]
                                                    /\ counted'[p] = counted[p]
    BY DEF Crash, Rows
  <2> QED BY <1>1, <2>1 DEF IInv, PassesFit
<1> QED BY <1>4, <1>5, <1>7, <1>8, <1>9, <1>10 DEF IInv

LEMMA Preserved == IInv /\ [Next]_vars => IInv'
<1> SUFFICES ASSUME IInv, [Next]_vars PROVE IInv' OBVIOUS
<1>1. CASE AnotherInvoice \/ UNCHANGED vars
  <2>1. UNCHANGED <<chain, stored, outcome, moved, taken, reply, pc, known, counted>>
    BY <1>1 DEF vars, AnotherInvoice, deposits, sends, passes
  <2>2. Pocketed' = Pocketed /\ Moved' = Moved BY <2>1 DEF Pocketed, Moved
  <2>3. Balance' \in Nat BY <2>1, <2>2, MoneyStays DEF IInv
  <2>4. TypeOK' BY <2>3, TypesStep DEF IInv
  <2>5. MovedAreRows' BY <2>1, <2>2 DEF IInv, MovedAreRows
  <2>6. \A d \in Deposit : Owed(d)' = Owed(d) BY <2>1 DEF Owed, Rows
  <2>7. WithinDeposit' BY <2>6, OwedLess DEF IInv
  <2>8. RepliesAreRows' /\ OneRowPerKey' /\ OneSweep' BY <2>1, SameRows DEF IInv
  <2>9. StoredHasArrived' BY <2>1 DEF IInv, StoredHasArrived
  <2>10. PassesFit' BY <2>1, <2>2, SamePasses DEF IInv, TypeOK
  <2> QED BY <2>4, <2>5, <2>7, <2>8, <2>9, <2>10 DEF IInv
<1> QED BY <1>1, DepositKeeps, CallKeeps, SendKeeps, PassKeeps, CrashKeeps
        DEF Next, DepositStep, CallStep, SendStep, PassStep

-------------------------------------------------------------------------------
(* Theorems                                                                *)

(* The inductive invariant holds in every reachable state.                 *)
THEOREM InvariantHolds == Spec => []IInv
BY InitialInvariant, Preserved, PTL DEF Spec

(* Type correctness, and the address is never overdrawn: the balance that  *)
(* deposits, refunds and sweeps leave is a natural number, for any amounts *)
(* and any number of calls and overlapping passes.                         *)
THEOREM TypesHold == Spec => []TypeOK
BY InvariantHolds, PTL DEF IInv

(* The refunds of a deposit that are queued, published or confirmed never  *)
(* add up to more than the deposit, for any amounts and any number of      *)
(* refund calls: createSqliteRefundStore.queue checks the sum and adds the *)
(* row in one transaction, and no other step brings a refund back.         *)
THEOREM RefundsAreCovered == Spec => []RefundsWithinDeposit
<1>1. WithinDeposit => RefundsWithinDeposit
  BY DEF WithinDeposit, RefundsWithinDeposit, Owed, MapThenSumSet, MapThenFoldSet, Sum,
         SumsOf, Pick, Rest
<1> QED BY <1>1, InvariantHolds, PTL DEF IInv

(* Calls with one key that get a refund get the same one, for the amount   *)
(* they ask for, and overlapping passes make one sweep of the invoice.     *)
THEOREM PaidOutOnce == Spec => []OnePayoutPerKey
<1>1. IInv => OneRefundPerKey
  <2> SUFFICES ASSUME IInv, NEW c \in Call, NEW x \in Call
               PROVE  /\ reply[c] \in Call => Asked[reply[c]] = Asked[c]
                      /\ (RefundOf[c] = RefundOf[x] /\ Key[c] = Key[x]
                          /\ reply[c] \in Call /\ reply[x] \in Call)
                            => reply[c] = reply[x]
    BY DEF OneRefundPerKey
  <2>1. \A b \in Call : reply[b] \in Call =>
            /\ reply[b] \in Rows(Call) /\ Asked[reply[b]] = Asked[b]
            /\ SameRefund(b, reply[b])
    BY DEF IInv, RepliesAreRows, Rows
  <2> QED BY <2>1 DEF IInv, OneRowPerKey, SameRefund
<1>2. IInv => OnePayoutPerKey BY <1>1 DEF IInv, OnePayoutPerKey
<1> QED BY <1>2, InvariantHolds, PTL

(* A sweep takes a balance that holds every deposit that was stored when   *)
(* its pass looked at the tasks, however passes, deposits, failed tasks    *)
(* and crashes interleave.                                                 *)
THEOREM SweepsCountAll == Spec => []SweepCountsWhatIsKnown
<1>1. IInv => SweepCountsWhatIsKnown
  BY DEF IInv, PassesFit, SweepCountsWhatIsKnown, Rows
<1> QED BY <1>1, InvariantHolds, PTL

-------------------------------------------------------------------------------
(* The row of an account                                                   *)

(* A call that has inserted the row, or was answered with it, finds it     *)
(* there as long as nobody has deleted it.                                 *)
Answered ==
    removed = {} => \A c \in Create :
        /\ callAt[c] = "put" => row # None /\ row.id = c
        /\ created[c] # None => row # None /\ row.id = created[c]

(* In one process only one writer is between its two statements, and it    *)
(* knows the label of the row, unless it writes one of its own.            *)
OneWriter ==
    ~ rowSetup.shared =>
        \A v, w \in Writer : held[v] # None /\ held[w] # None => v = w

HolderKnows ==
    ~ rowSetup.shared =>
        \A w \in Writer : held[w] # None =>
            /\ w \in Update => held[w].label = w
            /\ w \notin Update /\ row # None /\ row.id = held[w].id =>
                  held[w].label = row.label

RowIInv ==
    /\ RowTypeOK /\ NoSendWithoutAccount
    /\ Answered /\ OneWriter /\ HolderKnows

-------------------------------------------------------------------------------
(* The types are preserved.                                                *)

LEMMA GoesType ==
    ASSUME RowTypeOK, NEW c \in AccountCall,
           \/ Proceeds(c, "done") \/ Proceeds(c, "insert") \/ Proceeds(c, "put")
           \/ Proceeds(c, "delete") \/ Proceeds(c, "create")
           \/ Proceeds(c, "write")
    PROVE  callAt' \in [AccountCall -> {"idle", "insert", "put", "delete",
                                         "create", "write", "done"}]
BY DEF Proceeds, RowTypeOK

LEMMA RowType ==
    ASSUME RowTypeOK, row # None
    PROVE  row \in Row /\ row.id \in Create
BY DEF RowTypeOK, Row

LEMMA FreshType ==
    \A c \in Create : Fresh(c) \in Row /\ Fresh(c).id = c
BY AccountRowsAssumption DEF Fresh, Row, Height

LEMMA FaultType ==
    ASSUME RowTypeOK, RowFault
    PROVE  /\ rowSetup' \in RowSetup
           /\ rowFaults' \in 0..rowSetup'.faults /\ crashes' \in 0..rowSetup'.crashes
BY AccountRowsAssumption DEF RowTypeOK, RowFault

LEMMA CreateTypes ==
    ASSUME RowTypeOK, NEW c \in Create, Creating(c)
    PROVE  RowTypeOK'
<1> USE DEF At, database, memory, bounds
<1>c. c \in AccountCall BY DEF AccountCall
<1>p. callAt' \in [AccountCall -> {"idle", "insert", "put", "delete",
                                    "create", "write", "done"}]
  BY <1>c, GoesType
     DEF Creating, LookupAccount, InsertAccount,
         AnswerCreated
<1>1. CASE LookupAccount(c)
  <2>1. created' \in [Create -> Create \cup {None}] /\ watching' \in BOOLEAN
    <3>1. CASE row = None BY <1>1, <3>1 DEF LookupAccount, RowTypeOK
    <3>2. CASE row # None
      <4>1. row.id \in Create BY <3>2, RowType
      <4> QED BY <1>1, <3>2, <4>1 DEF LookupAccount, RowTypeOK
    <3> QED BY <3>1, <3>2
  <2> QED BY <1>1, <1>p, <2>1 DEF LookupAccount, RowTypeOK
<1>2. CASE InsertAccount(c)
  <2>1. row' \in Row \cup {None} /\ watching' \in BOOLEAN
    <3>1. Fresh(c) \in Row BY FreshType
    <3>2. CASE NoRow BY <1>2, <3>1, <3>2 DEF InsertAccount
    <3>3. CASE ~ NoRow BY <1>2, <3>3 DEF InsertAccount, RowTypeOK
    <3> QED BY <3>2, <3>3
  <2> QED BY <1>2, <1>p, <2>1 DEF InsertAccount, RowTypeOK
<1>3. CASE AnswerCreated(c)
  <2>1. created' \in [Create -> Create \cup {None}]
    BY <1>3 DEF AnswerCreated, RowTypeOK
  <2> QED BY <1>3, <1>p, <2>1 DEF AnswerCreated, RowTypeOK
<1> QED BY <1>1, <1>2, <1>3 DEF Creating

LEMMA DeleteTypes ==
    ASSUME RowTypeOK, NEW d \in Delete, Deleting(d)
    PROVE  RowTypeOK'
<1> USE DEF At, database, memory, bounds
<1>c. d \in AccountCall BY DEF AccountCall
<1>p. callAt' \in [AccountCall -> {"idle", "insert", "put", "delete",
                                    "create", "write", "done"}]
  BY <1>c, GoesType
     DEF Deleting, CheckDelete, DeleteRow, AnswerDeleted
<1>1. CASE CheckDelete(d)
  <2>1. /\ lookedAt' \in [Delete -> Height \cup {None}]
        /\ saw' \in [AccountCall -> Create \cup {None}]
    BY <1>1, <1>c, RowType DEF CheckDelete, RowTypeOK
  <2> QED BY <1>1, <1>p, <2>1 DEF CheckDelete, RowTypeOK
<1>2. CASE DeleteRow(d)
  <2>1. /\ row' \in Row \cup {None} /\ watching' \in BOOLEAN
        /\ removed' \subseteq Delete
    <3> DEFINE deletes == row # None /\ row.id = saw[d] /\ Deletable(saw[d])
    <3>1. /\ row \in Row \cup {None} /\ watching \in BOOLEAN
          /\ removed \subseteq Delete
      BY DEF RowTypeOK
    <3>2. CASE deletes
      <4>1. row' = None /\ watching' = FALSE /\ removed' = removed \cup {d}
        BY <1>2, <3>2 DEF DeleteRow
      <4> QED BY <3>1, <4>1
    <3>3. CASE ~ deletes
      <4>1. UNCHANGED <<row, watching, removed>> BY <1>2, <3>3 DEF DeleteRow
      <4> QED BY <3>1, <4>1
    <3> QED BY <3>2, <3>3
  <2> QED BY <1>2, <1>p, <2>1 DEF DeleteRow, RowTypeOK
<1>3. CASE AnswerDeleted(d)
  <2>1. attached' \in Create \cup {None} /\ watching' \in BOOLEAN
    BY <1>3 DEF AnswerDeleted
  <2> QED BY <1>3, <1>p, <2>1 DEF AnswerDeleted, RowTypeOK
<1> QED BY <1>1, <1>2, <1>3 DEF Deleting

LEMMA RowSendTypes ==
    ASSUME RowTypeOK, NEW s \in SendCall, Queueing(s)
    PROVE  RowTypeOK'
<1> USE DEF At, database, memory, bounds
<1>c. s \in AccountCall BY DEF AccountCall
<1>p. callAt' \in [AccountCall -> {"idle", "insert", "put", "delete",
                                    "create", "write", "done"}]
  BY <1>c, GoesType DEF Queueing, FindSource, CreateSend
<1>1. CASE FindSource(s)
  <2>1. saw' \in [AccountCall -> Create \cup {None}]
    BY <1>1, <1>c, RowType DEF FindSource, RowTypeOK
  <2> QED BY <1>1, <1>p, <2>1 DEF FindSource, RowTypeOK
<1>2. CASE CreateSend(s)
  <2>1. sendRows' \subseteq [id : SendCall, account : Create] /\ sendRows \subseteq sendRows'
    BY <1>2, RowType DEF CreateSend, RowTypeOK
  <2> QED BY <1>2, <1>p, <2>1 DEF CreateSend, RowTypeOK
<1> QED BY <1>1, <1>2 DEF Queueing

LEMMA LedgerTypes ==
    ASSUME RowTypeOK,
           Pocket \/ (\E s \in sendRows : PublishSend(s))
    PROVE  RowTypeOK'
<1> USE DEF Grow, calls, memory, bounds
<1>1. height' \in Height
  BY AccountRowsAssumption DEF Pocket, PublishSend,
         RowTypeOK, Height
<1>2. CASE Pocket BY <1>1, <1>2 DEF Pocket, RowTypeOK
<1>3. CASE \E s \in sendRows : PublishSend(s)
  BY <1>1, <1>3 DEF PublishSend, RowTypeOK
<1> QED BY <1>2, <1>3

LEMMA HoldType ==
    ASSUME RowTypeOK, NEW w \in Writer, NEW r \in Row \cup {None},
           Hold(w, r)
    PROVE  held' \in [Writer -> Row \cup {None}]
BY DEF Hold, RowTypeOK

LEMMA CachedType ==
    ASSUME RowTypeOK, row # None, NEW h \in Height
    PROVE  /\ [row EXCEPT !.frontier = h, !.balance = BalanceAt[h]] \in Row
           /\ Synced(row, h) \in Row
BY AccountRowsAssumption, RowType DEF Row, Synced

LEMMA UpdateTypes ==
    ASSUME RowTypeOK,
           \/ \E u \in Update : ReadForLabel(u)
           \/ \E h \in SendBlocks : ReadForCache(h)
           \/ \E w \in Writer : Write(w)
    PROVE  RowTypeOK'
<1> USE DEF database, calls, memory, bounds
<1>1. ASSUME NEW u \in Update, ReadForLabel(u) PROVE RowTypeOK'
  <2>1. u \in AccountCall /\ u \in Writer BY DEF AccountCall, Writer
  <2>2. [row EXCEPT !.label = u] \in Row
    BY <1>1, RowType DEF ReadForLabel, Row
  <2>3. held' \in [Writer -> Row \cup {None}]
    BY <1>1, <2>1, <2>2, HoldType DEF ReadForLabel
  <2>4. callAt' \in [AccountCall -> {"idle", "insert", "put", "delete",
                                      "create", "write", "done"}]
    BY <1>1, <2>1, GoesType DEF ReadForLabel
  <2> QED BY <1>1, <2>3, <2>4 DEF ReadForLabel, RowTypeOK
<1>2. ASSUME NEW h \in SendBlocks, ReadForCache(h) PROVE RowTypeOK'
  <2>1. h \in Height /\ h \in Writer
    BY AccountRowsAssumption DEF Height, Writer
  <2>2. held' \in [Writer -> Row \cup {None}]
    BY <1>2, <2>1, CachedType, HoldType DEF ReadForCache, RowTypeOK
  <2>3. toCache' \subseteq SendBlocks BY <1>2 DEF ReadForCache, RowTypeOK
  <2> QED BY <1>2, <2>2, <2>3 DEF ReadForCache, RowTypeOK
<1>3. ASSUME NEW w \in Writer, Write(w) PROVE RowTypeOK'
  <2>1. row' \in Row \cup {None} BY <1>3 DEF Write, RowTypeOK
  <2>2. held' \in [Writer -> Row \cup {None}]
    BY <1>3, HoldType DEF Write
  <2>3. callAt' \in [AccountCall -> {"idle", "insert", "put", "delete",
                                      "create", "write", "done"}]
    BY <1>3, GoesType DEF Write, AccountCall, RowTypeOK
  <2> QED BY <1>3, <2>1, <2>2, <2>3 DEF Write, RowTypeOK
<1> QED BY <1>1, <1>2, <1>3

LEMMA StartsType ==
    ASSUME RowTypeOK, NEW w \in Worker, NEW kind \in {"initial", "reconcile"},
           NEW id \in Create, Starts(w, kind, id)
    PROVE  job' \in [Worker -> Job]
<1>1. [Idle EXCEPT !.kind = kind, !.id = id] \in Job
  BY DEF Idle, Job
<1> QED BY <1>1 DEF Starts, RowTypeOK

LEMMA SyncTypes ==
    ASSUME RowTypeOK,
           (\E w \in Worker : Syncing(w) \/ Attach(w)) \/ Detach
    PROVE  RowTypeOK'
<1> USE DEF database, calls, memory, bounds
<1>1. ASSUME NEW w \in Worker,
             Attach(w) \/ Restore(w) PROVE RowTypeOK'
  <2>1. job' \in [Worker -> Job]
    BY <1>1, RowType, StartsType DEF Attach, Restore
  <2>2. attached' \in Create \cup {None}
    BY <1>1, RowType DEF Attach, Restore
  <2>3. watching' \in BOOLEAN /\ left' \in BOOLEAN
    BY <1>1 DEF Attach, Restore
  <2>4. restoring' \in BOOLEAN
    BY <1>1 DEF Attach, Restore, RowTypeOK
  <2> QED
    BY <1>1, <2>1, <2>2, <2>3, <2>4
       DEF Attach, Restore, Starts, RowTypeOK
<1>2. ASSUME NEW w \in Worker, Reconcile(w) PROVE RowTypeOK'
  <2>1. job' \in [Worker -> Job]
    BY <1>2, StartsType DEF Reconcile, RowTypeOK
  <2> QED BY <1>2, <2>1 DEF Reconcile, Starts, RowTypeOK
<1>3. ASSUME NEW w \in Worker, AskNode(w) PROVE RowTypeOK'
  <2>1. 0 \in Height /\ Idle \in Job
    BY AccountRowsAssumption DEF Height, Idle, Job
  <2>2. /\ [job[w] EXCEPT !.info = height] \in Job
        /\ [job[w] EXCEPT !.info = 0] \in Job
    BY <2>1 DEF RowTypeOK, Job
  <2>3. job' \in [Worker -> Job]
    BY <1>3, <2>1, <2>2 DEF AskNode, RowTypeOK
  <2>4. /\ rowSetup' \in RowSetup
        /\ rowFaults' \in 0..rowSetup'.faults /\ crashes' \in 0..rowSetup'.crashes
    BY <1>3, FaultType DEF AskNode, RowTypeOK
  <2> QED BY <1>3, <2>3, <2>4 DEF AskNode, RowTypeOK
<1>4. ASSUME NEW w \in Worker, ReadForSync(w) PROVE RowTypeOK'
  <2>1. job' \in [Worker -> Job]
    BY <1>4 DEF ReadForSync, RowTypeOK, Idle, Job
  <2>2. job[w].info \in Height
    BY <1>4 DEF ReadForSync, RowTypeOK, Job
  <2>3. w \in Writer BY DEF Writer
  <2>4. held' \in [Writer -> Row \cup {None}]
    BY <1>4, <2>2, <2>3, CachedType, HoldType DEF ReadForSync, RowTypeOK
  <2> QED BY <1>4, <2>1, <2>4 DEF ReadForSync, RowTypeOK
<1>5. CASE Detach
  <2>1. attached' = None /\ watching' \in BOOLEAN /\ left' \in BOOLEAN
    BY <1>5 DEF Detach
  <2> QED BY <1>5, <2>1 DEF Detach, RowTypeOK
<1> QED BY <1>1, <1>2, <1>3, <1>4, <1>5 DEF Syncing

LEMMA RowCrashTypes ==
    ASSUME RowTypeOK, RowCrash
    PROVE  RowTypeOK'
<1> USE DEF database
<1>1. /\ callAt' \in [AccountCall -> {"idle", "insert", "put", "delete",
                                       "create", "write", "done"}]
      /\ held' \in [Writer -> Row \cup {None}]
      /\ toCache' \subseteq SendBlocks
  BY DEF RowCrash, RowTypeOK
<1>2. job' \in [Worker -> Job] BY DEF RowCrash, Idle, Job
<1>3. crashes' \in 0..rowSetup'.crashes
  BY AccountRowsAssumption DEF RowCrash, RowTypeOK
<1>4. watching' \in BOOLEAN /\ left' \in BOOLEAN /\ restoring' \in BOOLEAN
      /\ attached' \in Create \cup {None}
  BY DEF RowCrash, ToRestore
<1> QED BY <1>1, <1>2, <1>3, <1>4 DEF RowCrash, RowTypeOK

LEMMA InitialTypes ==
    RowInit => RowTypeOK
<1> SUFFICES ASSUME RowInit PROVE RowTypeOK OBVIOUS
<1>1. row \in Row \cup {None}
  BY AccountRowsAssumption, FreshType DEF RowInit
<1>2. 0 \in Height /\ height \in Height
  BY AccountRowsAssumption DEF RowInit, Height
<1>3. job \in [Worker -> Job] BY DEF RowInit, Idle, Job
<1>4. watching \in BOOLEAN /\ left \in BOOLEAN /\ restoring \in BOOLEAN
  BY DEF RowInit
<1>5. rowFaults \in 0..rowSetup.faults /\ crashes \in 0..rowSetup.crashes
  BY AccountRowsAssumption DEF RowInit
<1> QED BY <1>1, <1>2, <1>3, <1>4, <1>5 DEF RowInit, RowTypeOK

LEMMA RowTypesStep ==
    RowTypeOK /\ [RowNext]_rowvars => RowTypeOK'
<1> SUFFICES ASSUME RowTypeOK,
                    [RowNext]_rowvars PROVE RowTypeOK' OBVIOUS
<1>1. CASE UNCHANGED rowvars
  BY <1>1
     DEF rowvars, database, calls, memory, bounds,
         RowTypeOK
<1> QED
  BY <1>1, CreateTypes, DeleteTypes, RowSendTypes, LedgerTypes, UpdateTypes, SyncTypes,
     RowCrashTypes
     DEF RowNext

-------------------------------------------------------------------------------
(* What is known is preserved.                                             *)

Known == NoSendWithoutAccount /\ Answered /\ OneWriter /\ HolderKnows

LEMMA Disjoint ==
    /\ \A c \in Create : /\ c # None /\ c \notin Writer
                                 /\ c \notin Delete \cup Update \cup SendCall
    /\ \A d \in Delete \cup SendCall : d \notin Writer
    /\ \A w \in Worker \cup SendBlocks : w \notin Update
BY AccountRowsAssumption DEF Writer

(* A step that leaves the row, the sends and the writers alone.            *)
LEMMA NothingWritten ==
    ASSUME RowIInv, UNCHANGED <<row, sendRows, held, rowSetup, created, removed>>,
           \A c \in Create : callAt'[c] = "put" => callAt[c] = "put"
    PROVE  Known'
BY DEF Known, RowIInv, NoSendWithoutAccount, Answered, OneWriter, HolderKnows

(* When a call has its turn in a lone process, nobody is about to write.   *)
LEMMA NobodyHolds ==
    ASSUME NEW c, c \notin Writer, Turn(c), ~ rowSetup.shared
    PROVE  \A v \in Writer : held[v] = None
BY DEF Turn

LEMMA CreateStep ==
    ASSUME RowIInv, NEW c \in Create, Creating(c)
    PROVE  Known'
<1> USE DEF At, database, memory, bounds
<1>t. RowTypeOK /\ c \in AccountCall BY DEF RowIInv, AccountCall
<1>h. ~ rowSetup.shared => \A v \in Writer : held[v] = None
  BY Disjoint, NobodyHolds
     DEF Creating, LookupAccount, InsertAccount,
         AnswerCreated
<1>1. CASE LookupAccount(c)
  <2>1. UNCHANGED <<row, sendRows, held, rowSetup, removed>>
    BY <1>1 DEF LookupAccount
  <2>2. Answered'
    <3>1. CASE row # None
      <4>1. /\ created' = [created EXCEPT ![c] = row.id]
            /\ callAt' = [callAt EXCEPT ![c] = "done"]
        BY <1>1, <3>1 DEF LookupAccount, Proceeds
      <4> QED BY <1>t, <2>1, <3>1, <4>1 DEF RowIInv, Answered, RowTypeOK
    <3>2. CASE row = None
      <4>1. created' = created /\ callAt' = [callAt EXCEPT ![c] = "insert"]
        BY <1>1, <3>2 DEF LookupAccount, Proceeds
      <4> QED BY <1>t, <2>1, <3>2, <4>1 DEF RowIInv, Answered, RowTypeOK
    <3> QED BY <3>1, <3>2
  <2> QED
    BY <2>1, <2>2
       DEF Known, RowIInv, NoSendWithoutAccount, OneWriter, HolderKnows
<1>2. CASE InsertAccount(c)
  <2>1. UNCHANGED <<sendRows, held, rowSetup, removed, created>>
    BY <1>2 DEF InsertAccount
  <2>2. CASE row = None
    <3>1. /\ row' = Fresh(c) /\ row' # None /\ row'.id = c
          /\ callAt' = [callAt EXCEPT ![c] = "put"]
      BY AccountRowsAssumption, <1>2, <2>2, FreshType
         DEF InsertAccount, NoRow,
             Proceeds, Fresh
    <3>2. sendRows = {} BY <2>2 DEF RowIInv, NoSendWithoutAccount
    <3>3. Answered' BY <1>t, <2>1, <2>2, <3>1 DEF RowIInv, Answered, RowTypeOK
    <3> QED BY <1>h, <2>1, <3>2, <3>3
               DEF Known, RowIInv, NoSendWithoutAccount, OneWriter, HolderKnows
  <2>3. CASE row # None
    <3>1. row' = row /\ callAt' = [callAt EXCEPT ![c] = "done"]
      BY <1>2, <2>3 DEF InsertAccount, NoRow, Proceeds
    <3> QED BY <1>t, <2>1, <3>1, NothingWritten DEF RowTypeOK
  <2> QED BY <2>2, <2>3
<1>3. CASE AnswerCreated(c)
  <2>1. /\ UNCHANGED <<row, sendRows, held, rowSetup, removed>>
        /\ callAt[c] = "put" /\ created' = [created EXCEPT ![c] = c]
        /\ callAt' = [callAt EXCEPT ![c] = "done"]
    BY <1>3 DEF AnswerCreated, Proceeds
  <2>2. Answered' BY <1>t, <2>1 DEF RowIInv, Answered, RowTypeOK
  <2> QED
    BY <2>1, <2>2
       DEF Known, RowIInv, NoSendWithoutAccount, OneWriter, HolderKnows
<1> QED BY <1>1, <1>2, <1>3 DEF Creating

LEMMA DeleteStep ==
    ASSUME RowIInv, NEW d \in Delete, Deleting(d)
    PROVE  Known'
<1> USE DEF At, database, memory, bounds
<1>t. RowTypeOK BY DEF RowIInv
<1>h. ~ rowSetup.shared => \A v \in Writer : held[v] = None
  BY Disjoint, NobodyHolds
     DEF Deleting, CheckDelete, DeleteRow, AnswerDeleted
<1>p. \A c \in Create : callAt'[c] = callAt[c]
  BY <1>t, Disjoint
     DEF Deleting, CheckDelete, DeleteRow,
         AnswerDeleted, Proceeds, RowTypeOK, AccountCall
<1>1. CASE CheckDelete(d) \/ AnswerDeleted(d)
  <2>1. UNCHANGED <<row, sendRows, held, rowSetup, created, removed>>
    BY <1>1 DEF CheckDelete, AnswerDeleted
  <2> QED BY <1>p, <2>1, NothingWritten
<1>2. CASE DeleteRow(d)
  <2>1. UNCHANGED <<sendRows, held, rowSetup, created>> BY <1>2 DEF DeleteRow
  <2>2. CASE row # None /\ row.id = saw[d] /\ Deletable(saw[d])
    <3>1. row' = None /\ removed' # {} BY <1>2, <2>2 DEF DeleteRow
    <3>2. sendRows = {}
      BY <2>2
         DEF Deletable, SendsOf, RowIInv, NoSendWithoutAccount
    <3> QED BY <1>h, <2>1, <3>1, <3>2
               DEF Known, RowIInv, NoSendWithoutAccount, Answered, OneWriter,
                   HolderKnows
  <2>3. CASE ~ (row # None /\ row.id = saw[d] /\ Deletable(saw[d]))
    <3>1. UNCHANGED <<row, removed>> BY <1>2, <2>3 DEF DeleteRow
    <3> QED BY <1>p, <2>1, <3>1, NothingWritten
  <2> QED BY <2>2, <2>3
<1> QED BY <1>1, <1>2 DEF Deleting

LEMMA RowSendStep ==
    ASSUME RowIInv, NEW s \in SendCall, Queueing(s)
    PROVE  Known'
<1> USE DEF At, database, memory, bounds
<1>t. RowTypeOK BY DEF RowIInv
<1>p. \A c \in Create : callAt'[c] = callAt[c]
  BY <1>t, Disjoint
     DEF Queueing, FindSource, CreateSend, Proceeds,
         RowTypeOK, AccountCall
<1>1. CASE FindSource(s)
  BY <1>1, <1>p, NothingWritten DEF FindSource
<1>2. CASE CreateSend(s)
  <2>1. UNCHANGED <<row, held, rowSetup, created, removed>>
    BY <1>2 DEF CreateSend
  <2>2. NoSendWithoutAccount'
    BY <1>2, <2>1 DEF CreateSend, RowIInv, NoSendWithoutAccount
  <2> QED BY <1>p, <2>1, <2>2 DEF Known, RowIInv, Answered, OneWriter, HolderKnows
<1> QED BY <1>1, <1>2 DEF Queueing

(* Whoever reads the row in a lone process finds that nobody holds it.     *)
LEMMA ReadStep ==
    ASSUME RowIInv, NEW w \in Writer, NEW r \in Row \cup {None},
           Turn(w), Hold(w, r),
           UNCHANGED <<row, sendRows, rowSetup, created, removed>>,
           \A c \in Create : callAt'[c] = callAt[c],
           r # None => IF w \in Update THEN r.label = w
                       ELSE row # None /\ row.id = r.id => r.label = row.label
    PROVE  Known'
<1>1. \A v \in Writer : held'[v] = IF v = w THEN r ELSE held[v]
  BY DEF Hold, RowIInv, RowTypeOK
<1>2. ~ rowSetup.shared => \A v \in Writer \ {w} : held[v] = None
  BY DEF Turn
<1> QED BY <1>1, <1>2
           DEF Known, RowIInv, NoSendWithoutAccount, Answered, OneWriter,
               HolderKnows

LEMMA UpdateStep ==
    ASSUME RowIInv,
           \/ \E u \in Update : ReadForLabel(u)
           \/ \E h \in SendBlocks : ReadForCache(h)
           \/ \E w \in Worker : ReadForSync(w)
    PROVE  Known'
<1> USE DEF database, calls, memory, bounds
<1>t. RowTypeOK BY DEF RowIInv
<1>1. ASSUME NEW u \in Update, ReadForLabel(u) PROVE Known'
  <2>1. u \in Writer BY DEF Writer
  <2> DEFINE r == [row EXCEPT !.label = u]
  <2>2. r \in Row /\ r.label = u
    BY <1>t, <1>1, RowType DEF ReadForLabel, Row
  <2>3. \A c \in Create : callAt'[c] = callAt[c]
    BY <1>t, <1>1, Disjoint
       DEF ReadForLabel, Proceeds, RowTypeOK, AccountCall
  <2>4. /\ Turn(u) /\ Hold(u, r)
        /\ UNCHANGED <<row, sendRows, rowSetup, created, removed>>
    BY <1>1 DEF ReadForLabel
  <2> HIDE DEF r
  <2> QED BY <2>1, <2>2, <2>3, <2>4, ReadStep
<1>2. ASSUME NEW h \in SendBlocks, ReadForCache(h) PROVE Known'
  <2>1. h \in Writer /\ h \in Height /\ h \notin Update
    BY AccountRowsAssumption, Disjoint DEF Writer, Height
  <2>2. CASE row = None
    BY <1>2, <2>2, NothingWritten DEF ReadForCache
  <2>3. CASE row # None
    <3> DEFINE r == [row EXCEPT !.frontier = h, !.balance = BalanceAt[h]]
    <3>1. r \in Row /\ r.label = row.label
      BY <1>t, <2>1, <2>3, CachedType, RowType DEF Row
    <3>2. Hold(h, r) BY <1>2, <2>3 DEF ReadForCache
    <3> HIDE DEF r
    <3> QED BY <1>2, <2>1, <3>1, <3>2, ReadStep DEF ReadForCache
  <2> QED BY <2>2, <2>3
<1>3. ASSUME NEW w \in Worker, ReadForSync(w) PROVE Known'
  <2>1. w \in Writer /\ w \notin Update BY Disjoint DEF Writer
  <2>2. CASE held' = held
    BY <1>3, <2>2, NothingWritten DEF ReadForSync
  <2>3. CASE row # None /\ Hold(w, Synced(row, job[w].info))
    <3> DEFINE r == Synced(row, job[w].info)
    <3>0. job[w].info \in Height
      BY <1>t, <1>3 DEF ReadForSync, RowTypeOK, Job
    <3>1. r \in Row /\ r.label = row.label
      BY <1>t, <3>0, <2>3, CachedType, RowType DEF Row, Synced
    <3> HIDE DEF r
    <3>2. Hold(w, r) BY <2>3 DEF r
    <3> QED BY <1>3, <2>1, <3>1, <3>2, ReadStep DEF ReadForSync
  <2> QED BY <1>3, <2>2, <2>3 DEF ReadForSync
<1> QED BY <1>1, <1>2, <1>3

LEMMA WriteStep ==
    ASSUME RowIInv, NEW w \in Writer, Write(w)
    PROVE  Known'
<1> USE DEF memory, bounds
<1>t. RowTypeOK BY DEF RowIInv
<1>1. /\ UNCHANGED <<sendRows, rowSetup, created, removed>>
      /\ \A v \in Writer : held'[v] = IF v = w THEN None ELSE held[v]
      /\ row' # None <=> row # None
      /\ row # None => row'.id = row.id
  BY <1>t DEF Write, Hold, RowTypeOK
<1>2. \A c \in Create : callAt'[c] = "put" => callAt[c] = "put"
  BY <1>t DEF Write, Proceeds, RowTypeOK, AccountCall
<1>3. ~ rowSetup.shared => \A v \in Writer : held'[v] = None
  BY <1>1 DEF Write, RowIInv, OneWriter
<1> QED BY <1>1, <1>2, <1>3
           DEF Known, RowIInv, NoSendWithoutAccount, Answered, OneWriter,
               HolderKnows

LEMMA OtherStep ==
    ASSUME RowIInv,
           \/ \E s \in sendRows : PublishSend(s)
           \/ \E w \in Worker : \/ Restore(w) \/ Reconcile(w)
                               \/ AskNode(w) \/ Attach(w)
           \/ Pocket \/ Detach
    PROVE  Known'
<1>1. UNCHANGED <<row, sendRows, held, rowSetup, created, removed, callAt>>
  BY DEF PublishSend, Pocket, Detach, Restore,
         Reconcile, AskNode, Attach, Starts,
         Grow, RowFault, database, calls, memory,
         bounds
<1> QED BY <1>1, NothingWritten

LEMMA CrashStep ==
    ASSUME RowIInv, RowCrash
    PROVE  Known'
<1>1. /\ UNCHANGED <<row, sendRows, rowSetup, created, removed>>
      /\ \A w \in Writer : held'[w] = None
      /\ \A c \in Create : callAt'[c] # "put"
  BY DEF RowCrash, database, AccountCall
<1> QED BY <1>1
           DEF Known, RowIInv, NoSendWithoutAccount, Answered, OneWriter,
               HolderKnows

LEMMA RowPreserved ==
    RowIInv /\ [RowNext]_rowvars => RowIInv'
<1> SUFFICES ASSUME RowIInv, [RowNext]_rowvars PROVE RowIInv' OBVIOUS
<1>1. RowTypeOK' BY RowTypesStep DEF RowIInv
<1>2. CASE UNCHANGED rowvars
  BY <1>1, <1>2, NothingWritten
     DEF rowvars, database, calls, bounds, Known, RowIInv
<1>3. CASE RowNext
  <2>1. Known'
    BY <1>3, CreateStep, DeleteStep, RowSendStep, UpdateStep, WriteStep, OtherStep,
       CrashStep
       DEF RowNext, Syncing
  <2> QED BY <1>1, <2>1 DEF Known, RowIInv
<1> QED BY <1>2, <1>3

LEMMA Initially ==
    RowInit => RowIInv
<1> SUFFICES ASSUME RowInit PROVE RowIInv OBVIOUS
<1>1. \A c \in Create : callAt[c] = "idle" /\ created[c] = None
  BY DEF RowInit, AccountCall
<1>2. \A w \in Writer : held[w] = None BY DEF RowInit
<1>3. sendRows = {} BY DEF RowInit
<1> QED BY <1>1, <1>2, <1>3, InitialTypes
           DEF RowIInv, NoSendWithoutAccount, Answered, OneWriter, HolderKnows

(* A label changes only by the write of its own call.                      *)
LEMMA LabelStep ==
    ASSUME RowIInv, [RowNext]_rowvars, ~ rowSetup.shared, row # None,
           row' # None, row'.id = row.id, row'.label # row.label
    PROVE  \E u \in Update : held[u] # None /\ row'.label = u
<1> USE DEF database, calls, memory, bounds
<1>1. PICK w \in Writer : Write(w)
  BY DEF RowNext, Creating, LookupAccount, InsertAccount,
         AnswerCreated, NoRow, Deleting,
         CheckDelete, DeleteRow, AnswerDeleted,
         Queueing, FindSource, CreateSend, PublishSend,
         Grow, ReadForLabel, ReadForCache, Syncing,
         Restore, Reconcile, AskNode, ReadForSync,
         Attach, Starts, Pocket, Detach, RowCrash,
         At, rowvars
<1>2. held[w] # None /\ row' = held[w] /\ row.id = held[w].id
  BY <1>1 DEF Write
<1> QED BY <1>2 DEF RowIInv, HolderKnows

(* What the calls and the writers of an account know of its row stays true *)
(* until the row is deleted, whatever interleaves.                         *)
THEOREM RowInvariantHolds == RowSpec => []RowIInv
BY Initially, RowPreserved, PTL DEF RowSpec

(* Type correctness for any calls, workers, failures and crashes.          *)
THEOREM RowTypesHold == RowSpec => []RowTypeOK
BY RowInvariantHolds, PTL DEF RowIInv

(* However creations, deletions and sends overlap, in one process or more: *)
(* a queued send has its account.                                          *)
THEOREM SendsKeepAccount == RowSpec => []NoSendWithoutAccount
BY RowInvariantHolds, PTL DEF RowIInv

(* However calls for one accountKey overlap, they are answered with one    *)
(* account, and it is there until it is deleted.                           *)
THEOREM OneAccountPerKey == RowSpec => []OneAccount
<1>1. RowIInv => OneAccount BY DEF RowIInv, Answered, OneAccount
<1> QED BY <1>1, RowInvariantHolds, PTL

(* In one process no writer that has read the row before undoes a label.   *)
THEOREM LabelsAreKept == RowSpec => LabelsStay
<1>1. RowIInv /\ [RowNext]_rowvars =>
        [(/\ ~ rowSetup.shared /\ row # None /\ row' # None
          /\ row'.id = row.id /\ row'.label # row.label)
           => \E u \in Update : held[u] # None /\ row'.label = u]_rowvars
  BY LabelStep
<1> QED BY <1>1, RowInvariantHolds, PTL DEF RowSpec, LabelsStay
===============================================================================
