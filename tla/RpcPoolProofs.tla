---------------------------- MODULE RpcPoolProofs ----------------------------
(* Proofs about RpcPool, for every value of its constants.                 *)
EXTENDS RpcPool, FiniteSetTheorems, SequenceTheorems, TLAPS

(* What a semaphore and a call refer to is there.                          *)
PoolsFit ==
    /\ 1 <= Len(pools) /\ Len(pools) <= Len(Nodes) /\ Len(active) = Len(pools)
    /\ \A c \in Call :
        /\ call[c].pool \in 1..Len(pools)
        /\ call[c].at \in {"sent", "body"} => call[c].url \in Url

(* Who is in a queue waits for it, and is there once.                      *)
QueueFits(p) ==
    \A k, l \in 1..Len(pools[p].queue) :
        /\ call[pools[p].queue[k]].at = "waiting" /\ call[pools[p].queue[k]].pool = p
        /\ pools[p].queue[k] = pools[p].queue[l] => k = l

QueuesFit == \A p \in 1..Len(pools) : QueueFits(p)

HoldersAreFew == \A p \in 1..Len(pools) : IsFiniteSet(Holders(p))

(* An endpoint that cools down, or that a call has tried, has failed.      *)
FailuresAreKnown ==
    /\ \A p \in 1..Len(pools) : \A u \in pools[p].cooling : <<p, u>> \in failed
    /\ \A c \in Call : \A u \in call[c].tried : <<call[c].pool, u>> \in failed

IInv ==
    /\ TypeOK /\ PoolsFit /\ QueuesFit /\ HoldersAreFew /\ SlotsAreAccounted
    /\ FailuresAreKnown /\ OnlyFailuresExhaust

PoolRecord == [urls : SUBSET Url, running : Nat, queue : Seq(Call), cooling : SUBSET Url]
CallRecord == [at : {"idle", "waiting", "trying", "sent", "body", "next", "ended"},
               pool : Nat, step : Nat, url : Url \cup {None}, tried : SUBSET Url,
               result : {None, "ok", "none", "throws", "exhausted"}]

-------------------------------------------------------------------------------
(* The pools and the calls                                                 *)

LEMMA PoolTypes ==
    ASSUME TypeOK
    PROVE  /\ pools \in Seq(PoolRecord) /\ Len(pools) \in Nat
           /\ \A p \in 1..Len(pools) : pools[p] \in PoolRecord
           /\ call \in [Call -> CallRecord]
<1>1. pools \in Seq(PoolRecord) BY DEF TypeOK, PoolRecord
<1>2. call \in [Call -> CallRecord] BY DEF TypeOK, CallRecord
<1> QED BY <1>1, <1>2, ElementOfSeq, LenProperties

(* A semaphore has as many slots as its transport has endpoints.           *)
LEMMA SlotsType ==
    ASSUME TypeOK, PoolsFit, NEW p \in 1..Len(pools)
    PROVE  Slots(p) \in Nat
<1>1. Nodes \in Seq(SUBSET Url) BY PoolAssumption DEF TypeOK, Nodes
<1>2. Len(pools) \in Nat /\ Len(Nodes) \in Nat BY <1>1, PoolTypes, LenProperties
<1>3. p \in 1..Len(Nodes) BY <1>2 DEF PoolsFit
<1>4. Nodes[p] \subseteq Url BY <1>1, <1>3, ElementOfSeq
<1>5. IsFiniteSet(Nodes[p]) BY <1>4, PoolAssumption, FS_Subset
<1> QED BY <1>5, FS_CardinalityType DEF Slots

(* What is known of a call in a queue.                                     *)
LEMMA Queued ==
    ASSUME IInv, NEW p \in 1..Len(pools), NEW m \in 1..Len(pools[p].queue)
    PROVE  /\ pools[p].queue[m] \in Call
           /\ call[pools[p].queue[m]].at = "waiting" /\ call[pools[p].queue[m]].pool = p
           /\ \A l \in 1..Len(pools[p].queue) :
                  pools[p].queue[m] = pools[p].queue[l] => m = l
<1>1. pools[p].queue \in Seq(Call)
  <2>1. pools[p] \in PoolRecord BY PoolTypes DEF IInv
  <2> QED BY <2>1 DEF PoolRecord
<1>2. pools[p].queue[m] \in Call BY <1>1, ElementOfSeq
<1> QED BY <1>2 DEF IInv, QueuesFit, QueueFits

LEMMA QueuedOnce ==
    ASSUME IInv, NEW p \in 1..Len(pools)
    PROVE  \A m, l \in 1..Len(pools[p].queue) :
               pools[p].queue[m] = pools[p].queue[l] => m = l
BY Queued

(* A queue that is as it was, of calls that are.                           *)
LEMMA QueueKept ==
    ASSUME IInv, NEW p \in 1..Len(pools), pools'[p].queue = pools[p].queue,
           \A m \in 1..Len(pools[p].queue) :
               call'[pools[p].queue[m]] = call[pools[p].queue[m]]
    PROVE  QueueFits(p)'
<1> SUFFICES ASSUME NEW k \in 1..Len(pools[p].queue), NEW l \in 1..Len(pools[p].queue)
             PROVE  /\ call'[pools[p].queue[k]].at = "waiting"
                    /\ call'[pools[p].queue[k]].pool = p
                    /\ pools[p].queue[k] = pools[p].queue[l] => k = l
  BY DEF QueueFits
<1>1. call'[pools[p].queue[k]] = call[pools[p].queue[k]] OBVIOUS
<1> QED BY <1>1, Queued

LEMMA NewPoolType ==
    ASSUME setup \in Setup, NEW n \in 1..Len(Nodes)
    PROVE  NewPool(n) \in PoolRecord
<1>1. Nodes \in Seq(SUBSET Url) BY PoolAssumption DEF Nodes
<1>2. Nodes[n] \subseteq Url BY <1>1, ElementOfSeq
<1> QED BY <1>2, PoolAssumption DEF NewPool, PoolRecord, Urls

LEMMA NotCalledType == NotCalled \in CallRecord
BY DEF NotCalled, CallRecord

(* One pool of many becomes another.                                       *)
LEMMA PoolChanges ==
    ASSUME NEW s \in Seq(PoolRecord), NEW p \in 1..Len(s), NEW r \in PoolRecord
    PROVE  /\ [s EXCEPT ![p] = r] \in Seq(PoolRecord)
           /\ Len([s EXCEPT ![p] = r]) = Len(s)
           /\ \A q \in 1..Len(s) : [s EXCEPT ![p] = r][q] = IF q = p THEN r ELSE s[q]
BY ExceptSeq

-------------------------------------------------------------------------------
(* A slot is taken, or waited for                                          *)

LEMMA WaitingTypes ==
    ASSUME NEW c \in Call, NEW p \in Nat, NEW n \in Nat
    PROVE  /\ Trying(c, p, n) \in CallRecord /\ Trying(c, p, n).at = "trying"
           /\ Trying(c, p, n).pool = p /\ Trying(c, p, n).tried = {}
           /\ Trying(c, p, n).result = None
           /\ Waiting(c, p, n) \in CallRecord /\ Waiting(c, p, n).at = "waiting"
           /\ Waiting(c, p, n).pool = p /\ Waiting(c, p, n).tried = {}
           /\ Waiting(c, p, n).result = None
BY DEF Trying, Waiting, NotCalled, CallRecord

LEMMA SlotTaken ==
    ASSUME IInv, NEW c \in Call, NEW p \in 1..Len(pools), NEW n \in Nat,
           call[c].at \in {"idle", "next"}, Free(p), Acquire(c, p, n),
           UNCHANGED <<setup, active, failed, health, failures>>
    PROVE  IInv'
<1>t. /\ pools \in Seq(PoolRecord) /\ Len(pools) \in Nat /\ call \in [Call -> CallRecord]
      /\ \A q \in 1..Len(pools) : pools[q] \in PoolRecord /\ Slots(q) \in Nat
  BY PoolTypes, SlotsType DEF IInv
<1>1. PICK t : t = Trying(c, p, n) OBVIOUS
<1>2. /\ t \in CallRecord /\ t.at = "trying" /\ t.pool = p /\ t.tried = {}
      /\ t.result = None
  BY <1>t, <1>1, WaitingTypes
<1>3. PICK old : old = pools[p] OBVIOUS
<1>4. PICK r : r = [old EXCEPT !.running = @ + 1] OBVIOUS
<1>5. /\ r \in PoolRecord /\ r.running = old.running + 1 /\ r.queue = old.queue
      /\ r.cooling = old.cooling /\ r.urls = old.urls
  <2>1. old \in PoolRecord BY <1>t, <1>3
  <2> QED BY <1>4, <2>1 DEF PoolRecord
<1>6. pools' = [pools EXCEPT ![p] = r] /\ call' = [call EXCEPT ![c] = t]
  BY <1>1, <1>3, <1>4 DEF Acquire
<1>7. /\ pools' \in Seq(PoolRecord) /\ Len(pools') = Len(pools)
      /\ \A q \in 1..Len(pools) : pools'[q] = IF q = p THEN r ELSE pools[q]
  BY <1>t, <1>5, <1>6, PoolChanges
<1>8. call' \in [Call -> CallRecord] /\ \A d \in Call : call'[d] = IF d = c THEN t ELSE call[d]
  BY <1>t, <1>2, <1>6
<1>9. TypeOK' BY <1>7, <1>8 DEF IInv, TypeOK, PoolRecord, CallRecord, health
<1>10. PoolsFit' BY <1>2, <1>7, <1>8 DEF IInv, PoolsFit, Nodes
<1>11. \A q \in 1..Len(pools) : pools'[q].queue = pools[q].queue /\ pools'[q].urls = pools[q].urls
                               /\ pools'[q].cooling = pools[q].cooling
  BY <1>3, <1>5, <1>7
<1>12. QueuesFit'
  <2> SUFFICES ASSUME NEW q \in 1..Len(pools) PROVE QueueFits(q)'
    BY <1>7 DEF QueuesFit
  <2>1. ASSUME NEW m \in 1..Len(pools[q].queue)
        PROVE  call'[pools[q].queue[m]] = call[pools[q].queue[m]]
    <3>1. pools[q].queue[m] \in Call \ {c} BY Queued
    <3> QED BY <1>8, <3>1
  <2> QED BY <1>11, <2>1, QueueKept
<1>13. ASSUME NEW q \in 1..Len(pools)
       PROVE  Holders(q)' = IF q = p THEN Holders(p) \cup {c} ELSE Holders(q)
  BY <1>2, <1>8 DEF Holders
<1>14. c \notin Holders(p) BY DEF Holders
<1>15. HoldersAreFew'
  <2> SUFFICES ASSUME NEW q \in 1..Len(pools) PROVE IsFiniteSet(Holders(q)')
    BY <1>7 DEF HoldersAreFew
  <2>1. IsFiniteSet(Holders(p)) /\ IsFiniteSet(Holders(q)) BY DEF IInv, HoldersAreFew
  <2>2. IsFiniteSet(Holders(p) \cup {c}) BY <2>1, FS_AddElement
  <2> QED BY <1>13, <2>1, <2>2
<1>16. SlotsAreAccounted'
  <2> SUFFICES ASSUME NEW q \in 1..Len(pools)
               PROVE  /\ pools'[q].running = Cardinality(Holders(q)')
                      /\ pools'[q].running <= Slots(q)
                      /\ pools'[q].queue # << >> => pools'[q].running = Slots(q)
    BY <1>7 DEF SlotsAreAccounted, Current, Slots, Nodes
  <2>1. CASE q # p BY <1>7, <1>13, <2>1 DEF IInv, SlotsAreAccounted, Current
  <2>2. CASE q = p
    <3>1. Cardinality(Holders(q)') = Cardinality(Holders(p)) + 1
      BY <1>13, <1>14, <2>2, FS_AddElement DEF IInv, HoldersAreFew
    <3>2. pools[p].running \in Nat /\ pools[p].running < Slots(p) /\ Slots(p) \in Nat
      BY <1>t DEF PoolRecord, Free
    <3>3. /\ pools[p].running = Cardinality(Holders(p))
          /\ pools[p].queue # << >> => pools[p].running = Slots(p)
      BY DEF IInv, SlotsAreAccounted, Current
    <3> QED BY <1>3, <1>5, <1>7, <2>2, <3>1, <3>2, <3>3
  <2> QED BY <2>1, <2>2
<1>17. FailuresAreKnown' BY <1>2, <1>7, <1>8, <1>11 DEF IInv, FailuresAreKnown
<1>18. OnlyFailuresExhaust'
  <2> SUFFICES ASSUME NEW d \in Call, call'[d].result = "exhausted"
               PROVE  \A u \in pools'[call'[d].pool].urls : <<call'[d].pool, u>> \in failed
    BY DEF OnlyFailuresExhaust
  <2>1. d # c /\ call'[d] = call[d] BY <1>2, <1>8, PoolAssumption
  <2>2. call[d].pool \in 1..Len(pools) BY DEF IInv, PoolsFit
  <2> QED BY <1>11, <2>1, <2>2 DEF IInv, OnlyFailuresExhaust
<1> QED BY <1>9, <1>10, <1>12, <1>15, <1>16, <1>17, <1>18 DEF IInv

LEMMA SlotAwaited ==
    ASSUME IInv, NEW c \in Call, NEW p \in 1..Len(pools), NEW n \in Nat,
           call[c].at \in {"idle", "next"}, ~ Free(p), Acquire(c, p, n),
           UNCHANGED <<setup, active, failed, health, failures>>
    PROVE  IInv'
<1>t. /\ pools \in Seq(PoolRecord) /\ Len(pools) \in Nat /\ call \in [Call -> CallRecord]
      /\ \A q \in 1..Len(pools) : pools[q] \in PoolRecord /\ Slots(q) \in Nat
  BY PoolTypes, SlotsType DEF IInv
<1>1. PICK t : t = Waiting(c, p, n) OBVIOUS
<1>2. /\ t \in CallRecord /\ t.at = "waiting" /\ t.pool = p /\ t.tried = {}
      /\ t.result = None
  BY <1>t, <1>1, WaitingTypes
<1>3. PICK old : old = pools[p] OBVIOUS
<1>4. old \in PoolRecord /\ old.queue \in Seq(Call) BY <1>t, <1>3 DEF PoolRecord
<1>5. PICK line : line = Append(old.queue, c) OBVIOUS
<1>6. /\ line \in Seq(Call) /\ Len(line) = Len(old.queue) + 1 /\ Len(old.queue) \in Nat
      /\ \A k \in 1..Len(old.queue) : line[k] = old.queue[k] /\ old.queue[k] \in Call
      /\ line[Len(old.queue) + 1] = c
  BY <1>4, <1>5, AppendProperties, LenProperties, ElementOfSeq
<1>7. PICK r : r = [old EXCEPT !.queue = Append(@, c)] OBVIOUS
<1>8. /\ r \in PoolRecord /\ r.running = old.running /\ r.queue = line
      /\ r.cooling = old.cooling /\ r.urls = old.urls
  BY <1>4, <1>5, <1>6, <1>7 DEF PoolRecord
<1>9. pools' = [pools EXCEPT ![p] = r] /\ call' = [call EXCEPT ![c] = t]
  BY <1>1, <1>3, <1>7 DEF Acquire
<1>10. /\ pools' \in Seq(PoolRecord) /\ Len(pools') = Len(pools)
       /\ \A q \in 1..Len(pools) : pools'[q] = IF q = p THEN r ELSE pools[q]
  BY <1>t, <1>8, <1>9, PoolChanges
<1>11. call' \in [Call -> CallRecord] /\ \A d \in Call : call'[d] = IF d = c THEN t ELSE call[d]
  BY <1>t, <1>2, <1>9
<1>12. TypeOK' BY <1>10, <1>11 DEF IInv, TypeOK, PoolRecord, CallRecord, health
<1>13. PoolsFit' BY <1>2, <1>10, <1>11 DEF IInv, PoolsFit, Nodes
<1>14. \A q \in 1..Len(pools) : /\ pools'[q].running = pools[q].running
                                /\ pools'[q].urls = pools[q].urls
                                /\ pools'[q].cooling = pools[q].cooling
  BY <1>3, <1>8, <1>10
<1>15. QueuesFit'
  <2> SUFFICES ASSUME NEW q \in 1..Len(pools) PROVE QueueFits(q)'
    BY <1>10 DEF QueuesFit
  <2>1. ASSUME NEW m \in 1..Len(pools[q].queue)
        PROVE  /\ pools[q].queue[m] # c
               /\ call'[pools[q].queue[m]] = call[pools[q].queue[m]]
    <3>1. pools[q].queue[m] \in Call \ {c} BY Queued
    <3> QED BY <1>11, <3>1
  <2>2. CASE q # p
    <3>1. pools'[q] = pools[q] BY <1>10, <2>2
    <3> QED BY <2>1, <3>1, QueueKept
  <2>3. CASE q = p
    <3>1. pools'[q].queue = line /\ pools[q] = old BY <1>3, <1>8, <1>10, <2>3
    <3>2. ASSUME NEW m \in 1..Len(line)
          PROVE  /\ line[m] = IF m = Len(old.queue) + 1 THEN c ELSE old.queue[m]
                 /\ m # Len(old.queue) + 1 => m \in 1..Len(old.queue)
      BY <1>6
    <3>3. ASSUME NEW m \in 1..Len(line)
          PROVE  call'[line[m]].at = "waiting" /\ call'[line[m]].pool = q
      <4>1. CASE m = Len(old.queue) + 1 BY <1>2, <1>11, <2>3, <3>2, <4>1
      <4>2. CASE m # Len(old.queue) + 1
        <5>1. m \in 1..Len(pools[q].queue) /\ line[m] = pools[q].queue[m]
          BY <3>1, <3>2, <4>2
        <5>2. call'[line[m]] = call[pools[q].queue[m]] BY <2>1, <5>1
        <5> QED BY <5>1, <5>2, Queued
      <4> QED BY <4>1, <4>2
    <3>4. ASSUME NEW k \in 1..Len(line), NEW l \in 1..Len(line), line[k] = line[l]
          PROVE  k = l
      <4>1. CASE k = Len(old.queue) + 1
        <5>1. line[k] = c BY <3>2, <4>1
        <5>2. l # Len(old.queue) + 1 => line[l] # c BY <2>1, <3>1, <3>2
        <5> QED BY <3>4, <4>1, <5>1, <5>2
      <4>2. CASE l = Len(old.queue) + 1
        <5>1. line[l] = c BY <3>2, <4>2
        <5>2. k # Len(old.queue) + 1 => line[k] # c BY <2>1, <3>1, <3>2
        <5> QED BY <3>4, <4>2, <5>1, <5>2
      <4>3. CASE k # Len(old.queue) + 1 /\ l # Len(old.queue) + 1
        <5>1. /\ k \in 1..Len(pools[q].queue) /\ line[k] = pools[q].queue[k]
              /\ l \in 1..Len(pools[q].queue) /\ line[l] = pools[q].queue[l]
          BY <3>1, <3>2, <4>3
        <5>2. \A a, b \in 1..Len(pools[q].queue) :
                  pools[q].queue[a] = pools[q].queue[b] => a = b
          BY QueuedOnce
        <5> QED BY <3>4, <5>1, <5>2
      <4> QED BY <4>1, <4>2, <4>3
    <3> QED BY <3>1, <3>3, <3>4 DEF QueueFits
  <2> QED BY <2>2, <2>3
<1>16. ASSUME NEW q \in 1..Len(pools) PROVE Holders(q)' = Holders(q)
  BY <1>2, <1>11 DEF Holders
<1>17. HoldersAreFew' BY <1>10, <1>16 DEF IInv, HoldersAreFew
<1>18. SlotsAreAccounted'
  <2> SUFFICES ASSUME NEW q \in 1..Len(pools)
               PROVE  /\ pools'[q].running = Cardinality(Holders(q)')
                      /\ pools'[q].running <= Slots(q)
                      /\ pools'[q].queue # << >> => pools'[q].running = Slots(q)
    BY <1>10 DEF SlotsAreAccounted, Current, Slots, Nodes
  <2>1. pools[p].running = Slots(p)
    <3>1. pools[p].running \in Nat /\ Slots(p) \in Nat BY <1>t DEF PoolRecord
    <3> QED BY <3>1 DEF Free, IInv, SlotsAreAccounted, Current
  <2> QED BY <1>10, <1>14, <1>16, <2>1 DEF IInv, SlotsAreAccounted, Current
<1>19. FailuresAreKnown' BY <1>2, <1>10, <1>11, <1>14 DEF IInv, FailuresAreKnown
<1>20. OnlyFailuresExhaust'
  <2> SUFFICES ASSUME NEW d \in Call, call'[d].result = "exhausted"
               PROVE  \A u \in pools'[call'[d].pool].urls : <<call'[d].pool, u>> \in failed
    BY DEF OnlyFailuresExhaust
  <2>1. d # c /\ call'[d] = call[d] BY <1>2, <1>11, PoolAssumption
  <2>2. call[d].pool \in 1..Len(pools) BY DEF IInv, PoolsFit
  <2> QED BY <1>14, <2>1, <2>2 DEF IInv, OnlyFailuresExhaust
<1> QED BY <1>12, <1>13, <1>15, <1>17, <1>18, <1>19, <1>20 DEF IInv

LEMMA AcquireHolds ==
    ASSUME IInv, NEW c \in Call, NEW p \in 1..Len(pools), NEW n \in Nat,
           call[c].at \in {"idle", "next"}, Acquire(c, p, n),
           UNCHANGED <<setup, active, failed, health, failures>>
    PROVE  IInv'
BY SlotTaken, SlotAwaited

-------------------------------------------------------------------------------
(* A slot is handed on, or returned                                        *)

Spent(c, d) ==
    /\ d \in CallRecord /\ d.pool = call[c].pool /\ d.tried = {}
    /\ d.at \in {"next", "ended"}
    /\ d.result = "exhausted" =>
          \A u \in pools[d.pool].urls : <<d.pool, u>> \in failed

(* What holds of each pool's endpoints, and of each call's.                *)
LEMMA FailuresStayKnown ==
    ASSUME IInv, NEW c \in Call, NEW d, Spent(c, d), UNCHANGED failed,
           Len(pools') = Len(pools),
           \A q \in 1..Len(pools) : /\ pools'[q].urls = pools[q].urls
                                    /\ pools'[q].cooling = pools[q].cooling,
           \A e \in Call : \/ e = c /\ call'[e] = d
                           \/ /\ e # c /\ call'[e].pool = call[e].pool
                              /\ call'[e].tried = call[e].tried
                              /\ call'[e].result = call[e].result
    PROVE  FailuresAreKnown' /\ OnlyFailuresExhaust'
<1>1. call[c].pool \in 1..Len(pools) BY DEF IInv, PoolsFit
<1>2. FailuresAreKnown' BY DEF IInv, FailuresAreKnown, Spent
<1>3. OnlyFailuresExhaust'
  <2> SUFFICES ASSUME NEW e \in Call, call'[e].result = "exhausted"
               PROVE  \A u \in pools'[call'[e].pool].urls : <<call'[e].pool, u>> \in failed
    BY DEF OnlyFailuresExhaust
  <2>1. CASE e = c BY <1>1, <2>1 DEF Spent
  <2>2. CASE e # c
    <3>1. call[e].pool \in 1..Len(pools) BY DEF IInv, PoolsFit
    <3> QED BY <2>2, <3>1 DEF IInv, OnlyFailuresExhaust
  <2> QED BY <2>1, <2>2
<1> QED BY <1>2, <1>3

LEMMA SlotReturned ==
    ASSUME IInv, NEW c \in Call, NEW d, Spent(c, d),
           call[c].at \in {"trying", "body"}, Release(c, d),
           pools[call[c].pool].queue = << >>,
           active' \in Seq(Url \cup {None}), Len(active') = Len(active),
           UNCHANGED <<setup, failed, health, failures>>
    PROVE  IInv'
<1>t. /\ pools \in Seq(PoolRecord) /\ Len(pools) \in Nat /\ call \in [Call -> CallRecord]
      /\ \A q \in 1..Len(pools) : pools[q] \in PoolRecord /\ Slots(q) \in Nat
  BY PoolTypes, SlotsType DEF IInv
<1>1. PICK p \in 1..Len(pools) : p = call[c].pool BY DEF IInv, PoolsFit
<1>2. c \in Holders(p) BY <1>1 DEF Holders
<1>3. /\ IsFiniteSet(Holders(p)) /\ Cardinality(Holders(p)) \in Nat
      /\ pools[p].running = Cardinality(Holders(p))
      /\ Cardinality(Holders(p) \ {c}) = Cardinality(Holders(p)) - 1
      /\ Holders(p) # {}
  BY <1>2, FS_RemoveElement, FS_CardinalityType
  DEF IInv, HoldersAreFew, SlotsAreAccounted, Current
<1>4. pools[p].running - 1 \in Nat
  <2>1. Cardinality(Holders(p)) # 0 BY <1>3, FS_EmptySet
  <2> QED BY <1>3, <2>1
<1>5. PICK old : old = pools[p] OBVIOUS
<1>6. PICK r : r = [old EXCEPT !.running = @ - 1] OBVIOUS
<1>7. /\ r \in PoolRecord /\ r.running = old.running - 1 /\ r.queue = old.queue
      /\ r.cooling = old.cooling /\ r.urls = old.urls
  <2>1. old \in PoolRecord /\ old.running - 1 \in Nat BY <1>t, <1>4, <1>5
  <2> QED BY <1>6, <2>1 DEF PoolRecord
<1>8. pools' = [pools EXCEPT ![p] = r] /\ call' = [call EXCEPT ![c] = d]
  BY <1>1, <1>5, <1>6 DEF Release
<1>9. /\ pools' \in Seq(PoolRecord) /\ Len(pools') = Len(pools)
      /\ \A q \in 1..Len(pools) : pools'[q] = IF q = p THEN r ELSE pools[q]
  BY <1>t, <1>7, <1>8, PoolChanges
<1>10. /\ d \in CallRecord /\ d.pool = p /\ d.at \in {"next", "ended"}
  BY <1>1 DEF Spent
<1>11. call' \in [Call -> CallRecord] /\ \A e \in Call : call'[e] = IF e = c THEN d ELSE call[e]
  BY <1>t, <1>8, <1>10
<1>12. TypeOK' BY <1>9, <1>11 DEF IInv, TypeOK, PoolRecord, CallRecord, health
<1>13. PoolsFit' BY <1>9, <1>10, <1>11 DEF IInv, PoolsFit, Nodes
<1>14. \A q \in 1..Len(pools) : /\ pools'[q].queue = pools[q].queue
                                /\ pools'[q].urls = pools[q].urls
                                /\ pools'[q].cooling = pools[q].cooling
  BY <1>5, <1>7, <1>9
<1>15. QueuesFit'
  <2> SUFFICES ASSUME NEW q \in 1..Len(pools) PROVE QueueFits(q)'
    BY <1>9 DEF QueuesFit
  <2>1. ASSUME NEW m \in 1..Len(pools[q].queue)
        PROVE  call'[pools[q].queue[m]] = call[pools[q].queue[m]]
    <3>1. pools[q].queue[m] \in Call /\ call[pools[q].queue[m]].at = "waiting" BY Queued
    <3> QED BY <1>11, <3>1
  <2> QED BY <1>14, <2>1, QueueKept
<1>16. ASSUME NEW q \in 1..Len(pools)
       PROVE  Holders(q)' = IF q = p THEN Holders(p) \ {c} ELSE Holders(q)
  BY <1>1, <1>10, <1>11 DEF Holders
<1>17. HoldersAreFew'
  <2> SUFFICES ASSUME NEW q \in 1..Len(pools) PROVE IsFiniteSet(Holders(q)')
    BY <1>9 DEF HoldersAreFew
  <2>1. IsFiniteSet(Holders(p) \ {c}) BY <1>3, FS_RemoveElement
  <2> QED BY <1>16, <2>1 DEF IInv, HoldersAreFew
<1>18. SlotsAreAccounted'
  <2> SUFFICES ASSUME NEW q \in 1..Len(pools)
               PROVE  /\ pools'[q].running = Cardinality(Holders(q)')
                      /\ pools'[q].running <= Slots(q)
                      /\ pools'[q].queue # << >> => pools'[q].running = Slots(q)
    BY <1>9 DEF SlotsAreAccounted, Current, Slots, Nodes
  <2>1. CASE q # p BY <1>9, <1>16, <2>1 DEF IInv, SlotsAreAccounted, Current
  <2>2. CASE q = p
    <3>1. pools[p].running <= Slots(p) /\ Slots(p) \in Nat
      BY <1>t DEF IInv, SlotsAreAccounted, Current
    <3>2. pools'[q].running = pools[p].running - 1 /\ pools'[q].queue = << >>
      BY <1>1, <1>5, <1>7, <1>9, <1>14, <2>2
    <3>3. Cardinality(Holders(q)') = Cardinality(Holders(p)) - 1 BY <1>3, <1>16, <2>2
    <3>4. pools[p].running \in Nat /\ pools[p].running = Cardinality(Holders(p)) BY <1>3
    <3> QED BY <2>2, <3>1, <3>2, <3>3, <3>4
  <2> QED BY <2>1, <2>2
<1>19. FailuresAreKnown' /\ OnlyFailuresExhaust'
  BY <1>9, <1>11, <1>14, FailuresStayKnown
<1> QED BY <1>12, <1>13, <1>15, <1>17, <1>18, <1>19 DEF IInv

LEMMA SlotHandedOn ==
    ASSUME IInv, NEW c \in Call, NEW d, Spent(c, d),
           call[c].at \in {"trying", "body"}, Release(c, d),
           pools[call[c].pool].queue # << >>,
           active' \in Seq(Url \cup {None}), Len(active') = Len(active),
           UNCHANGED <<setup, failed, health, failures>>
    PROVE  IInv'
<1>t. /\ pools \in Seq(PoolRecord) /\ Len(pools) \in Nat /\ call \in [Call -> CallRecord]
      /\ \A q \in 1..Len(pools) : pools[q] \in PoolRecord /\ Slots(q) \in Nat
  BY PoolTypes, SlotsType DEF IInv
<1>1. PICK p \in 1..Len(pools) : p = call[c].pool BY DEF IInv, PoolsFit
<1>2. PICK old : old = pools[p] OBVIOUS
<1>3. old \in PoolRecord /\ old.queue \in Seq(Call) /\ old.queue # << >>
  BY <1>t, <1>1, <1>2 DEF PoolRecord
<1>4. PICK line, h : line = Tail(old.queue) /\ h = Head(old.queue) OBVIOUS
<1>5. /\ line \in Seq(Call) /\ Len(line) = Len(old.queue) - 1
      /\ Len(old.queue) \in Nat \ {0}
      /\ \A k \in 1..Len(line) : line[k] = old.queue[k + 1]
      /\ h = old.queue[1] /\ h \in Call
  BY <1>3, <1>4, HeadTailProperties, EmptySeq, LenProperties
<1>6. call[h].at = "waiting" /\ call[h].pool = p
  <2>1. 1 \in 1..Len(pools[p].queue) /\ h = pools[p].queue[1] BY <1>2, <1>5
  <2> QED BY <2>1, Queued
<1>7. h # c BY <1>6
<1>8. PICK r : r = [old EXCEPT !.queue = Tail(@)] OBVIOUS
<1>9. /\ r \in PoolRecord /\ r.running = old.running /\ r.queue = line
      /\ r.cooling = old.cooling /\ r.urls = old.urls
  BY <1>3, <1>4, <1>5, <1>8 DEF PoolRecord
<1>10. PICK was : was = call[h] OBVIOUS
<1>11. PICK now : now = [was EXCEPT !.at = "trying"] OBVIOUS
<1>12. /\ now \in CallRecord /\ now.at = "trying" /\ now.pool = p
       /\ now.tried = was.tried /\ now.result = was.result
  <2>1. was \in CallRecord /\ was.pool = p BY <1>t, <1>5, <1>6, <1>10
  <2> QED BY <1>11, <2>1 DEF CallRecord
<1>13. /\ pools' = [pools EXCEPT ![p] = r]
       /\ call' = [call EXCEPT ![h] = now, ![c] = d]
  BY <1>1, <1>2, <1>3, <1>4, <1>8, <1>10, <1>11 DEF Release
<1>14. /\ pools' \in Seq(PoolRecord) /\ Len(pools') = Len(pools)
       /\ \A q \in 1..Len(pools) : pools'[q] = IF q = p THEN r ELSE pools[q]
  BY <1>t, <1>9, <1>13, PoolChanges
<1>15. d \in CallRecord /\ d.pool = p /\ d.at \in {"next", "ended"}
  BY <1>1 DEF Spent
<1>16. /\ call' \in [Call -> CallRecord]
       /\ \A e \in Call : call'[e] = IF e = c THEN d ELSE IF e = h THEN now ELSE call[e]
  BY <1>t, <1>5, <1>7, <1>12, <1>13, <1>15
<1>17. TypeOK' BY <1>14, <1>16 DEF IInv, TypeOK, PoolRecord, CallRecord, health
<1>18. PoolsFit' BY <1>12, <1>14, <1>15, <1>16 DEF IInv, PoolsFit, Nodes
<1>19. \A q \in 1..Len(pools) : /\ pools'[q].running = pools[q].running
                                /\ pools'[q].urls = pools[q].urls
                                /\ pools'[q].cooling = pools[q].cooling
  BY <1>2, <1>9, <1>14
<1>20. QueuesFit'
  <2> SUFFICES ASSUME NEW q \in 1..Len(pools) PROVE QueueFits(q)'
    BY <1>14 DEF QueuesFit
  <2>1. ASSUME NEW m \in 1..Len(pools[q].queue)
        PROVE  /\ pools[q].queue[m] \in Call \ {c}
               /\ call[pools[q].queue[m]].at = "waiting" /\ call[pools[q].queue[m]].pool = q
    BY Queued
  <2>2. CASE q # p
    <3>1. pools'[q] = pools[q] BY <1>14, <2>2
    <3>2. ASSUME NEW m \in 1..Len(pools[q].queue)
          PROVE  call'[pools[q].queue[m]] = call[pools[q].queue[m]]
      <4>1. pools[q].queue[m] # h BY <1>6, <2>1, <2>2
      <4> QED BY <1>16, <2>1, <4>1
    <3> QED BY <3>1, <3>2, QueueKept
  <2>3. CASE q = p
    <3>1. pools'[q].queue = line /\ pools[q] = old BY <1>2, <1>9, <1>14, <2>3
    <3>2. ASSUME NEW m \in 1..Len(line)
          PROVE  /\ line[m] = pools[q].queue[m + 1] /\ m + 1 # 1
                 /\ m + 1 \in 1..Len(pools[q].queue) /\ 1 \in 1..Len(pools[q].queue)
      <4>1. PICK n : n = Len(old.queue) OBVIOUS
      <4>2. n \in Nat \ {0} /\ Len(line) = n - 1 BY <1>5, <4>1
      <4>3. m + 1 # 1 /\ m + 1 \in 1..n /\ 1 \in 1..n BY <4>2
      <4>4. line[m] = old.queue[m + 1] BY <1>5
      <4> QED BY <3>1, <4>1, <4>3, <4>4
    <3>3. ASSUME NEW m \in 1..Len(line)
          PROVE  call'[line[m]].at = "waiting" /\ call'[line[m]].pool = q
      <4>1. line[m] # pools[q].queue[1]
        <5>1. \A a, b \in 1..Len(pools[q].queue) :
                  pools[q].queue[a] = pools[q].queue[b] => a = b
          BY QueuedOnce
        <5> QED BY <3>2, <5>1
      <4>2. h = pools[q].queue[1] BY <1>5, <3>1
      <4>4. /\ line[m] \in Call \ {c}
            /\ call[line[m]].at = "waiting" /\ call[line[m]].pool = q
        BY <2>1, <3>2
      <4>3. call'[line[m]] = call[line[m]] BY <1>16, <4>1, <4>2, <4>4
      <4> QED BY <4>3, <4>4
    <3>4. ASSUME NEW k \in 1..Len(line), NEW l \in 1..Len(line), line[k] = line[l]
          PROVE  k = l
      <4>1. k + 1 = l + 1
        <5>1. /\ k + 1 \in 1..Len(pools[q].queue) /\ l + 1 \in 1..Len(pools[q].queue)
              /\ pools[q].queue[k + 1] = pools[q].queue[l + 1]
          BY <3>2, <3>4
        <5>2. \A a, b \in 1..Len(pools[q].queue) :
                  pools[q].queue[a] = pools[q].queue[b] => a = b
          BY QueuedOnce
        <5> QED BY <5>1, <5>2
      <4> QED BY <4>1
    <3> QED BY <3>1, <3>3, <3>4 DEF QueueFits
  <2> QED BY <2>2, <2>3
<1>21. ASSUME NEW q \in 1..Len(pools)
       PROVE  Holders(q)' = IF q = p THEN (Holders(p) \ {c}) \cup {h} ELSE Holders(q)
  BY <1>1, <1>5, <1>6, <1>7, <1>12, <1>15, <1>16 DEF Holders
<1>22. /\ IsFiniteSet((Holders(p) \ {c}) \cup {h})
       /\ Cardinality((Holders(p) \ {c}) \cup {h}) = Cardinality(Holders(p))
  <2>1. IsFiniteSet(Holders(p)) BY DEF IInv, HoldersAreFew
  <2>2. c \in Holders(p) /\ h \notin Holders(p) \ {c} BY <1>1, <1>6 DEF Holders
  <2>3. /\ IsFiniteSet(Holders(p) \ {c})
        /\ Cardinality(Holders(p) \ {c}) = Cardinality(Holders(p)) - 1
        /\ Cardinality(Holders(p)) \in Nat
    BY <2>1, <2>2, FS_RemoveElement, FS_CardinalityType
  <2>4. /\ IsFiniteSet((Holders(p) \ {c}) \cup {h})
        /\ Cardinality((Holders(p) \ {c}) \cup {h}) = Cardinality(Holders(p) \ {c}) + 1
    BY <2>2, <2>3, FS_AddElement
  <2> QED BY <2>3, <2>4
<1>23. HoldersAreFew' BY <1>14, <1>21, <1>22 DEF IInv, HoldersAreFew
<1>24. SlotsAreAccounted'
  <2> SUFFICES ASSUME NEW q \in 1..Len(pools)
               PROVE  /\ pools'[q].running = Cardinality(Holders(q)')
                      /\ pools'[q].running <= Slots(q)
                      /\ pools'[q].queue # << >> => pools'[q].running = Slots(q)
    BY <1>14 DEF SlotsAreAccounted, Current, Slots, Nodes
  <2>1. CASE q # p BY <1>14, <1>21, <2>1 DEF IInv, SlotsAreAccounted, Current
  <2>2. CASE q = p
    BY <1>1, <1>19, <1>21, <1>22, <2>2 DEF IInv, SlotsAreAccounted, Current
  <2> QED BY <2>1, <2>2
<1>25. FailuresAreKnown' /\ OnlyFailuresExhaust'
  BY <1>6, <1>10, <1>12, <1>14, <1>16, <1>19, FailuresStayKnown
<1> QED BY <1>17, <1>18, <1>20, <1>23, <1>24, <1>25 DEF IInv

LEMMA ReleaseHolds ==
    ASSUME IInv, NEW c \in Call, NEW d, Spent(c, d),
           call[c].at \in {"trying", "body"}, Release(c, d),
           active' \in Seq(Url \cup {None}), Len(active') = Len(active),
           UNCHANGED <<setup, failed, health, failures>>
    PROVE  IInv'
BY SlotReturned, SlotHandedOn

-------------------------------------------------------------------------------
(* The steps of a call                                                     *)

LEMMA ToldType ==
    ASSUME IInv, NEW c \in Call, NEW status, NEW u \in Url \cup {None},
           Tell(call[c].pool, status, u) \/ UNCHANGED <<active, state>>
    PROVE  active' \in Seq(Url \cup {None}) /\ Len(active') = Len(active)
<1>1. active \in Seq(Url \cup {None}) /\ call[c].pool \in 1..Len(active)
  BY DEF IInv, TypeOK, PoolsFit
<1> QED BY <1>1, ExceptSeq DEF Tell

LEMMA MeaningType ==
    ASSUME NEW c \in Call, NEW step \in Nat, NEW answer \in Answers
    PROVE  Meaning(c, step, answer) \in {"again", "ok", "none", "throws"}
BY DEF Meaning, Answers, HealthCheck, AccountInfo, AccountsReceivable,
       AccountsReceivableBatch, AccountHistory, BlockInfo, Process, Strict,
       Lenient, Lookup

LEMMA AfterFits ==
    ASSUME IInv, NEW c \in Call, NEW answer \in Answers
    PROVE  Spent(c, After(c, answer))
<1>1. call[c] \in CallRecord BY PoolTypes DEF IInv
<1>2. call[c].pool \in Nat /\ call[c].step + 1 \in Nat BY <1>1 DEF CallRecord
<1>3. Meaning(c, call[c].step, answer) \in {"again", "ok", "none", "throws"}
  BY <1>1, MeaningType DEF CallRecord
<1>4. PICK m : m = Meaning(c, call[c].step, answer) OBVIOUS
<1> QED BY <1>2, <1>3, <1>4, PoolAssumption
        DEF After, Ended, Spent, NotCalled, CallRecord

LEMMA AnswerHolds ==
    ASSUME IInv, NEW c \in Call, Answer(c)
    PROVE  IInv'
<1>1. call[c].at = "body" /\ UNCHANGED <<setup, failed, health, failures>>
  BY DEF Answer
<1>2. call[c].url \in Url BY <1>1 DEF IInv, PoolsFit
<1>3. PICK answer \in Answers : Release(c, After(c, answer)) BY DEF Answer
<1>4. active' \in Seq(Url \cup {None}) /\ Len(active') = Len(active)
  <2>1. \E status : \/ Tell(call[c].pool, status, call[c].url)
                    \/ UNCHANGED <<active, state>>
    BY DEF Answer
  <2> QED BY <1>2, <2>1, ToldType
<1> QED BY <1>1, <1>3, <1>4, AfterFits, ReleaseHolds

LEMMA ExhaustHolds ==
    ASSUME IInv, NEW c \in Call, Exhaust(c)
    PROVE  IInv'
<1>1. /\ call[c].at = "trying" /\ UNCHANGED <<setup, failed, health, failures>>
      /\ Release(c, Ended(c, "exhausted")) /\ Usable(c) = {}
  BY DEF Exhaust
<1>2. active' \in Seq(Url \cup {None}) /\ Len(active') = Len(active)
  BY ToldType DEF Exhaust
<1>3. call[c] \in CallRecord BY PoolTypes DEF IInv
<1>4. /\ Ended(c, "exhausted") \in CallRecord
      /\ Ended(c, "exhausted").pool = call[c].pool
      /\ Ended(c, "exhausted").tried = {} /\ Ended(c, "exhausted").at = "ended"
  BY <1>3 DEF Ended, NotCalled, CallRecord
<1>5. \A u \in pools[call[c].pool].urls : <<call[c].pool, u>> \in failed
  <2>1. call[c].pool \in 1..Len(pools) BY DEF IInv, PoolsFit
  <2>2. \A u \in pools[call[c].pool].urls :
            u \in pools[call[c].pool].cooling \/ u \in call[c].tried
    BY <1>1 DEF Usable
  <2> QED BY <2>1, <2>2 DEF IInv, FailuresAreKnown
<1>6. Spent(c, Ended(c, "exhausted")) BY <1>4, <1>5 DEF Spent
<1> QED BY <1>1, <1>2, <1>6, ReleaseHolds

(* A call goes on with the slot it has.                                    *)
LEMMA KeepsSlot ==
    ASSUME IInv, NEW c \in Call, NEW t \in CallRecord,
           call[c].at \in {"trying", "sent", "body"}, t.at \in {"trying", "sent", "body"},
           t.pool = call[c].pool, t.result = call[c].result,
           t.at \in {"sent", "body"} => t.url \in Url,
           call' = [call EXCEPT ![c] = t],
           pools' \in Seq(PoolRecord), Len(pools') = Len(pools),
           \A q \in 1..Len(pools) : /\ pools'[q].running = pools[q].running
                                    /\ pools'[q].queue = pools[q].queue
                                    /\ pools'[q].urls = pools[q].urls,
           failed \subseteq failed', failed' \subseteq Nat \X Url,
           \A q \in 1..Len(pools) : \A u \in pools'[q].cooling : <<q, u>> \in failed',
           \A u \in t.tried : <<t.pool, u>> \in failed',
           failures' \in 0..MaxFailures,
           UNCHANGED <<setup, active, health>>
    PROVE  IInv'
<1>t. call \in [Call -> CallRecord] BY PoolTypes DEF IInv
<1>1. call' \in [Call -> CallRecord] /\ \A e \in Call : call'[e] = IF e = c THEN t ELSE call[e]
  BY <1>t
<1>2. TypeOK' BY <1>1 DEF IInv, TypeOK, PoolRecord, CallRecord, health
<1>3. PoolsFit' BY <1>1 DEF IInv, PoolsFit, Nodes
<1>4. QueuesFit'
  <2> SUFFICES ASSUME NEW q \in 1..Len(pools) PROVE QueueFits(q)'
    BY DEF QueuesFit
  <2>1. ASSUME NEW m \in 1..Len(pools[q].queue)
        PROVE  call'[pools[q].queue[m]] = call[pools[q].queue[m]]
    <3>1. pools[q].queue[m] \in Call /\ call[pools[q].queue[m]].at = "waiting" BY Queued
    <3> QED BY <1>1, <3>1
  <2> QED BY <2>1, QueueKept
<1>5. ASSUME NEW q \in 1..Len(pools) PROVE Holders(q)' = Holders(q)
  BY <1>1 DEF Holders
<1>6. HoldersAreFew' BY <1>5 DEF IInv, HoldersAreFew
<1>7. SlotsAreAccounted' BY <1>5 DEF IInv, SlotsAreAccounted, Current, Slots, Nodes
<1>8. FailuresAreKnown' BY <1>1 DEF IInv, FailuresAreKnown
<1>9. OnlyFailuresExhaust'
  <2> SUFFICES ASSUME NEW e \in Call, call'[e].result = "exhausted"
               PROVE  \A u \in pools'[call'[e].pool].urls : <<call'[e].pool, u>> \in failed'
    BY DEF OnlyFailuresExhaust
  <2>1. call[e].pool \in 1..Len(pools) BY DEF IInv, PoolsFit
  <2>2. call'[e].pool = call[e].pool /\ call'[e].result = call[e].result BY <1>1
  <2> QED BY <2>1, <2>2 DEF IInv, OnlyFailuresExhaust
<1> QED BY <1>2, <1>3, <1>4, <1>6, <1>7, <1>8, <1>9 DEF IInv

LEMMA SendHolds ==
    ASSUME IInv, NEW c \in Call, Send(c) \/ Respond(c)
    PROVE  IInv'
<1>1. PICK was : was = call[c] OBVIOUS
<1>2. was \in CallRecord /\ was.at \in {"trying", "sent"}
  <2>1. was \in CallRecord BY <1>1, PoolTypes DEF IInv
  <2> QED BY <1>1, <2>1 DEF Send, Respond
<1>3. PICK t \in CallRecord :
        /\ call' = [call EXCEPT ![c] = t]
        /\ t.at \in {"sent", "body"} /\ t.pool = was.pool /\ t.tried = was.tried
        /\ t.result = was.result /\ t.url \in Url
  <2>1. CASE Send(c)
    <3>1. PICK u \in Usable(c) : call' = [call EXCEPT ![c].at = "sent", ![c].url = u]
      BY <2>1 DEF Send
    <3>2. u \in Url
      <4>1. pools[call[c].pool] \in PoolRecord BY PoolTypes DEF IInv, PoolsFit
      <4> QED BY <4>1 DEF Usable, PoolRecord
    <3>3. PICK t : t = [was EXCEPT !.at = "sent", !.url = u] OBVIOUS
    <3>4. /\ t \in CallRecord /\ t.at = "sent" /\ t.pool = was.pool /\ t.url = u
          /\ t.tried = was.tried /\ t.result = was.result
      BY <1>2, <3>2, <3>3 DEF CallRecord
    <3>5. call' = [call EXCEPT ![c] = t]
      <4>1. call \in [Call -> CallRecord] BY PoolTypes DEF IInv
      <4> QED BY <1>1, <3>1, <3>3, <4>1
    <3> QED BY <3>2, <3>4, <3>5
  <2>2. CASE Respond(c)
    <3>1. was.at = "sent" /\ call' = [call EXCEPT ![c].at = "body"]
      BY <1>1, <2>2 DEF Respond
    <3>2. was.url \in Url BY <1>1, <3>1 DEF IInv, PoolsFit
    <3>3. PICK t : t = [was EXCEPT !.at = "body"] OBVIOUS
    <3>4. /\ t \in CallRecord /\ t.at = "body" /\ t.pool = was.pool /\ t.url = was.url
          /\ t.tried = was.tried /\ t.result = was.result
      BY <1>2, <3>3 DEF CallRecord
    <3>5. call' = [call EXCEPT ![c] = t] BY <1>1, <3>1, <3>3
    <3> QED BY <3>2, <3>4, <3>5
  <2> QED BY <2>1, <2>2
<1>4. pools \in Seq(PoolRecord) /\ UNCHANGED <<setup, pools, active, failed, health, failures>>
  BY PoolTypes DEF IInv, Send, Respond
<1>5. failed \subseteq Nat \X Url /\ failures \in 0..MaxFailures BY DEF IInv, TypeOK
<1> QED BY <1>1, <1>2, <1>3, <1>4, <1>5, KeepsSlot DEF IInv, FailuresAreKnown

LEMMA FailHolds ==
    ASSUME IInv, NEW c \in Call, Fail(c)
    PROVE  IInv'
<1>t. /\ pools \in Seq(PoolRecord) /\ Len(pools) \in Nat
      /\ \A q \in 1..Len(pools) : pools[q] \in PoolRecord
  BY PoolTypes DEF IInv
<1>1. PICK p \in 1..Len(pools) : p = call[c].pool BY DEF IInv, PoolsFit
<1>2. PICK u \in Url : u = call[c].url BY DEF Fail, IInv, PoolsFit
<1>3. PICK was : was = call[c] OBVIOUS
<1>4. PICK t : t = [was EXCEPT !.at = "trying", !.url = None, !.tried = @ \cup {u}]
  OBVIOUS
<1>5. /\ t \in CallRecord /\ t.at = "trying" /\ t.pool = p /\ t.result = was.result
      /\ t.tried = was.tried \cup {u} /\ was.pool = p
  <2>1. was \in CallRecord /\ was.pool = p BY <1>1, <1>3, PoolTypes DEF IInv
  <2> QED BY <1>4, <2>1 DEF CallRecord
<1>6. call' = [call EXCEPT ![c] = t] BY <1>2, <1>3, <1>4 DEF Fail
<1>7. PICK old : old = pools[p] OBVIOUS
<1>8. PICK r : r = [old EXCEPT !.cooling = @ \cup {u}] OBVIOUS
<1>9. /\ r \in PoolRecord /\ r.running = old.running /\ r.queue = old.queue
      /\ r.urls = old.urls /\ r.cooling = old.cooling \cup {u}
  <2>1. old \in PoolRecord BY <1>t, <1>7
  <2> QED BY <1>8, <2>1 DEF PoolRecord
<1>10. pools' = [pools EXCEPT ![p] = r] BY <1>1, <1>2, <1>7, <1>8 DEF Fail
<1>11. /\ pools' \in Seq(PoolRecord) /\ Len(pools') = Len(pools)
       /\ \A q \in 1..Len(pools) : pools'[q] = IF q = p THEN r ELSE pools[q]
  BY <1>t, <1>9, <1>10, PoolChanges
<1>12. failed' = failed \cup {<<p, u>>} /\ UNCHANGED <<setup, active, health>>
  BY <1>1, <1>2 DEF Fail
<1>13. failed' \subseteq Nat \X Url
  <2>1. failed \subseteq Nat \X Url BY DEF IInv, TypeOK
  <2>2. <<p, u>> \in Nat \X Url BY <1>t
  <2> QED BY <1>12, <2>1, <2>2
<1>14. failures' \in 0..MaxFailures
  BY PoolAssumption DEF Fail, Fault, IInv, TypeOK
<1>15. \A q \in 1..Len(pools) : \A v \in pools'[q].cooling : <<q, v>> \in failed'
  BY <1>7, <1>9, <1>11, <1>12 DEF IInv, FailuresAreKnown
<1>16. \A v \in t.tried : <<t.pool, v>> \in failed'
  BY <1>1, <1>3, <1>5, <1>12 DEF IInv, FailuresAreKnown
<1>17. \A q \in 1..Len(pools) : /\ pools'[q].running = pools[q].running
                                /\ pools'[q].queue = pools[q].queue
                                /\ pools'[q].urls = pools[q].urls
  BY <1>7, <1>9, <1>11
<1>18. call[c].at \in {"trying", "sent", "body"} BY DEF Fail
<1>19. t.pool = call[c].pool /\ t.result = call[c].result BY <1>1, <1>3, <1>5
<1> QED
  BY <1>5, <1>6, <1>11, <1>12, <1>13, <1>14, <1>15, <1>16, <1>17, <1>18, <1>19,
     KeepsSlot

LEMMA BeginHolds ==
    ASSUME IInv, NEW c \in Call, Start(c) \/ Continue(c)
    PROVE  IInv'
<1>1. CASE Start(c)
  <2>1. PICK p \in 1..Len(pools) : Acquire(c, p, 1) BY <1>1 DEF Start, Current
  <2>2. call[c].at \in {"idle", "next"} /\ 1 \in Nat BY <1>1 DEF Start
  <2>3. UNCHANGED <<setup, active, failed, health, failures>> BY <1>1 DEF Start
  <2> QED BY <2>1, <2>2, <2>3, AcquireHolds
<1>2. CASE Continue(c)
  <2>1. call[c].pool \in 1..Len(pools) BY DEF IInv, PoolsFit
  <2>2. call[c].step \in Nat
    <3>1. call[c] \in CallRecord BY PoolTypes DEF IInv
    <3> QED BY <3>1 DEF CallRecord
  <2>3. /\ Acquire(c, call[c].pool, call[c].step) /\ call[c].at \in {"idle", "next"}
        /\ UNCHANGED <<setup, active, failed, health, failures>>
    BY <1>2 DEF Continue
  <2> QED BY <2>1, <2>2, <2>3, AcquireHolds
<1> QED BY <1>1, <1>2

-------------------------------------------------------------------------------
(* The steps around the calls                                              *)

LEMMA WarmHolds ==
    ASSUME IInv, NEW p \in 1..Current, Warm(p)
    PROVE  IInv'
<1>t. /\ pools \in Seq(PoolRecord) /\ Len(pools) \in Nat /\ p \in 1..Len(pools)
      /\ \A q \in 1..Len(pools) : pools[q] \in PoolRecord
  BY PoolTypes DEF IInv, Current
<1>1. PICK u \in pools[p].cooling : pools' = [pools EXCEPT ![p].cooling = @ \ {u}]
  BY DEF Warm
<1>2. PICK old : old = pools[p] OBVIOUS
<1>3. PICK r : r = [old EXCEPT !.cooling = @ \ {u}] OBVIOUS
<1>4. /\ r \in PoolRecord /\ r.running = old.running /\ r.queue = old.queue
      /\ r.urls = old.urls /\ r.cooling \subseteq old.cooling
  <2>1. old \in PoolRecord BY <1>t, <1>2
  <2> QED BY <1>3, <2>1 DEF PoolRecord
<1>5. pools' = [pools EXCEPT ![p] = r] BY <1>1, <1>2, <1>3
<1>6. /\ pools' \in Seq(PoolRecord) /\ Len(pools') = Len(pools)
      /\ \A q \in 1..Len(pools) : pools'[q] = IF q = p THEN r ELSE pools[q]
  BY <1>t, <1>4, <1>5, PoolChanges
<1>7. \A q \in 1..Len(pools) : /\ pools'[q].running = pools[q].running
                               /\ pools'[q].queue = pools[q].queue
                               /\ pools'[q].urls = pools[q].urls
                               /\ pools'[q].cooling \subseteq pools[q].cooling
  BY <1>2, <1>4, <1>6
<1>8. UNCHANGED <<setup, call, active, failed, health, failures>> BY DEF Warm
<1>9. TypeOK' BY <1>6, <1>8 DEF IInv, TypeOK, PoolRecord, health
<1>10. PoolsFit' BY <1>6, <1>8 DEF IInv, PoolsFit, Nodes
<1>11. QueuesFit' BY <1>6, <1>7, <1>8 DEF IInv, QueuesFit, QueueFits
<1>12. ASSUME NEW q PROVE Holders(q)' = Holders(q) BY <1>8 DEF Holders
<1>13. HoldersAreFew' BY <1>6, <1>12 DEF IInv, HoldersAreFew
<1>14. SlotsAreAccounted'
  BY <1>6, <1>7, <1>8, <1>12 DEF IInv, SlotsAreAccounted, Current, Slots, Nodes
<1>15. FailuresAreKnown' BY <1>6, <1>7, <1>8 DEF IInv, FailuresAreKnown
<1>16. OnlyFailuresExhaust'
  BY <1>7, <1>8 DEF IInv, OnlyFailuresExhaust, PoolsFit
<1> QED BY <1>9, <1>10, <1>11, <1>13, <1>14, <1>15, <1>16 DEF IInv

LEMMA RefreshHolds == ASSUME IInv, Refresh PROVE IInv'
<1>t. /\ pools \in Seq(PoolRecord) /\ Len(pools) \in Nat
      /\ \A q \in 1..Len(pools) : pools[q] \in PoolRecord
  BY PoolTypes DEF IInv
<1>n. Nodes \in Seq(SUBSET Url) /\ Len(Nodes) \in Nat
  <2>1. Nodes \in Seq(SUBSET Url) BY PoolAssumption DEF IInv, TypeOK, Nodes
  <2> QED BY <2>1, LenProperties
<1>1. PICK n : n = Len(pools) + 1 OBVIOUS
<1>2. n \in 1..Len(Nodes) BY <1>t, <1>n, <1>1 DEF Refresh, Current
<1>3. PICK r : r = NewPool(n) OBVIOUS
<1>4. /\ r \in PoolRecord /\ r.running = 0 /\ r.queue = << >> /\ r.cooling = {}
  BY <1>2, <1>3, NewPoolType DEF NewPool, IInv, TypeOK
<1>5. pools' = Append(pools, r) /\ active' = Append(active, None)
  BY <1>1, <1>3 DEF Refresh, Current
<1>6. /\ pools' \in Seq(PoolRecord) /\ Len(pools') = n
      /\ \A q \in 1..Len(pools) : pools'[q] = pools[q]
      /\ pools'[n] = r
  BY <1>t, <1>1, <1>4, <1>5, AppendProperties
<1>7. active' \in Seq(Url \cup {None}) /\ Len(active') = n
  <2>1. active \in Seq(Url \cup {None}) /\ Len(active) = Len(pools)
    BY DEF IInv, TypeOK, PoolsFit
  <2> QED BY <1>1, <1>5, <2>1, AppendProperties
<1>8. UNCHANGED <<setup, call, failed, probe, asker, failures>>
      /\ cache' = [cache EXCEPT !.fresh = FALSE]
  BY DEF Refresh
<1>9. \A q \in 1..n : q = n \/ q \in 1..Len(pools) BY <1>t, <1>1
<1>10. TypeOK' BY <1>6, <1>7, <1>8 DEF IInv, TypeOK, PoolRecord
<1>11. PoolsFit'
  BY <1>t, <1>1, <1>2, <1>6, <1>7, <1>8 DEF IInv, PoolsFit, Nodes
<1>12. QueuesFit'
  <2> SUFFICES ASSUME NEW q \in 1..n PROVE QueueFits(q)' BY <1>6 DEF QueuesFit
  <2>1. CASE q = n
    <3>1. pools'[q].queue = << >> BY <1>4, <1>6, <2>1
    <3> QED BY <3>1, EmptySeq DEF QueueFits
  <2>2. CASE q # n
    <3>1. q \in 1..Len(pools) /\ pools'[q] = pools[q] BY <1>6, <1>9, <2>2
    <3> QED BY <1>8, <3>1, QueueKept
  <2> QED BY <2>1, <2>2
<1>13. ASSUME NEW q PROVE Holders(q)' = Holders(q) BY <1>8 DEF Holders
<1>14. Holders(n) = {} BY <1>t, <1>1 DEF Holders, IInv, PoolsFit
<1>15. HoldersAreFew'
  BY <1>6, <1>9, <1>13, <1>14, FS_EmptySet DEF IInv, HoldersAreFew
<1>16. SlotsAreAccounted'
  <2>1. Slots(n) \in Nat
    <3>1. IsFiniteSet(Nodes[n])
      BY <1>n, <1>2, ElementOfSeq, PoolAssumption, FS_Subset
    <3> QED BY <3>1, FS_CardinalityType DEF Slots
  <2>2. \A q \in 1..n : Slots(q)' = Slots(q) BY <1>8 DEF Slots, Nodes
  <2>3. Cardinality(Holders(n)) = 0 BY <1>14, FS_EmptySet
  <2> SUFFICES ASSUME NEW q \in 1..n
               PROVE  /\ pools'[q].running = Cardinality(Holders(q))
                      /\ pools'[q].running <= Slots(q)
                      /\ pools'[q].queue # << >> => pools'[q].running = Slots(q)
    BY <1>6, <1>13, <2>2 DEF SlotsAreAccounted, Current
  <2>4. CASE q = n BY <1>4, <1>6, <2>1, <2>3, <2>4
  <2>5. CASE q # n BY <1>6, <1>9, <2>5 DEF IInv, SlotsAreAccounted, Current
  <2> QED BY <2>4, <2>5
<1>17. FailuresAreKnown' BY <1>4, <1>6, <1>8, <1>9 DEF IInv, FailuresAreKnown
<1>18. OnlyFailuresExhaust'
  BY <1>6, <1>8 DEF IInv, OnlyFailuresExhaust, PoolsFit
<1> QED BY <1>10, <1>11, <1>12, <1>15, <1>16, <1>17, <1>18 DEF IInv

LEMMA ReportTypes ==
    ASSUME IInv, (\E k \in Asker : Ask(k)) \/ Probe \/ Report \/ Expire
    PROVE  UNCHANGED calls /\ TypeOK'
<1>1. UNCHANGED calls BY DEF Ask, Probe, Report, Expire
<1> DEFINE Round == [urls : SUBSET Url, left : SUBSET Url, healthy : SUBSET Url,
                     on : BOOLEAN]
           Cached == [urls : SUBSET Url, healthy : SUBSET Url, fresh : BOOLEAN]
<1>t. /\ failures \in 0..MaxFailures /\ MaxFailures \in Nat
      /\ asker \in [Asker -> {"idle", "waiting", "answered"}]
      /\ probe \in Round /\ cache \in Cached
  BY PoolAssumption DEF IInv, TypeOK
<1>2. CASE \E k \in Asker : Ask(k)
  <2>1. PICK k \in Asker : Ask(k) BY <1>2
  <2>2. asker' \in [Asker -> {"idle", "waiting", "answered"}] BY <1>t, <2>1 DEF Ask
  <2>3. pools[Current].urls \subseteq Url
    <3>1. Current \in 1..Len(pools)
      <4>1. Len(pools) \in Nat BY PoolTypes DEF IInv
      <4> QED BY <4>1 DEF Current, IInv, PoolsFit
    <3>2. pools[Current] \in PoolRecord BY <3>1, PoolTypes DEF IInv
    <3> QED BY <3>2 DEF PoolRecord
  <2>4. probe' \in Round
    <3>1. PICK all : all = pools[Current].urls OBVIOUS
    <3>2. [urls |-> all, left |-> all, healthy |-> {}, on |-> TRUE] \in Round
      BY <2>3, <3>1
    <3>3. probe' = probe \/ probe' = [urls |-> all, left |-> all, healthy |-> {}, on |-> TRUE]
      BY <2>1, <3>1 DEF Ask
    <3> HIDE DEF Round
    <3> QED BY <1>t, <3>2, <3>3
  <2> QED BY <1>t, <1>1, <2>1, <2>2, <2>4 DEF IInv, TypeOK, calls, Ask
<1>3. CASE Probe
  <2>1. PICK u \in probe.left :
            \/ probe' = [probe EXCEPT !.left = @ \ {u}, !.healthy = @ \cup {u}]
            \/ probe' = [probe EXCEPT !.left = @ \ {u}]
    BY <1>3 DEF Probe
  <2>2. probe' \in Round
    <3>1. PICK old : old = probe OBVIOUS
    <3>2. old \in Round /\ u \in Url BY <1>t, <3>1
    <3>3. /\ [old EXCEPT !.left = @ \ {u}, !.healthy = @ \cup {u}] \in Round
          /\ [old EXCEPT !.left = @ \ {u}] \in Round
      BY <3>2
    <3> QED BY <2>1, <3>1, <3>3
  <2>3. failures' \in 0..MaxFailures
    <3>1. failures' = failures \/ (failures < MaxFailures /\ failures' = failures + 1)
      BY <1>3 DEF Probe, Fault
    <3> QED BY <1>t, <3>1
  <2> QED BY <1>t, <1>1, <1>3, <2>2, <2>3 DEF IInv, TypeOK, calls, Probe
<1>4. CASE Report
  <2>1. cache' \in Cached /\ probe' \in Round BY <1>t, <1>4 DEF Report, NoProbe
  <2>2. asker' \in [Asker -> {"idle", "waiting", "answered"}] BY <1>t, <1>4 DEF Report
  <2> QED BY <1>t, <1>1, <1>4, <2>1, <2>2 DEF IInv, TypeOK, calls, Report
<1>5. CASE Expire
  <2>1. cache' \in Cached BY <1>t, <1>5 DEF Expire
  <2> QED BY <1>t, <1>1, <1>5, <2>1 DEF IInv, TypeOK, calls, Expire
<1> QED BY <1>1, <1>2, <1>3, <1>4, <1>5

(* The health report reads the pools and leaves the calls alone.           *)
LEMMA ReportHolds ==
    ASSUME IInv, (\E k \in Asker : Ask(k)) \/ Probe \/ Report \/ Expire
    PROVE  IInv'
<1>1. UNCHANGED calls /\ TypeOK' BY ReportTypes
<1>7. PoolsFit' /\ QueuesFit' BY <1>1 DEF IInv, PoolsFit, QueuesFit, QueueFits, Nodes, calls
<1>8. ASSUME NEW q PROVE Holders(q)' = Holders(q) BY <1>1 DEF Holders, calls
<1>9. HoldersAreFew' /\ SlotsAreAccounted'
  BY <1>1, <1>8 DEF IInv, HoldersAreFew, SlotsAreAccounted, Current, Slots, Nodes, calls
<1>10. FailuresAreKnown' /\ OnlyFailuresExhaust'
  BY <1>1 DEF IInv, FailuresAreKnown, OnlyFailuresExhaust, calls
<1> QED BY <1>1, <1>7, <1>9, <1>10 DEF IInv

-------------------------------------------------------------------------------
(* The theorems                                                            *)

LEMMA InitHolds == Init => IInv
<1> SUFFICES ASSUME Init PROVE IInv OBVIOUS
<1>n. /\ setup \in Setup /\ Nodes \in Seq(SUBSET Url) /\ Len(Nodes) \in Nat \ {0}
  <2>1. setup \in Setup /\ Nodes \in Seq(SUBSET Url) /\ Nodes # << >>
    BY PoolAssumption DEF Init, Nodes
  <2> QED BY <2>1, EmptySeq
<1>1. PICK r : r = NewPool(1) OBVIOUS
<1>2. /\ r \in PoolRecord /\ r.running = 0 /\ r.queue = << >> /\ r.cooling = {}
  BY <1>n, <1>1, NewPoolType DEF NewPool
<1>3. /\ pools = <<r>> /\ pools \in Seq(PoolRecord) /\ Len(pools) = 1 /\ pools[1] = r
      /\ active \in Seq(Url \cup {None}) /\ Len(active) = 1
  BY <1>1, <1>2 DEF Init
<1>4. call = [c \in Call |-> NotCalled] /\ failed = {} BY DEF Init
<1>5. TypeOK
  <2>1. call \in [Call -> CallRecord] BY <1>4, NotCalledType
  <2>2. failures \in 0..MaxFailures BY PoolAssumption DEF Init
  <2>3. probe \in [urls : SUBSET Url, left : SUBSET Url, healthy : SUBSET Url,
                   on : BOOLEAN]
    BY DEF Init, NoProbe
  <2>4. cache \in [urls : SUBSET Url, healthy : SUBSET Url, fresh : BOOLEAN]
    BY DEF Init
  <2>5. asker \in [Asker -> {"idle", "waiting", "answered"}] BY DEF Init
  <2> QED BY <1>n, <1>3, <1>4, <2>1, <2>2, <2>3, <2>4, <2>5
          DEF TypeOK, PoolRecord, CallRecord
<1>6. PoolsFit BY <1>n, <1>3, <1>4 DEF PoolsFit, NotCalled
<1>7. QueuesFit BY <1>2, <1>3, EmptySeq DEF QueuesFit, QueueFits
<1>8. Holders(1) = {} BY <1>4 DEF Holders, NotCalled
<1>9. HoldersAreFew
  <2>1. \A p \in 1..Len(pools) : p = 1 BY <1>3
  <2> QED BY <1>8, <2>1, FS_EmptySet DEF HoldersAreFew
<1>10. SlotsAreAccounted
  <2>1. Slots(1) \in Nat BY <1>3, <1>5, <1>6, SlotsType
  <2>2. \A p \in 1..Current : p = 1 BY <1>3 DEF Current
  <2>3. Cardinality(Holders(1)) = 0 BY <1>8, FS_EmptySet
  <2> QED BY <1>2, <1>3, <2>1, <2>2, <2>3 DEF SlotsAreAccounted
<1>11. FailuresAreKnown BY <1>2, <1>3, <1>4 DEF FailuresAreKnown, NotCalled
<1>12. OnlyFailuresExhaust
  BY <1>4, PoolAssumption DEF OnlyFailuresExhaust, NotCalled
<1> QED BY <1>5, <1>6, <1>7, <1>9, <1>10, <1>11, <1>12 DEF IInv

LEMMA StepHolds == IInv /\ [Next]_vars => IInv'
<1> SUFFICES ASSUME IInv, [Next]_vars PROVE IInv' OBVIOUS
<1>1. CASE UNCHANGED vars
  <2>1. ASSUME NEW q PROVE Holders(q)' = Holders(q)
    BY <1>1 DEF Holders, vars, calls
  <2>2. TypeOK' /\ PoolsFit' /\ QueuesFit'
    BY <1>1 DEF IInv, TypeOK, PoolsFit, QueuesFit, QueueFits, Nodes, vars, calls, health
  <2>3. HoldersAreFew' /\ SlotsAreAccounted'
    BY <1>1, <2>1 DEF IInv, HoldersAreFew, SlotsAreAccounted, Current, Slots, Nodes,
       vars, calls
  <2>4. FailuresAreKnown' /\ OnlyFailuresExhaust'
    BY <1>1 DEF IInv, FailuresAreKnown, OnlyFailuresExhaust, vars, calls
  <2> QED BY <2>2, <2>3, <2>4 DEF IInv
<1>2. CASE Next
  BY <1>2, BeginHolds, SendHolds, AnswerHolds, ExhaustHolds, FailHolds, WarmHolds,
     RefreshHolds, ReportHolds DEF Next, CallStep
<1> QED BY <1>1, <1>2

LEMMA SpecHolds == Spec => []IInv
BY InitHolds, StepHolds, PTL DEF Spec

(* The types of the pools and the calls, with semaphores that never count  *)
(* below zero.                                                             *)
THEOREM TypeCorrect == Spec => []TypeOK
<1>1. IInv => TypeOK BY DEF IInv
<1> QED BY <1>1, SpecHolds, PTL

(* Semaphore (packages/rpc/src/index.ts): as many slots are counted as     *)
(* operations hold one, never more than there are endpoints, and nobody    *)
(* waits while one is free, whatever fails and however often the nodes are *)
(* changed under the calls.                                                *)
THEOREM SlotsAreCounted == Spec => []SlotsAreAccounted
<1>1. IInv => SlotsAreAccounted BY DEF IInv
<1> QED BY <1>1, SpecHolds, PTL

(* An operation is told that no endpoint is left only if each endpoint of  *)
(* its pool has failed as a transport.                                     *)
THEOREM AnswersNeverExhaust == Spec => []OnlyFailuresExhaust
<1>1. IInv => OnlyFailuresExhaust BY DEF IInv
<1> QED BY <1>1, SpecHolds, PTL
===============================================================================
