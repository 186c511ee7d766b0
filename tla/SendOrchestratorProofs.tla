------------------------ MODULE SendOrchestratorProofs ------------------------
(* Proofs about SendOrchestrator, for every value of its constants.        *)
EXTENDS SendOrchestrator, FiniteSetTheorems, SequenceTheorems, TLAPS

-------------------------------------------------------------------------------
(* Chains and their blocks                                                 *)

LEMMA InitialPart ==
    ASSUME NEW S, NEW s \in Seq(S), NEW n \in 0..Len(s)
    PROVE  /\ SubSeq(s, 1, n) \in Seq(S)
           /\ Len(SubSeq(s, 1, n)) = n
           /\ \A k \in 1..n : SubSeq(s, 1, n)[k] = s[k]
<1>1. Len(s) \in Nat /\ n \in Int /\ 1..n \subseteq 1..Len(s)
  BY LenProperties
<1>2. \A k \in 1..n : s[k] \in S BY <1>1, ElementOfSeq
<1>3. /\ SubSeq(s, 1, n) \in Seq(S)
      /\ Len(SubSeq(s, 1, n)) = IF 1 <= n THEN n - 1 + 1 ELSE 0
      /\ \A k \in 1..(n - 1 + 1) : SubSeq(s, 1, n)[k] = s[1 + k - 1]
  BY <1>1, <1>2, SubSeqProperties
<1> QED BY <1>1, <1>3

(* A chain and the block that extends it: where the operations are.        *)
LEMMA FrontProperties ==
    ASSUME NEW S, NEW d \in Seq(S), d # << >>
    PROVE  /\ Front(d) \in Seq(S) /\ Len(d) \in Nat \ {0}
           /\ Len(Front(d)) = Len(d) - 1
           /\ \A k \in 1..(Len(d) - 1) : Front(d)[k] = d[k]
<1>1. Len(d) \in Nat /\ Len(d) # 0 BY LenProperties, EmptySeq
<1>2. Len(d) - 1 \in 0..Len(d) BY <1>1
<1> QED BY <1>1, <1>2, InitialPart DEF Front

LEMMA AppendedBlock ==
    ASSUME NEW S, NEW c \in Seq(S), NEW e \in S
    PROVE  /\ Append(c, e) \in Seq(S) /\ Append(c, e) # << >>
           /\ Front(Append(c, e)) = c
           /\ Append(c, e)[Len(Append(c, e))] = e
<1>1. PICK d : d = Append(c, e) OBVIOUS
<1>2. /\ d \in Seq(S) /\ d # << >> /\ Len(d) = Len(c) + 1 /\ Len(c) \in Nat
      /\ d[Len(c) + 1] = e /\ \A k \in 1..Len(c) : d[k] = c[k]
  BY <1>1, AppendProperties, LenProperties, EmptySeq
<1>3. /\ Front(d) \in Seq(S) /\ Len(Front(d)) = Len(c)
      /\ \A k \in 1..Len(Front(d)) : Front(d)[k] = c[k]
  BY <1>2, FrontProperties
<1> QED BY <1>1, <1>2, <1>3, SeqEqual

(* A block is on a chain that begins with the block's operations.          *)
LEMMA OnChainPointwise ==
    ASSUME NEW S, NEW b \in Seq(S), NEW c \in Seq(S)
    PROVE  /\ OnChain(b, c) <=> /\ Len(b) \in 1..Len(c)
                                /\ \A k \in 1..Len(b) : b[k] = c[k]
           /\ Len(b) \in Nat /\ Len(c) \in Nat
<1>1. Len(b) \in Nat /\ Len(c) \in Nat /\ (b = << >> <=> Len(b) = 0)
  BY LenProperties, EmptySeq
<1>2. ASSUME Len(b) <= Len(c)
      PROVE  SubSeq(b, 1, Len(b)) = SubSeq(c, 1, Len(b))
                <=> \A k \in 1..Len(b) : b[k] = c[k]
  <2>1. PICK bb, cc : bb = SubSeq(b, 1, Len(b)) /\ cc = SubSeq(c, 1, Len(b))
    OBVIOUS
  <2>2. /\ bb \in Seq(S) /\ Len(bb) = Len(b) /\ \A k \in 1..Len(b) : bb[k] = b[k]
        /\ cc \in Seq(S) /\ Len(cc) = Len(b) /\ \A k \in 1..Len(b) : cc[k] = c[k]
    BY <1>1, <1>2, <2>1, InitialPart
  <2> QED BY <2>1, <2>2, SeqEqual
<1> QED BY <1>1, <1>2 DEF OnChain, IsPrefix

LEMMA FrontierIsOnChain ==
    ASSUME NEW S, NEW d \in Seq(S), d # << >>
    PROVE  OnChain(d, d)
BY FrontProperties, OnChainPointwise

(* A chain grows by one block at a time, and keeps the blocks it has.      *)
LEMMA ChainKeepsBlocks ==
    ASSUME NEW S, NEW b \in Seq(S), NEW c \in Seq(S), NEW d \in Seq(S),
           OnChain(b, c), d # << >>, Front(d) = c
    PROVE  OnChain(b, d)
<1>1. /\ Len(b) \in 1..Len(c) /\ Len(c) \in Nat
      /\ \A k \in 1..Len(b) : b[k] = c[k]
  BY OnChainPointwise
<1>2. /\ Len(d) \in Nat /\ Len(c) = Len(d) - 1
      /\ \A k \in 1..(Len(d) - 1) : c[k] = d[k]
  BY FrontProperties
<1>3. Len(b) \in 1..Len(d) /\ \A k \in 1..Len(b) : b[k] = d[k]
  BY <1>1, <1>2
<1> QED BY <1>3, OnChainPointwise

(* The only block that a chain gains when it grows is its new frontier.    *)
LEMMA NewBlockIsFrontier ==
    ASSUME NEW S, NEW b \in Seq(S), NEW c \in Seq(S), NEW d \in Seq(S),
           d # << >>, Front(d) = c, OnChain(b, d), ~ OnChain(b, c)
    PROVE  b = d
<1>1. /\ Len(b) \in 1..Len(d) /\ Len(b) \in Nat /\ Len(c) \in Nat
      /\ \A k \in 1..Len(b) : b[k] = d[k]
      /\ ~ (Len(b) \in 1..Len(c) /\ \A k \in 1..Len(b) : b[k] = c[k])
  BY OnChainPointwise
<1>2. /\ Len(d) \in Nat /\ Len(c) = Len(d) - 1
      /\ \A k \in 1..(Len(d) - 1) : c[k] = d[k]
  BY FrontProperties
<1>3. Len(b) = Len(d) BY <1>1, <1>2
<1> QED BY <1>1, <1>3, SeqEqual

(* A block of a chain ends with one of the chain's operations.             *)
LEMMA LastIsOnChain ==
    ASSUME NEW S, NEW b \in Seq(S), NEW c \in Seq(S), OnChain(b, c)
    PROVE  Len(b) \in 1..Len(c) /\ c[Len(b)] = b[Len(b)]
BY OnChainPointwise

-------------------------------------------------------------------------------
(* Types of the operators                                                  *)

LEMMA TeamType == TypeOK => running \subseteq Instance
BY ConstantsAssumption DEF TypeOK

LEMMA OperationType == \A s \in Send : Operation(s) \in Op
BY DEF Operation, SendOp, Op

LEMMA ReceiveOpType == \A n \in Nat : ReceiveOp(n, 1) \in Op
BY DEF ReceiveOp, Op

LEMMA AfterCheckDomain ==
    DOMAIN AfterCheck = {"acquired", "drafted", "ready", "reworked", "short",
                         "rejected", "accepted"}
BY DEF AfterCheck

LEMMA AfterCheckValues ==
    /\ AfterCheck["acquired"] = "load"
    /\ AfterCheck["drafted"] = "create"
    /\ AfterCheck["ready"] = "process"
    /\ AfterCheck["reworked"] = "updateWork"
    /\ AfterCheck["short"] = "fail"
    /\ AfterCheck["rejected"] = "fail"
    /\ AfterCheck["accepted"] = "publish"
BY DEF AfterCheck

LEMMA ChainExtended ==
    ASSUME NEW c \in Seq(Op), NEW s \in Send
    PROVE  Append(c, Operation(s)) \in Seq(Op) /\ Append(c, Operation(s)) # << >>
BY OperationType, AppendProperties, EmptySeq

LEMMA InitialTypes == Init => TypeOK
BY ConstantsAssumption, EmptySeq
   DEF Init, TypeOK, SignedBlock, Work, NoBlock, SendStatus, PC

-------------------------------------------------------------------------------
(* The inductive invariant.  Each conjunct says what an instance knows at  *)
(* a step of its publish, whatever the other instances, the network and    *)
(* the timeouts did meanwhile.                                             *)

(* A publish has a send.                                                   *)
HasCurrent == \A i \in Instance : Publishing(i) => current[i] \in Send

(* Between signing the block and the end of the publish there is a block,  *)
(* and once the intent is saved or loaded it is the intent's block.        *)
Drafted == \A i \in Instance : pc[i] \in {"drafted", "create"} => Signed(draft[i])

Saved == {"ready", "process", "rework", "reworked", "updateWork", "rejected",
          "accepted", "publish", "cache", "emitPublished"}
UsesIntent ==
    \A i \in Instance : pc[i] \in Saved =>
        /\ Signed(draft[i])
        /\ draft[i].block = intent[current[i]].block

(* A publish that treats its block as accepted is right about the chain.   *)
Certain == {"accepted", "publish", "cache", "emitPublished"}
AcceptedIsOnChain ==
    \A i \in Instance : pc[i] \in Certain =>
        OnChain(draft[i].block, chain[Home(i)])

(* A recorded hash is the hash of the intent, and of a block of the chain. *)
RecordedIsOnChain ==
    /\ \A s \in Send : hash[s] # << >> =>
        /\ hash[s] = intent[s].block
        /\ OnChain(hash[s], chain[Source[s]])
    /\ \A s \in Send : status[s] \in {"published", "confirmed"} => hash[s] # << >>
    /\ \A a \in Account : cached[a] # << >> => OnChain(cached[a], chain[a])

IInv ==
    /\ TypeOK /\ HasCurrent /\ Drafted /\ UsesIntent
    /\ AcceptedIsOnChain /\ RecordedIsOnChain

-------------------------------------------------------------------------------
(* The types are preserved.                                                *)

LEMMA GotoType ==
    ASSUME TypeOK, NEW i \in Instance, NEW state \in PC, Goto(i, state)
    PROVE  pc' \in [Instance -> PC]
BY DEF Goto, TypeOK

LEMMA FaultType ==
    ASSUME TypeOK, Fault
    PROVE  /\ faults' \in 0..MaxFaults /\ deposits' \in 0..MaxDeposits
           /\ running' = running
BY ConstantsAssumption DEF Fault, TypeOK

LEMMA HomeType ==
    ASSUME TypeOK, HasCurrent, NEW i \in Instance, pc[i] \notin {"idle", "next"}
    PROVE  current[i] \in Send /\ Home(i) \in Account
BY ConstantsAssumption DEF HasCurrent, Publishing, Home

LEMMA QueueTypes ==
    ASSUME TypeOK, NEW s \in Send, QueueSend(s)
    PROVE  TypeOK'
<1>1. Cardinality({u \in Send : status[u] # "absent"}) \in Nat
  BY ConstantsAssumption, FS_Subset, FS_CardinalityType
<1> QED BY <1>1 DEF QueueSend, TypeOK, SendStatus, network, local, bounds

LEMMA TickTypes ==
    ASSUME TypeOK, HasCurrent, NEW i \in Instance,
           Tick(i) \/ EndTick(i) \/ SkipLocked(i) \/ Acquire(i)
           \/ AssertCurrent(i) \/ Release(i)
    PROVE  TypeOK'
<1> USE DEF TypeOK, database, network, local, bounds
<1>1. CASE Tick(i) BY <1>1 DEF Tick, Goto, QueuedSends, PC
<1>2. CASE EndTick(i) BY <1>2 DEF EndTick, Goto, PC
<1>3. CASE SkipLocked(i) BY <1>3 DEF SkipLocked, Skip
<1>4. CASE Acquire(i)
  BY <1>4, ConstantsAssumption, AfterCheckDomain DEF Acquire, Goto, PC
<1>5. CASE AssertCurrent(i)
  BY <1>5, AfterCheckDomain, AfterCheckValues DEF AssertCurrent, Goto, PC, Fallible
<1>6. CASE Release(i)
  BY <1>6, HomeType, EmptySeq DEF Release, Goto, PC, NoBlock, SignedBlock, Work
<1> QED BY <1>1, <1>2, <1>3, <1>4, <1>5, <1>6

LEMMA SigningTypes ==
    ASSUME TypeOK, HasCurrent, NEW i \in Instance,
           Load(i) \/ Prepare(i) \/ CreateIntent(i) \/ Rework(i) \/ UpdateWork(i)
    PROVE  TypeOK'
<1> USE DEF TypeOK, database, network, local, bounds
<1>1. CASE Load(i)
  BY <1>1, HomeType, AfterCheckDomain DEF Load, Goto, PC, Fallible
<1>2. CASE Prepare(i)
  <2>1. current[i] \in Send /\ Home(i) \in Account BY <1>2, HomeType DEF Prepare
  <2>2. bounds' \in (0..MaxFaults) \X (0..MaxDeposits) \X Teams
    BY <1>2, FaultType DEF Prepare, GenerateWork
  <2>3. pc' \in [Instance -> PC]
    BY <1>2, AfterCheckDomain DEF Prepare, Goto, PC
  <2>4. Append(chain[Source[current[i]]], Operation(current[i])) \in Seq(Op)
    BY <2>1, ChainExtended DEF Home
  <2>5. draft' \in [Instance -> SignedBlock]
    <3>1. \A w \in Work : [block |-> Append(chain[Source[current[i]]],
                                            Operation(current[i])), work |-> w]
                              \in SignedBlock
      BY <2>4 DEF SignedBlock
    <3> QED BY <1>2, <3>1, ZenonT(30) DEF Prepare
  <2> QED BY <1>2, <2>2, <2>3, <2>5 DEF Prepare
<1>3. CASE CreateIntent(i)
  BY <1>3, HomeType, AfterCheckDomain DEF CreateIntent, KeepFirst, Goto, PC
<1>4. CASE Rework(i)
  <2>1. bounds' \in (0..MaxFaults) \X (0..MaxDeposits) \X Teams
    BY <1>4, FaultType DEF Rework, GenerateWork
  <2>2. pc' \in [Instance -> PC] BY <1>4, AfterCheckDomain DEF Rework, Goto, PC
  <2>3. \A w \in Work : [draft[i] EXCEPT !.work = w] \in SignedBlock
    <3>1. PICK old : old = draft[i] OBVIOUS
    <3>2. old \in SignedBlock BY <3>1
    <3>3. \A w \in Work : [old EXCEPT !.work = w] \in SignedBlock
      BY <3>2 DEF SignedBlock
    <3> QED BY <3>1, <3>3
  <2>4. draft' \in [Instance -> SignedBlock] BY <1>4, <2>3 DEF Rework
  <2> QED BY <1>4, <2>1, <2>2, <2>4 DEF Rework
<1>5. CASE UpdateWork(i)
  <2>1. PICK old, t : old = intent[t] /\ t = current[i] OBVIOUS
  <2>2. t \in Send /\ old \in SignedBlock /\ draft[i].work \in Work
    BY <1>5, <2>1, HomeType DEF UpdateWork, SignedBlock
  <2>3. [old EXCEPT !.work = draft[i].work] \in SignedBlock
    BY <2>2 DEF SignedBlock
  <2>4. intent' \in [Send -> SignedBlock]
    BY <1>5, <2>1, <2>2, <2>3 DEF UpdateWork
  <2>5. pc' \in [Instance -> PC] BY <1>5, AfterCheckDomain DEF UpdateWork, Goto, PC
  <2> QED BY <1>5, <2>4, <2>5 DEF UpdateWork
<1> QED BY <1>1, <1>2, <1>3, <1>4, <1>5

LEMMA OutcomeTypes ==
    ASSUME TypeOK, HasCurrent, NEW i \in Instance,
           Process(i) \/ Fail(i) \/ EmitFailed(i) \/ MarkPublished(i)
           \/ CacheFrontier(i) \/ EmitPublished(i)
    PROVE  TypeOK'
<1> USE DEF TypeOK, database, network, local, bounds
<1>1. CASE Process(i)
  BY <1>1, HomeType, AfterCheckDomain
  DEF Process, Goto, PC, Fallible, SignedBlock, Verdict, AfterProcess
<1>2. CASE Fail(i) BY <1>2, HomeType DEF Fail, Goto, PC, Fallible, SendStatus
<1>3. CASE EmitFailed(i)
  <2>1. <<"send.failed", current[i]>> \in EventType \X Send
    BY <1>3, HomeType DEF EmitFailed, EventType
  <2> QED BY <1>3, <2>1 DEF EmitFailed, Goto, PC
<1>4. CASE MarkPublished(i)
  BY <1>4, HomeType DEF MarkPublished, Goto, PC, Fallible, SendStatus, SignedBlock
<1>5. CASE CacheFrontier(i)
  BY <1>5, HomeType DEF CacheFrontier, Goto, PC, Fallible, SignedBlock
<1>6. CASE EmitPublished(i)
  <2>1. current[i] \in Send BY <1>6, HomeType DEF EmitPublished
  <2>2. <<"send.published", current[i]>> \in EventType \X Send
    BY <2>1 DEF EventType
  <2> QED BY <1>6, <2>1, <2>2 DEF EmitPublished, Goto, PC
<1> QED BY <1>1, <1>2, <1>3, <1>4, <1>5, <1>6

LEMMA DisturbTypes ==
    ASSUME TypeOK, HasCurrent, NEW i \in Instance, Disturb(i)
    PROVE  TypeOK'
<1> USE FaultType DEF TypeOK, database, network, local, bounds
<1>1. CASE LookupFails(i) BY <1>1 DEF LookupFails, Skip
<1>2. CASE ProcessTimesOut(i)
  <2>1. [account |-> Home(i), block |-> draft[i].block, work |-> draft[i].work]
            \in [account : Account, block : Seq(Op), work : Work]
    BY <1>2, HomeType DEF ProcessTimesOut, SignedBlock
  <2> QED BY <1>2, <2>1 DEF ProcessTimesOut, Goto, PC
<1>3. CASE CallFails(i) BY <1>3 DEF CallFails, Goto, PC
<1>4. CASE Crash(i)
  BY <1>4, EmptySeq DEF Crash, Goto, PC, NoBlock, SignedBlock, Work
<1> QED BY <1>1, <1>2, <1>3, <1>4 DEF Disturb

LEMMA EnvironmentTypes ==
    ASSUME TypeOK,
           \/ \E i \in Instance, s \in Send : Confirm(i, s) \/ StopConfirming(i, s)
           \/ \E a \in Account : LeaseOutlivesStall(a) \/ LeaseOfTheDeadExpires(a)
           \/ \E a \in Account : ReceiveDeposit(a)
           \/ \E m \in wire : NodeHandlesLate(m)
    PROVE  TypeOK'
<1> USE FaultType DEF TypeOK, database, network, local, bounds
<1>1. ASSUME NEW i \in Instance, NEW s \in Send, Confirm(i, s) PROVE TypeOK'
  <2>1. UNCHANGED <<created, hash, intent, lease, cached, network, pc, todo,
                    current, draft, retried, bounds>>
    BY <1>1 DEF Confirm
  <2>2. status' \in [Send -> SendStatus]
    <3>1. status' = status \/ status' = [status EXCEPT ![s] = "confirmed"]
      BY <1>1 DEF Confirm
    <3> QED BY <3>1 DEF SendStatus
  <2>4. events' \subseteq EventType \X Send
    <3>1. events' = events \/ events' = events \cup {<<"send.confirmed", s>>}
      BY <1>1 DEF Confirm
    <3>2. <<"send.confirmed", s>> \in EventType \X Send BY DEF EventType
    <3> QED BY <3>1, <3>2
  <2>3. confirming' \in [Instance -> SUBSET Send] BY <1>1 DEF Confirm
  <2> QED BY <2>1, <2>2, <2>3, <2>4
<1>2. ASSUME NEW i \in Instance, NEW s \in Send, StopConfirming(i, s) PROVE TypeOK'
  BY <1>2 DEF StopConfirming
<1>3. ASSUME NEW a \in Account, LeaseOutlivesStall(a) PROVE TypeOK'
  BY <1>3 DEF LeaseOutlivesStall, Expire
<1>4. ASSUME NEW a \in Account, LeaseOfTheDeadExpires(a) PROVE TypeOK'
  BY <1>4 DEF LeaseOfTheDeadExpires, Expire
<1>5. ASSUME NEW a \in Account, ReceiveDeposit(a) PROVE TypeOK'
  <2>1. Append(chain[a], ReceiveOp(deposits, 1)) \in Seq(Op)
    BY ConstantsAssumption, ReceiveOpType, AppendProperties
  <2>2. deposits' \in 0..MaxDeposits
    BY <1>5, ConstantsAssumption DEF ReceiveDeposit
  <2>3. chain' \in [Account -> Seq(Op)] BY <1>5, <2>1 DEF ReceiveDeposit
  <2> QED BY <1>5, <2>2, <2>3 DEF ReceiveDeposit
<1>6. ASSUME NEW m \in wire, NodeHandlesLate(m) PROVE TypeOK'
  BY <1>6 DEF NodeHandlesLate
<1> QED BY <1>1, <1>2, <1>3, <1>4, <1>5, <1>6

LEMMA StepTypes == TypeOK /\ HasCurrent /\ [Next]_vars => TypeOK'
<1> SUFFICES ASSUME TypeOK, HasCurrent, [Next]_vars PROVE TypeOK'
  OBVIOUS
<1>1. CASE Next
  BY <1>1, QueueTypes, TickTypes, SigningTypes, OutcomeTypes, DisturbTypes,
     EnvironmentTypes, TeamType DEF Next, Publish
<1>2. CASE UNCHANGED vars
  BY <1>2 DEF TypeOK, vars, database, network, local, bounds
<1> QED BY <1>1, <1>2

-------------------------------------------------------------------------------
(* What every step keeps: the blocks of a chain, the block of an intent    *)
(* and the position of the instances that do not move.                     *)

LEMMA SubmissionKeepsBlocks ==
    ASSUME NEW b \in Seq(Op), NEW c \in Seq(Op), NEW d \in Seq(Op), NEW w,
           OnChain(b, c), Verdict(d, w, c) = "accepted"
    PROVE  OnChain(b, d)
BY ChainKeepsBlocks DEF Verdict

LEMMA StepKeepsBlocks ==
    ASSUME TypeOK, HasCurrent, [Next]_vars,
           NEW a \in Account, NEW b \in Seq(Op), OnChain(b, chain[a])
    PROVE  OnChain(b, chain'[a])
<1> USE DEF network
<1>1. ASSUME NEW i \in Instance, Process(i) PROVE OnChain(b, chain'[a])
  <2>1. draft[i].block \in Seq(Op) BY DEF TypeOK, SignedBlock
  <2> QED BY <1>1, <2>1, SubmissionKeepsBlocks DEF Process, TypeOK
<1>2. ASSUME NEW m \in wire, NodeHandlesLate(m) PROVE OnChain(b, chain'[a])
  <2>1. m.block \in Seq(Op) BY DEF TypeOK
  <2> QED BY <1>2, <2>1, SubmissionKeepsBlocks DEF NodeHandlesLate, TypeOK
<1>3. ASSUME NEW z \in Account, ReceiveDeposit(z) PROVE OnChain(b, chain'[a])
  <2>1. ReceiveOp(deposits, 1) \in Op
    BY ConstantsAssumption, ReceiveOpType DEF TypeOK
  <2>2. chain[a] \in Seq(Op) BY DEF TypeOK
  <2>3. PICK d : d = Append(chain[a], ReceiveOp(deposits, 1)) OBVIOUS
  <2>4. d \in Seq(Op) /\ d # << >> /\ Front(d) = chain[a]
    BY <2>1, <2>2, <2>3, AppendedBlock
  <2>5. OnChain(b, d) BY <2>2, <2>4, ChainKeepsBlocks
  <2> QED BY <1>3, <2>3, <2>5 DEF ReceiveDeposit, TypeOK
<1>4. ASSUME NEW i \in Instance, Publish(i), ~ Process(i) PROVE chain' = chain
  BY <1>4 DEF Publish, Tick, EndTick, SkipLocked, Skip, Acquire, AssertCurrent,
     Release, Load, Prepare, CreateIntent, Rework, UpdateWork, Fail, EmitFailed,
     MarkPublished, CacheFrontier, EmitPublished
<1>5. ASSUME NEW i \in Instance, Disturb(i) PROVE chain' = chain
  BY <1>5 DEF Disturb, LookupFails, Skip, ProcessTimesOut, CallFails, Crash
<1>6. CASE Next
  BY <1>1, <1>2, <1>3, <1>4, <1>5, <1>6, TeamType
  DEF Next, QueueSend, Confirm, StopConfirming, LeaseOutlivesStall,
      LeaseOfTheDeadExpires, Expire
<1>7. CASE UNCHANGED vars BY <1>7 DEF vars
<1> QED BY <1>6, <1>7

LEMMA StepKeepsSignature ==
    ASSUME TypeOK, HasCurrent, [Next]_vars, NEW s \in Send, Signed(intent[s])
    PROVE  intent'[s].block = intent[s].block
<1> USE DEF database
<1>1. ASSUME NEW i \in Instance, CreateIntent(i)
      PROVE  intent'[s].block = intent[s].block
  BY <1>1 DEF CreateIntent, KeepFirst, TypeOK
<1>2. ASSUME NEW i \in Instance, UpdateWork(i)
      PROVE  intent'[s].block = intent[s].block
  BY <1>2 DEF UpdateWork, TypeOK, SignedBlock
<1>3. ASSUME NEW i \in Instance, Publish(i), ~ CreateIntent(i), ~ UpdateWork(i)
      PROVE  intent' = intent
  BY <1>3 DEF Publish, Tick, EndTick, SkipLocked, Skip, Acquire, AssertCurrent,
     Release, Load, Prepare, Process, Rework, Fail, EmitFailed,
     MarkPublished, CacheFrontier, EmitPublished
<1>4. ASSUME NEW i \in Instance, Disturb(i) PROVE intent' = intent
  BY <1>4 DEF Disturb, LookupFails, Skip, ProcessTimesOut, CallFails, Crash
<1>5. CASE Next
  BY <1>1, <1>2, <1>3, <1>4, <1>5, TeamType
  DEF Next, QueueSend, Confirm, StopConfirming, LeaseOutlivesStall,
      LeaseOfTheDeadExpires, Expire, NodeHandlesLate, ReceiveDeposit
<1>6. CASE UNCHANGED vars BY <1>6 DEF vars
<1> QED BY <1>5, <1>6

Still(j) == pc'[j] = pc[j] /\ current'[j] = current[j] /\ draft'[j] = draft[j]

LEMMA OthersStandStill ==
    ASSUME TypeOK, [Next]_vars, NEW j \in Instance
    PROVE  Still(j) \/ Publish(j) \/ Disturb(j)
<1> USE DEF local, Still
<1>1. ASSUME NEW i \in Instance, i # j, Publish(i) PROVE Still(j)
  BY <1>1 DEF TypeOK, Publish, Goto, Tick, EndTick, SkipLocked, Skip, Acquire,
     AssertCurrent, Release, Load, Prepare, CreateIntent, Process, Rework,
     UpdateWork, Fail, EmitFailed, MarkPublished, CacheFrontier, EmitPublished
<1>2. ASSUME NEW i \in Instance, i # j, Disturb(i) PROVE Still(j)
  BY <1>2 DEF TypeOK, Disturb, Goto, LookupFails, Skip, ProcessTimesOut,
     CallFails, Crash
<1>3. CASE Next
  BY <1>1, <1>2, <1>3, TeamType
  DEF Next, QueueSend, Confirm, StopConfirming, LeaseOutlivesStall,
      LeaseOfTheDeadExpires, Expire, NodeHandlesLate, ReceiveDeposit
<1>4. CASE UNCHANGED vars BY <1>4 DEF vars
<1> QED BY <1>3, <1>4

-------------------------------------------------------------------------------
(* The knowledge of an instance is preserved: it stands still, or it takes *)
(* one of the steps of its own publish.                                    *)

LEMMA StepHasCurrent == IInv /\ [Next]_vars => HasCurrent'
<1> SUFFICES ASSUME IInv, [Next]_vars, NEW j \in Instance, Publishing(j)'
             PROVE  current'[j] \in Send
  BY DEF HasCurrent
<1> USE DEF IInv, TypeOK, HasCurrent, Publishing
<1>1. CASE Still(j) BY <1>1 DEF Still
<1>2. CASE Acquire(j) BY <1>2 DEF Acquire
<1>3. CASE AssertCurrent(j)
  BY <1>3, AfterCheckDomain DEF AssertCurrent
<1>4. CASE Disturb(j)
  BY <1>4 DEF Disturb, LookupFails, Skip, ProcessTimesOut, CallFails, Crash,
     Goto, Fallible
<1>5. CASE Publish(j) /\ ~ Acquire(j) /\ ~ AssertCurrent(j)
  BY <1>5 DEF Publish, Goto, Tick, EndTick, SkipLocked, Skip, Release, Load,
     Prepare, CreateIntent, Process, Rework, UpdateWork, Fail, EmitFailed,
     MarkPublished, CacheFrontier, EmitPublished
<1> QED BY <1>1, <1>2, <1>3, <1>4, <1>5, OthersStandStill

LEMMA StepDrafted == IInv /\ [Next]_vars => Drafted'
<1> SUFFICES ASSUME IInv, [Next]_vars, NEW j \in Instance,
                    pc'[j] \in {"drafted", "create"}
             PROVE  Signed(draft[j])'
  BY DEF Drafted
<1> USE DEF IInv, Drafted, Signed
<1>1. CASE Still(j) BY <1>1 DEF Still
<1>2. CASE AssertCurrent(j)
  BY <1>2, AfterCheckDomain, AfterCheckValues DEF AssertCurrent, Goto, TypeOK
<1>3. CASE Prepare(j)
  <2>1. Append(chain[Source[current[j]]], Operation(current[j])) # << >>
    BY <1>3, HomeType, ChainExtended DEF Prepare, Home, TypeOK
  <2> QED BY <1>3, <2>1 DEF Prepare, Goto, TypeOK
<1>4. CASE Disturb(j)
  BY <1>4 DEF Disturb, LookupFails, Skip, ProcessTimesOut, CallFails, Crash,
     Goto, TypeOK
<1>5. CASE Publish(j) /\ ~ AssertCurrent(j) /\ ~ Prepare(j)
  BY <1>5 DEF Publish, Goto, Tick, EndTick, SkipLocked, Skip, Acquire, Release,
     Load, CreateIntent, Process, AfterProcess, Verdict, Rework, UpdateWork,
     Fail, EmitFailed, MarkPublished, CacheFrontier, EmitPublished, TypeOK
<1> QED BY <1>1, <1>2, <1>3, <1>4, <1>5, OthersStandStill

LEMMA StepUsesIntent == IInv /\ [Next]_vars => UsesIntent'
<1> SUFFICES ASSUME IInv, [Next]_vars, NEW j \in Instance, pc'[j] \in Saved
             PROVE  /\ Signed(draft[j])'
                    /\ draft'[j].block = intent'[current'[j]].block
  BY DEF UsesIntent
<1> USE DEF IInv, UsesIntent
<1>1. ASSUME pc[j] \in Saved
      PROVE  /\ Signed(draft[j]) /\ current[j] \in Send
             /\ intent'[current[j]].block = draft[j].block
  <2>1. current[j] \in Send BY <1>1, HomeType DEF Saved
  <2>2. Signed(draft[j]) /\ draft[j].block = intent[current[j]].block BY <1>1
  <2>3. Signed(intent[current[j]]) BY <2>2 DEF Signed
  <2> QED BY <2>1, <2>2, <2>3, StepKeepsSignature
<1>2. CASE Still(j) BY <1>1, <1>2 DEF Still, Signed
<1>3. CASE AssertCurrent(j)
  <2>1. pc[j] \in Saved
    BY <1>3, AfterCheckDomain, AfterCheckValues
    DEF AssertCurrent, Goto, TypeOK, Saved
  <2> QED BY <1>1, <1>3, <2>1 DEF AssertCurrent, Signed
<1>4. CASE Load(j)
  BY <1>4, HomeType DEF Load, Goto, TypeOK, Saved, Signed, database
<1>5. CASE CreateIntent(j)
  BY <1>5, HomeType DEF CreateIntent, KeepFirst, Drafted, TypeOK, Signed
<1>6. CASE Process(j)
  BY <1>1, <1>6 DEF Process, Saved, Signed
<1>7. CASE Rework(j)
  <2>1. draft'[j].block = draft[j].block /\ current'[j] = current[j]
    BY <1>7 DEF Rework, TypeOK, SignedBlock
  <2> QED BY <1>1, <1>7, <2>1 DEF Rework, Saved, Signed
<1>8. CASE UpdateWork(j) \/ MarkPublished(j) \/ CacheFrontier(j)
  BY <1>1, <1>8 DEF UpdateWork, MarkPublished, CacheFrontier, Saved, Signed
<1>9. CASE Disturb(j)
  BY <1>9 DEF Disturb, LookupFails, Skip, NextUp, ProcessTimesOut, CallFails,
     Crash, Goto, TypeOK, Saved
<1>10. CASE Tick(j) \/ EndTick(j) \/ SkipLocked(j) \/ Acquire(j) \/ Release(j)
            \/ Prepare(j) \/ Fail(j) \/ EmitFailed(j) \/ EmitPublished(j)
  BY <1>10 DEF Goto, Tick, EndTick, SkipLocked, NextUp, Skip, Acquire, Release,
     Prepare, Fail, EmitFailed, EmitPublished, TypeOK, Saved
<1> QED
  BY <1>2, <1>3, <1>4, <1>5, <1>6, <1>7, <1>8, <1>9, <1>10, OthersStandStill
  DEF Publish

LEMMA StepAccepted == IInv /\ [Next]_vars => AcceptedIsOnChain'
<1> SUFFICES ASSUME IInv, [Next]_vars, NEW j \in Instance, pc'[j] \in Certain
             PROVE  OnChain(draft'[j].block, chain'[Source[current'[j]]])
  BY DEF AcceptedIsOnChain, Home
<1> USE DEF IInv, AcceptedIsOnChain
<1>1. draft[j].block \in Seq(Op) BY DEF TypeOK, SignedBlock
<1>2. ASSUME pc[j] \in Certain
      PROVE  OnChain(draft[j].block, chain'[Source[current[j]]])
  <2>1. Home(j) \in Account BY <1>2, HomeType DEF Certain
  <2> QED BY <1>1, <1>2, <2>1, StepKeepsBlocks DEF Home
<1>3. CASE Still(j) BY <1>2, <1>3 DEF Still
<1>4. CASE AssertCurrent(j)
  <2>1. pc[j] \in Certain
    BY <1>4, AfterCheckDomain, AfterCheckValues
    DEF AssertCurrent, Goto, TypeOK, Certain
  <2> QED BY <1>2, <1>4, <2>1 DEF AssertCurrent
<1>5. CASE Process(j)
  <2>1. Home(j) \in Account /\ draft'[j] = draft[j] /\ current'[j] = current[j]
    BY <1>5, HomeType DEF Process
  <2> DEFINE verdict == Verdict(draft[j].block, draft[j].work, chain[Home(j)])
  <2>2. verdict \in {"accepted", "old block"}
    BY <1>5 DEF Process, Goto, AfterProcess, TypeOK, Certain, Verdict
  <2>3. CASE verdict = "old block"
    <3>1. OnChain(draft[j].block, chain[Home(j)]) BY <2>3 DEF Verdict
    <3> QED BY <3>1, <1>1, <2>1, StepKeepsBlocks DEF Home
  <2>4. CASE verdict = "accepted"
    <3>1. draft[j].block # << >> BY <2>4 DEF Verdict
    <3>2. chain'[Home(j)] = draft[j].block
      BY <1>5, <2>1, <2>4 DEF Process, TypeOK
    <3> QED BY <3>1, <3>2, <1>1, <2>1, FrontierIsOnChain DEF Home
  <2> QED BY <2>2, <2>3, <2>4
<1>6. CASE MarkPublished(j) \/ CacheFrontier(j)
  BY <1>2, <1>6 DEF MarkPublished, CacheFrontier, Certain
<1>7. CASE Disturb(j)
  BY <1>7 DEF Disturb, LookupFails, Skip, NextUp, ProcessTimesOut, CallFails,
     Crash, Goto, TypeOK, Certain
<1>8. CASE Tick(j) \/ EndTick(j) \/ SkipLocked(j) \/ Acquire(j) \/ Release(j)
           \/ Load(j) \/ Prepare(j) \/ CreateIntent(j) \/ Rework(j)
           \/ UpdateWork(j) \/ Fail(j) \/ EmitFailed(j) \/ EmitPublished(j)
  BY <1>8 DEF Goto, Tick, EndTick, SkipLocked, NextUp, Skip, Acquire, Release,
     Load, Prepare, CreateIntent, Rework, UpdateWork, Fail, EmitFailed,
     EmitPublished, TypeOK, Certain
<1> QED BY <1>3, <1>4, <1>5, <1>6, <1>7, <1>8, OthersStandStill DEF Publish

LEMMA StepRecorded == IInv /\ [Next]_vars => RecordedIsOnChain'
<1> SUFFICES ASSUME IInv, [Next]_vars PROVE RecordedIsOnChain'
  OBVIOUS
<1> USE DEF IInv, RecordedIsOnChain, database
<1>1. ASSUME NEW s \in Send, hash[s] # << >>
      PROVE  hash[s] = intent'[s].block /\ OnChain(hash[s], chain'[Source[s]])
  <2>1. hash[s] \in Seq(Op) /\ Source[s] \in Account
    BY ConstantsAssumption DEF TypeOK
  <2>2. Signed(intent[s]) BY <1>1 DEF Signed
  <2> QED BY <1>1, <2>1, <2>2, StepKeepsBlocks, StepKeepsSignature
<1>2. ASSUME NEW a \in Account, cached[a] # << >>
      PROVE  OnChain(cached[a], chain'[a])
  BY <1>2, StepKeepsBlocks DEF TypeOK
<1>3. CASE UNCHANGED <<hash, status, cached>> BY <1>1, <1>2, <1>3
<1>4. ASSUME NEW i \in Instance, MarkPublished(i) PROVE RecordedIsOnChain'
  <2>1. current[i] \in Send BY <1>4, HomeType DEF MarkPublished
  <2>2. /\ hash' = [hash EXCEPT ![current[i]] = draft[i].block]
        /\ status' = [status EXCEPT ![current[i]] = "published"]
        /\ cached' = cached /\ chain' = chain /\ intent' = intent
    BY <1>4 DEF MarkPublished, network
  <2>3. draft[i].block # << >> /\ draft[i].block = intent[current[i]].block
    BY <1>4 DEF MarkPublished, UsesIntent, Saved, Signed
  <2>4. OnChain(draft[i].block, chain[Source[current[i]]])
    BY <1>4 DEF MarkPublished, AcceptedIsOnChain, Certain, Home
  <2>5. hash \in [Send -> Seq(Op)] /\ status \in [Send -> SendStatus] BY DEF TypeOK
  <2> QED BY <2>1, <2>2, <2>3, <2>4, <2>5
<1>5. ASSUME NEW i \in Instance, CacheFrontier(i) PROVE RecordedIsOnChain'
  <2>1. OnChain(draft[i].block, chain[Home(i)])
    BY <1>5 DEF CacheFrontier, AcceptedIsOnChain, Certain
  <2>2. /\ cached' = [cached EXCEPT ![Home(i)] = draft[i].block]
        /\ chain' = chain /\ hash' = hash /\ status' = status
    BY <1>5 DEF CacheFrontier, network
  <2>3. cached \in [Account -> Seq(Op)] BY DEF TypeOK
  <2> QED BY <1>1, <1>2, <2>1, <2>2, <2>3
<1>6. ASSUME NEW i \in Instance, Fail(i) PROVE RecordedIsOnChain'
  <2>1. /\ status' = [status EXCEPT ![current[i]] = "failed"]
        /\ hash' = hash /\ cached' = cached
    BY <1>6 DEF Fail
  <2>2. \A s \in Send : status'[s] \in {"published", "confirmed"} =>
            status[s] \in {"published", "confirmed"}
    BY <2>1 DEF TypeOK
  <2> QED BY <1>1, <1>2, <2>1, <2>2
<1>7. ASSUME NEW i \in Instance, NEW s \in Send, Confirm(i, s)
      PROVE  RecordedIsOnChain'
  <2>1. hash[s] # << >> BY <1>7 DEF Confirm, OnChain
  <2>2. /\ \A z \in Send : z # s => status'[z] = status[z]
        /\ hash' = hash /\ cached' = cached
    BY <1>7 DEF Confirm, TypeOK
  <2> QED BY <1>1, <1>2, <2>1, <2>2
<1>8. ASSUME NEW s \in Send, QueueSend(s) PROVE RecordedIsOnChain'
  <2>1. /\ status' = [status EXCEPT ![s] = "queued"]
        /\ hash' = hash /\ cached' = cached
    BY <1>8 DEF QueueSend
  <2>2. \A z \in Send : status'[z] \in {"published", "confirmed"} =>
            status[z] \in {"published", "confirmed"}
    BY <2>1 DEF TypeOK
  <2> QED BY <1>1, <1>2, <2>1, <2>2
<1>9. ASSUME NEW i \in Instance, Publish(i), ~ MarkPublished(i),
             ~ CacheFrontier(i), ~ Fail(i)
      PROVE  UNCHANGED <<hash, status, cached>>
  BY <1>9 DEF Publish, Tick, EndTick, SkipLocked, Skip, Acquire, AssertCurrent,
     Release, Load, Prepare, CreateIntent, Process, Rework, UpdateWork,
     EmitFailed, EmitPublished
<1>10. ASSUME NEW i \in Instance, Disturb(i) PROVE UNCHANGED <<hash, status, cached>>
  BY <1>10 DEF Disturb, LookupFails, Skip, ProcessTimesOut, CallFails, Crash
<1>11. CASE \/ \E i \in Instance, s \in Send : StopConfirming(i, s)
            \/ \E a \in Account : LeaseOutlivesStall(a) \/ LeaseOfTheDeadExpires(a)
            \/ \E a \in Account : ReceiveDeposit(a)
            \/ \E m \in wire : NodeHandlesLate(m)
  BY <1>3, <1>11 DEF StopConfirming, LeaseOutlivesStall, LeaseOfTheDeadExpires,
     Expire, ReceiveDeposit, NodeHandlesLate
<1>12. CASE UNCHANGED vars BY <1>3, <1>12 DEF vars
<1> QED
  BY <1>3, <1>4, <1>5, <1>6, <1>7, <1>8, <1>9, <1>10, <1>11, <1>12, TeamType DEF Next

LEMMA InitialIInv == Init => IInv
BY InitialTypes, ConstantsAssumption
   DEF Init, IInv, HasCurrent, Publishing, Drafted, UsesIntent, Saved,
       AcceptedIsOnChain, Certain, RecordedIsOnChain

LEMMA StepIInv == IInv /\ [Next]_vars => IInv'
BY StepTypes, StepHasCurrent, StepDrafted, StepUsesIntent, StepAccepted,
   StepRecorded DEF IInv

-------------------------------------------------------------------------------
(* No double payment.  Every send block that a chain holds, or that a node *)
(* may still handle, is the block of the one intent of a send for that     *)
(* transfer; different positions of a chain are different blocks, so they  *)
(* belong to different sends.                                              *)

EndsWith(b, s) == b \in Seq(Op) /\ b # << >> /\ b[Len(b)] = Operation(s)

(* A signed block, saved or not yet, ends with its send's operation.       *)
SignedForTheSend ==
    /\ \A s \in Send : Signed(intent[s]) => EndsWith(intent[s].block, s)
    /\ \A i \in Instance : pc[i] \in {"drafted", "create"} =>
            EndsWith(draft[i].block, current[i])

(* The block is the saved block of some send from the account.             *)
IsIntentOf(s, a, b) == Source[s] = a /\ Signed(intent[s]) /\ intent[s].block = b
IntentAfter(s, a, b) == Source[s] = a /\ Signed(intent'[s]) /\ intent'[s].block = b

SubmittedIsSaved ==
    \A m \in wire : \E s \in Send : IsIntentOf(s, m.account, m.block)

ChainIsSaved ==
    \A a \in Account : \A n \in 1..Len(chain[a]) :
        chain[a][n].kind = "send" =>
            \E s \in Send : IsIntentOf(s, a, SubSeq(chain[a], 1, n))

PaidInv == IInv /\ SignedForTheSend /\ SubmittedIsSaved /\ ChainIsSaved

LEMMA StepSigned == PaidInv /\ [Next]_vars => SignedForTheSend'
<1> SUFFICES ASSUME PaidInv, [Next]_vars PROVE SignedForTheSend'
  OBVIOUS
<1> USE DEF PaidInv, IInv
<1>1. ASSUME NEW s \in Send, Signed(intent[s])
      PROVE  EndsWith(intent'[s].block, s)
  BY <1>1, StepKeepsSignature DEF SignedForTheSend
<1>2. ASSUME NEW j \in Instance, pc'[j] \in {"drafted", "create"}
      PROVE  EndsWith(draft'[j].block, current'[j])
  <2>1. CASE Still(j) BY <1>2, <2>1 DEF Still, SignedForTheSend
  <2>2. CASE AssertCurrent(j)
    <3>1. pc[j] = "drafted" /\ draft' = draft /\ current' = current
      BY <1>2, <2>2, AfterCheckDomain, AfterCheckValues
      DEF AssertCurrent, Goto, TypeOK
    <3> QED BY <3>1 DEF SignedForTheSend
  <2>3. CASE Prepare(j)
    <3> DEFINE c == chain[Source[current[j]]]
               e == Operation(current[j])
    <3>1. c \in Seq(Op) /\ e \in Op /\ current'[j] = current[j]
      BY <2>3, HomeType, OperationType DEF Prepare, Home, TypeOK
    <3>2. draft'[j].block = Append(c, e)
      BY <1>2, <2>3 DEF Prepare, Goto, TypeOK
    <3> HIDE DEF c
    <3>3. /\ Append(c, e) \in Seq(Op) /\ Append(c, e) # << >>
          /\ Append(c, e)[Len(Append(c, e))] = e
      BY <3>1, AppendProperties, LenProperties, EmptySeq
    <3> QED BY <3>1, <3>2, <3>3 DEF EndsWith
  <2>4. CASE Disturb(j)
    BY <1>2, <2>4 DEF Disturb, LookupFails, Skip, NextUp, ProcessTimesOut,
       CallFails, Crash, Goto, TypeOK
  <2>5. CASE Publish(j) /\ ~ AssertCurrent(j) /\ ~ Prepare(j)
    BY <1>2, <2>5 DEF Publish, Goto, Tick, EndTick, SkipLocked, Skip, NextUp,
       Acquire, Release, Load, CreateIntent, Process, AfterProcess, Verdict,
       Rework, UpdateWork, Fail, EmitFailed, MarkPublished, CacheFrontier,
       EmitPublished, TypeOK
  <2> QED BY <2>1, <2>2, <2>3, <2>4, <2>5, OthersStandStill
<1>3. ASSUME NEW s \in Send, ~ Signed(intent[s]), Signed(intent'[s])
      PROVE  EndsWith(intent'[s].block, s)
  <2>1. ASSUME NEW i \in Instance, CreateIntent(i) PROVE EndsWith(intent'[s].block, s)
    <3>1. s = current[i] /\ intent'[s] = draft[i]
      BY <1>3, <2>1, HomeType DEF CreateIntent, KeepFirst, TypeOK
    <3> QED BY <2>1, <3>1 DEF CreateIntent, SignedForTheSend
  <2>2. ASSUME NEW i \in Instance, UpdateWork(i) PROVE intent'[s].block = intent[s].block
    BY <2>2 DEF UpdateWork, TypeOK, SignedBlock
  <2>3. ASSUME NEW i \in Instance, Publish(i), ~ CreateIntent(i), ~ UpdateWork(i)
        PROVE  intent' = intent
    BY <2>3 DEF Publish, Tick, EndTick, SkipLocked, Skip, Acquire,
       AssertCurrent, Release, Load, Prepare, Process, Rework, Fail, EmitFailed,
       MarkPublished, CacheFrontier, EmitPublished, database
  <2>4. ASSUME NEW i \in Instance, Disturb(i) PROVE intent' = intent
    BY <2>4 DEF Disturb, LookupFails, Skip, ProcessTimesOut, CallFails, Crash,
       database
  <2>5. CASE Next
    BY <1>3, <2>1, <2>2, <2>3, <2>4, <2>5, TeamType
    DEF Next, QueueSend, Confirm, StopConfirming, LeaseOutlivesStall,
        LeaseOfTheDeadExpires, Expire, NodeHandlesLate, ReceiveDeposit, Signed,
        database
  <2>6. CASE UNCHANGED vars BY <1>3, <2>6 DEF vars, database, Signed
  <2> QED BY <2>5, <2>6
<1> QED BY <1>1, <1>2, <1>3 DEF SignedForTheSend

LEMMA StepKeepsIntents ==
    ASSUME PaidInv, [Next]_vars, NEW s \in Send, NEW a, NEW b,
           IsIntentOf(s, a, b)
    PROVE  IntentAfter(s, a, b)
<1>1. Signed(intent[s]) /\ intent'[s].block = intent[s].block
  BY StepKeepsSignature DEF PaidInv, IInv, IsIntentOf
<1> QED BY <1>1 DEF IsIntentOf, IntentAfter, Signed

LEMMA StepSubmitted == PaidInv /\ [Next]_vars => SubmittedIsSaved'
<1> SUFFICES ASSUME PaidInv, [Next]_vars, NEW m \in wire'
             PROVE  \E s \in Send : IntentAfter(s, m.account, m.block)
  BY DEF SubmittedIsSaved, IsIntentOf, IntentAfter
<1> USE DEF PaidInv, IInv
<1>1. CASE m \in wire
  <2>1. PICK s \in Send : IsIntentOf(s, m.account, m.block)
    BY <1>1 DEF SubmittedIsSaved
  <2> QED BY <2>1, StepKeepsIntents
<1>2. ASSUME NEW i \in Instance, ProcessTimesOut(i), m \notin wire
      PROVE  \E s \in Send : IntentAfter(s, m.account, m.block)
  <2>1. m.account = Source[current[i]] /\ m.block = draft[i].block
        /\ current[i] \in Send
    BY <1>2, HomeType DEF ProcessTimesOut, Home
  <2>2. IsIntentOf(current[i], m.account, m.block)
    BY <1>2, <2>1 DEF ProcessTimesOut, UsesIntent, Saved, IsIntentOf, Signed
  <2> QED BY <2>1, <2>2, StepKeepsIntents
<1>3. ASSUME NEW i \in Instance, Publish(i) PROVE wire' = wire
  BY <1>3 DEF Publish, Tick, EndTick, SkipLocked, Skip, Acquire, AssertCurrent,
     Release, Load, Prepare, CreateIntent, Process, Rework, UpdateWork, Fail,
     EmitFailed, MarkPublished, CacheFrontier, EmitPublished, network
<1>4. ASSUME NEW i \in Instance, Disturb(i), ~ ProcessTimesOut(i)
      PROVE  wire' = wire
  BY <1>4 DEF Disturb, LookupFails, Skip, CallFails, Crash, network
<1>5. CASE Next
  BY <1>1, <1>2, <1>3, <1>4, <1>5, TeamType
  DEF Next, QueueSend, Confirm, StopConfirming, LeaseOutlivesStall,
      LeaseOfTheDeadExpires, Expire, NodeHandlesLate, ReceiveDeposit, network
<1>6. CASE UNCHANGED vars BY <1>1, <1>6 DEF vars, network
<1> QED BY <1>5, <1>6

(* The blocks of a chain stay where they are when it grows by one.         *)
LEMMA GrownByIntent ==
    ASSUME PaidInv, [Next]_vars, NEW a \in Account, NEW d \in Seq(Op),
           d # << >>, Front(d) = chain[a], chain'[a] = d,
           d[Len(d)].kind = "send" => \E s \in Send : IsIntentOf(s, a, d)
    PROVE  \A n \in 1..Len(d) : d[n].kind = "send" =>
              \E s \in Send : IntentAfter(s, a, SubSeq(d, 1, n))
<1> USE DEF PaidInv, IInv
<1>1. Len(d) \in Nat /\ Len(d) # 0 BY LenProperties, EmptySeq
<1>2. Front(d) \in Seq(Op) /\ Len(Front(d)) = Len(d) - 1
      /\ \A k \in 1..(Len(d) - 1) : Front(d)[k] = d[k]
  BY FrontProperties
<1> TAKE n \in 1..Len(d)
<1> HAVE d[n].kind = "send"
<1>3. CASE n = Len(d)
  <2>1. SubSeq(d, 1, n) \in Seq(Op) /\ Len(SubSeq(d, 1, n)) = n
        /\ \A k \in 1..n : SubSeq(d, 1, n)[k] = d[k]
    BY <1>1, InitialPart
  <2> DEFINE dd == SubSeq(d, 1, n)
  <2>2. dd \in Seq(Op) /\ Len(dd) = Len(d) /\ \A k \in 1..Len(dd) : dd[k] = d[k]
    BY <1>3, <2>1
  <2> HIDE DEF dd
  <2>3. dd = d BY <2>2, SeqEqual
  <2>4. PICK s \in Send : IsIntentOf(s, a, d) BY <1>3
  <2>5. IsIntentOf(s, a, dd) BY <2>3, <2>4
  <2> QED BY <2>5, StepKeepsIntents DEF dd
<1>4. CASE n # Len(d)
  <2>1. n \in 1..(Len(d) - 1) /\ n \in 0..Len(d) /\ n \in 0..Len(Front(d)) BY <1>1, <1>2, <1>4
  <2>2. Front(d)[n] = d[n] BY <1>2, <2>1
  <2>3. PICK s \in Send : IsIntentOf(s, a, SubSeq(Front(d), 1, n))
    BY <1>2, <2>1, <2>2 DEF ChainIsSaved
  <2> DEFINE x == SubSeq(Front(d), 1, n)
             y == SubSeq(d, 1, n)
  <2>4. x \in Seq(Op) /\ Len(x) = n /\ \A k \in 1..n : x[k] = Front(d)[k]
    BY <1>2, <2>1, InitialPart
  <2>5. y \in Seq(Op) /\ Len(y) = n /\ \A k \in 1..n : y[k] = d[k]
    BY <2>1, InitialPart
  <2>6. \A k \in 1..n : x[k] = y[k] BY <1>1, <1>2, <2>1, <2>4, <2>5
  <2> HIDE DEF x, y
  <2>7. x = y BY <2>4, <2>5, <2>6, SeqEqual
  <2>8. IsIntentOf(s, a, y) BY <2>3, <2>7 DEF x
  <2> QED BY <2>8, StepKeepsIntents DEF y
<1> QED BY <1>3, <1>4

LEMMA StepChain == PaidInv /\ [Next]_vars => ChainIsSaved'
<1> SUFFICES ASSUME PaidInv, [Next]_vars, NEW a \in Account
             PROVE  \A n \in 1..Len(chain'[a]) : chain'[a][n].kind = "send" =>
                       \E s \in Send : IntentAfter(s, a, SubSeq(chain'[a], 1, n))
  BY DEF ChainIsSaved, IsIntentOf, IntentAfter
<1> DEFINE Goal == \A n \in 1..Len(chain'[a]) : chain'[a][n].kind = "send" =>
                       \E s \in Send : IntentAfter(s, a, SubSeq(chain'[a], 1, n))
<1> USE DEF PaidInv, IInv
<1>1. CASE chain'[a] = chain[a]
  <2> TAKE n \in 1..Len(chain'[a])
  <2> HAVE chain'[a][n].kind = "send"
  <2>1. PICK s \in Send : IsIntentOf(s, a, SubSeq(chain[a], 1, n))
    BY <1>1 DEF ChainIsSaved
  <2> QED BY <1>1, <2>1, StepKeepsIntents
<1>2. ASSUME NEW d \in Seq(Op), NEW w, NEW s \in Send, IsIntentOf(s, a, d),
             Verdict(d, w, chain[a]) = "accepted", chain'[a] = d
      PROVE  Goal
  <2>1. d # << >> /\ Front(d) = chain[a] BY <1>2 DEF Verdict
  <2> QED BY <1>2, <2>1, GrownByIntent
<1>3. ASSUME NEW i \in Instance, Process(i), chain'[a] # chain[a] PROVE Goal
  <2>1. /\ a = Home(i) /\ chain'[a] = draft[i].block
        /\ Verdict(draft[i].block, draft[i].work, chain[a]) = "accepted"
    BY <1>3, HomeType DEF Process, TypeOK
  <2>2. current[i] \in Send /\ draft[i].block \in Seq(Op)
    BY <1>3, HomeType DEF Process, TypeOK, SignedBlock
  <2>3. IsIntentOf(current[i], a, draft[i].block)
    BY <1>3, <2>1 DEF Process, UsesIntent, Saved, IsIntentOf, Signed, Home
  <2> QED BY <1>2, <2>1, <2>2, <2>3
<1>4. ASSUME NEW m \in wire, NodeHandlesLate(m), chain'[a] # chain[a] PROVE Goal
  <2>1. /\ a = m.account /\ chain'[a] = m.block
        /\ Verdict(m.block, m.work, chain[a]) = "accepted"
    BY <1>4 DEF NodeHandlesLate, TypeOK
  <2>2. m.block \in Seq(Op) BY DEF TypeOK
  <2>3. PICK s \in Send : IsIntentOf(s, a, m.block)
    BY <2>1 DEF SubmittedIsSaved
  <2> QED BY <1>2, <2>1, <2>2, <2>3
<1>5. ASSUME ReceiveDeposit(a) PROVE Goal
  <2> DEFINE e == ReceiveOp(deposits, 1)
             d == Append(chain[a], e)
  <2>1. e \in Op /\ e.kind = "receive"
    BY ConstantsAssumption, ReceiveOpType DEF TypeOK, ReceiveOp
  <2>2. /\ d \in Seq(Op) /\ d # << >> /\ Front(d) = chain[a] /\ d[Len(d)] = e
    <3>1. chain[a] \in Seq(Op) BY DEF TypeOK
    <3> QED BY <2>1, <3>1, AppendedBlock
  <2>3. chain'[a] = d BY <1>5 DEF ReceiveDeposit, TypeOK
  <2> HIDE DEF d
  <2>4. \A n \in 1..Len(d) : d[n].kind = "send" =>
            \E s \in Send : IntentAfter(s, a, SubSeq(d, 1, n))
    BY <2>1, <2>2, <2>3, GrownByIntent
  <2> QED BY <2>3, <2>4
<1>6. ASSUME NEW z \in Account, z # a, ReceiveDeposit(z) PROVE chain'[a] = chain[a]
  BY <1>6 DEF ReceiveDeposit, TypeOK
<1>7. ASSUME NEW i \in Instance, Publish(i), ~ Process(i) PROVE chain' = chain
  BY <1>7 DEF Publish, Tick, EndTick, SkipLocked, Skip, Acquire, AssertCurrent,
     Release, Load, Prepare, CreateIntent, Rework, UpdateWork, Fail, EmitFailed,
     MarkPublished, CacheFrontier, EmitPublished, network
<1>8. ASSUME NEW i \in Instance, Disturb(i) PROVE chain' = chain
  BY <1>8 DEF Disturb, LookupFails, Skip, ProcessTimesOut, CallFails, Crash,
     network
<1>9. CASE Next
  <2>1. CASE chain' = chain BY <1>1, <2>1
  <2>2. CASE chain' # chain
    BY <1>1, <1>3, <1>4, <1>5, <1>6, <1>7, <1>8, <1>9, <2>2, TeamType
    DEF Next, QueueSend, Confirm, StopConfirming, LeaseOutlivesStall,
        LeaseOfTheDeadExpires, Expire, network
  <2> QED BY <2>1, <2>2
<1>10. CASE UNCHANGED vars BY <1>1, <1>10 DEF vars, network
<1> QED BY <1>9, <1>10

LEMMA PaidInvGivesNoDouble == PaidInv => NeverPaidTwice
<1> SUFFICES ASSUME PaidInv, NEW s \in Send
             PROVE  Cardinality(Transfers(Source[s], Operation(s))) <=
                    Cardinality(Requests(Source[s], Operation(s)))
  BY DEF NeverPaidTwice
<1> DEFINE a == Source[s]
           c == chain[a]
           op == Operation(s)
           T == Transfers(a, op)
           R == Requests(a, op)
           Owner(n) == CHOOSE t \in Send : IsIntentOf(t, a, SubSeq(c, 1, n))
           f == [n \in T |-> Owner(n)]
<1>1. a \in Account /\ c \in Seq(Op) /\ op.kind = "send"
  BY ConstantsAssumption DEF PaidInv, IInv, TypeOK, Operation, SendOp
<1>2. Len(c) \in Nat /\ DOMAIN c = 1..Len(c) BY <1>1, LenProperties
<1>3. ASSUME NEW n \in T
      PROVE  /\ n \in 0..Len(c) /\ n \in 1..Len(c)
             /\ f[n] \in R /\ intent[f[n]].block = SubSeq(c, 1, n)
             /\ Len(intent[f[n]].block) = n
  <2>1. n \in 1..Len(c) /\ c[n] = op BY <1>2 DEF Transfers
  <2>2. \E t \in Send : IsIntentOf(t, a, SubSeq(c, 1, n))
    BY <1>1, <2>1 DEF PaidInv, ChainIsSaved
  <2>3. Owner(n) \in Send /\ IsIntentOf(Owner(n), a, SubSeq(c, 1, n))
    BY <2>2
  <2>4. f[n] = Owner(n) OBVIOUS
  <2>5. n \in 0..Len(c) BY <1>2, <2>1
  <2>6. Len(SubSeq(c, 1, n)) = n /\ \A k \in 1..n : SubSeq(c, 1, n)[k] = c[k]
    BY <1>1, <2>5, InitialPart
  <2> HIDE DEF f, Owner
  <2>7. intent[f[n]].block = SubSeq(c, 1, n) /\ Source[f[n]] = a /\ f[n] \in Send
        /\ Signed(intent[f[n]])
    BY <2>3, <2>4 DEF IsIntentOf
  <2>8. Operation(f[n]) = op
    BY <2>1, <2>6, <2>7 DEF PaidInv, SignedForTheSend, EndsWith
  <2> QED BY <2>1, <2>5, <2>6, <2>7, <2>8 DEF Requests
<1>4. IsFiniteSet(R)
  <2>1. R \in SUBSET Send BY DEF Requests
  <2> QED BY <2>1, ConstantsAssumption, FS_Subset
<1>5. f \in Injection(T, R)
  <2>1. f \in [T -> R] BY <1>3
  <2>2. \A m, n \in T : f[m] = f[n] => m = n BY <1>3
  <2> QED BY <2>1, <2>2 DEF Injection, IsInjective
<1>6. Cardinality(T) <= Cardinality(R)
  <2> HIDE DEF T, R, f
  <2> QED BY <1>4, <1>5, FS_Injection
<1> QED BY <1>6

LEMMA InitialPaidInv == Init => PaidInv
<1> SUFFICES ASSUME Init PROVE PaidInv
  OBVIOUS
<1>1. IInv BY InitialIInv
<1>2. SignedForTheSend /\ SubmittedIsSaved
  BY DEF Init, SignedForTheSend, SubmittedIsSaved, Signed, NoBlock
<1>3. ChainIsSaved
  <2>1. \A a \in Account : Len(chain[a]) = 0 BY EmptySeq DEF Init
  <2>2. 1..0 = {} OBVIOUS
  <2> QED BY <2>1, <2>2 DEF ChainIsSaved
<1> QED BY <1>1, <1>2, <1>3 DEF PaidInv

-------------------------------------------------------------------------------
(* The contract.  One process that owns the database, and no two sends     *)
(* that ask for the same transfer: the process finds the rows as it left   *)
(* them, and a saved block belongs to one send.                            *)

Unalike ==
    \A s, t \in Send : Source[s] = Source[t] /\ Operation(s) = Operation(t) => s = t

Reported == {"published", "confirmed"}

(* Up to its outcome, a publish works on a queued send.                    *)
Open == {"acquired", "load", "prepare", "drafted", "create", "short", "ready",
         "process", "rework", "reworked", "updateWork", "rejected", "fail",
         "accepted", "publish"}
WorksOnQueued ==
    /\ \A s \in Send : Signed(intent[s]) => status[s] # "absent"
    /\ \A i \in running :
        /\ \A s \in todo[i] : status[s] = "queued"
        /\ pc[i] \in Open =>
              status[current[i]] = "queued" /\ current[i] \notin todo[i]
        /\ pc[i] \in {"cache", "emitPublished"} => status[current[i]] \in Reported
        /\ \A s \in confirming[i] : status[s] \in Reported

(* Until it is saved there is no intent; then the process submits it, and  *)
(* gives low work a second try only when the saved work is low.            *)
Unsaved == {"prepare", "drafted", "create", "short"}
SubmitsIntent ==
    \A i \in running :
        /\ pc[i] \in Unsaved => ~ Signed(intent[current[i]])
        /\ pc[i] \in {"ready", "process", "rejected"} =>
              draft[i] = intent[current[i]]
        /\ pc[i] \in {"rework", "reworked", "updateWork"} =>
              intent[current[i]].work = "low"

(* A request with valid work, or a block that is on the chain, stands for  *)
(* an intent with valid work; one with low work is out of the chain's      *)
(* reach, and a send is given up only when it is.                          *)
ValidWorkIsSaved ==
    /\ \A m \in wire : \A s \in Send :
        IsIntentOf(s, m.account, m.block) /\ m.work = "valid" =>
            intent[s].work = "valid"
    /\ \A s \in Send : Moved(s) => intent[s].work = "valid"

Powerless(s) == Signed(intent[s]) => intent[s].work = "low"
GivesUpSafely ==
    /\ \A s \in Send : status[s] = "failed" => Powerless(s)
    /\ \A i \in running :
        pc[i] \in {"short", "rejected", "fail"} => Powerless(current[i])

AloneInv ==
    /\ PaidInv
    /\ WorksOnQueued /\ SubmitsIntent /\ GivesUpSafely /\ ValidWorkIsSaved

(* Who works on the database is settled by the first state.                *)
LEMMA StepKeepsTeam == [Next]_vars => running' = running
<1> USE DEF bounds, Fault
<1>1. ASSUME NEW i, Publish(i) PROVE running' = running
  BY <1>1 DEF Publish, Tick, EndTick, SkipLocked, Skip, Acquire, AssertCurrent,
     Release, Load, Prepare, GenerateWork, CreateIntent, Process, Rework,
     UpdateWork, Fail, EmitFailed, MarkPublished, CacheFrontier, EmitPublished
<1>2. ASSUME NEW i, Disturb(i) PROVE running' = running
  BY <1>2 DEF Disturb, LookupFails, Skip, ProcessTimesOut, CallFails, Crash
<1>3. CASE Next
  BY <1>1, <1>2, <1>3
  DEF Next, QueueSend, Confirm, StopConfirming, LeaseOutlivesStall,
      LeaseOfTheDeadExpires, Expire, NodeHandlesLate, ReceiveDeposit
<1>4. CASE UNCHANGED vars BY <1>4 DEF vars
<1> QED BY <1>3, <1>4

(* The only process takes a step of its publish, is disturbed, or stands   *)
(* still; then the intents and its own position stay.                      *)
Around ==
    \/ \E s \in Send : QueueSend(s)
    \/ \E i \in running, s \in Send : Confirm(i, s) \/ StopConfirming(i, s)
    \/ \E a \in Account : LeaseOutlivesStall(a) \/ LeaseOfTheDeadExpires(a)
    \/ \E a \in Account : ReceiveDeposit(a)
    \/ \E m \in wire : NodeHandlesLate(m)
    \/ UNCHANGED vars

LEMMA OneMoves ==
    ASSUME Alone, [Next]_vars, NEW j \in running
    PROVE  Publish(j) \/ Disturb(j) \/ Around
BY DEF Next, Alone, Around

LEMMA AroundStandsStill ==
    ASSUME Around
    PROVE  UNCHANGED <<intent, pc, todo, current, draft>>
BY DEF Around, QueueSend, Confirm, StopConfirming, LeaseOutlivesStall,
       LeaseOfTheDeadExpires, Expire, NodeHandlesLate, ReceiveDeposit,
       vars, database, local

LEMMA DisturbedGivesUp ==
    ASSUME TypeOK, NEW j \in Instance, Disturb(j)
    PROVE  /\ intent' = intent /\ status' = status
           /\ pc'[j] \in {"idle", "next", "release"}
           /\ todo'[j] \subseteq todo[j] /\ confirming'[j] \subseteq confirming[j]
BY DEF Disturb, LookupFails, NextUp, Skip, ProcessTimesOut, CallFails, Crash,
       Goto, TypeOK, database

(* A saved block belongs to one send, before and after a step.             *)
LEMMA OneOwner ==
    ASSUME PaidInv, Unalike, NEW s \in Send, NEW t \in Send, NEW a, NEW b,
           IsIntentOf(s, a, b), IsIntentOf(t, a, b)
    PROVE  s = t
BY DEF PaidInv, SignedForTheSend, EndsWith, IsIntentOf, Unalike

LEMMA OneOwnerAfter ==
    ASSUME SignedForTheSend', Unalike, NEW s \in Send, NEW t \in Send,
           NEW a, NEW b, IntentAfter(s, a, b), IntentAfter(t, a, b)
    PROVE  s = t
<1>1. /\ EndsWith(intent'[s].block, s) /\ EndsWith(intent'[t].block, t)
  BY DEF SignedForTheSend, IntentAfter, Signed
<1> QED BY <1>1 DEF EndsWith, IntentAfter, Unalike

LEMMA StepPaidInv == PaidInv /\ [Next]_vars => PaidInv'
BY StepIInv, StepSigned, StepSubmitted, StepChain DEF PaidInv

(* A block that is not saved yet is on no chain.                           *)
LEMMA UnsavedIsOffChain ==
    ASSUME PaidInv, Unalike, NEW s \in Send, ~ Signed(intent[s]),
           NEW b, EndsWith(b, s)
    PROVE  ~ OnChain(b, chain[Source[s]])
<1> SUFFICES ASSUME OnChain(b, chain[Source[s]]) PROVE FALSE
  OBVIOUS
<1> DEFINE a == Source[s]
           n == Len(b)
<1>1. a \in Account /\ chain[a] \in Seq(Op) /\ b \in Seq(Op)
  BY ConstantsAssumption DEF PaidInv, IInv, TypeOK, EndsWith
<1>2. n \in 1..Len(chain[a]) /\ chain[a][n] = Operation(s)
  BY <1>1, LastIsOnChain DEF EndsWith
<1>3. PICK t \in Send : IsIntentOf(t, a, SubSeq(chain[a], 1, n))
  BY <1>1, <1>2 DEF PaidInv, ChainIsSaved, Operation, SendOp
<1> DEFINE c == SubSeq(chain[a], 1, n)
<1>4. Len(c) = n /\ c[n] = chain[a][n]
  <2>1. n \in 0..Len(chain[a]) /\ n \in 1..n BY <1>1, <1>2, LenProperties
  <2> HIDE DEF n, a
  <2> QED BY <1>1, <2>1, InitialPart
<1>5. EndsWith(c, t) /\ Source[t] = a /\ Signed(intent[t])
  BY <1>3 DEF IsIntentOf, PaidInv, SignedForTheSend
<1>6. Operation(t) = Operation(s) BY <1>2, <1>4, <1>5 DEF EndsWith
<1> QED BY <1>5, <1>6 DEF Unalike

(* A send moves when, and only when, its own block is accepted: by the     *)
(* process that publishes it, or late.                                     *)
Submits(s) ==
    \/ \E i \in running : pc[i] = "process" /\ current[i] = s
    \/ \E m \in wire : IsIntentOf(s, m.account, m.block) /\ m.work = "valid"

(* The chain grows by a block that an intent with valid work holds, or by  *)
(* a receive.                                                              *)
GrowsBySend(a) ==
    \E s \in Send : /\ IsIntentOf(s, a, chain'[a]) /\ Submits(s)
                    /\ intent[s].work = "valid"
                    /\ \A z \in Account \ {a} : chain'[z] = chain[z]
Grows(a) ==
    /\ chain'[a] \in Seq(Op) /\ chain'[a] # << >>
    /\ Front(chain'[a]) = chain[a]
    /\ UNCHANGED <<intent, status>>
    /\ chain'[a][Len(chain'[a])].kind = "receive" \/ GrowsBySend(a)

LEMMA StepGrowsChain ==
    ASSUME AloneInv, [Next]_vars, NEW a \in Account, chain'[a] # chain[a]
    PROVE  Grows(a)
<1> USE DEF AloneInv, PaidInv, IInv
<1>i. running \subseteq Instance BY TeamType
<1> USE <1>i
<1>1. ASSUME NEW i \in running, Process(i) PROVE Grows(a)
  <2>1. /\ a = Home(i) /\ chain'[a] = draft[i].block
        /\ Verdict(draft[i].block, draft[i].work, chain[a]) = "accepted"
        /\ \A z \in Account \ {a} : chain'[z] = chain[z]
    BY <1>1, HomeType DEF Process, TypeOK
  <2>2. /\ current[i] \in Send /\ draft[i] = intent[current[i]]
        /\ draft[i].block \in Seq(Op) /\ draft[i].work \in Work
    BY <1>1, HomeType DEF Process, TypeOK, SignedBlock, SubmitsIntent
  <2>3. /\ draft[i].block # << >> /\ Front(draft[i].block) = chain[a]
        /\ draft[i].work = "valid"
    BY <2>1, <2>2 DEF Verdict, Work
  <2>4. IsIntentOf(current[i], a, draft[i].block)
    BY <2>1, <2>2, <2>3 DEF IsIntentOf, Signed, Home
  <2>5. Submits(current[i]) BY <1>1 DEF Process, Submits
  <2>6. GrowsBySend(a) BY <2>1, <2>2, <2>3, <2>4, <2>5 DEF GrowsBySend
  <2>7. UNCHANGED <<intent, status>> BY <1>1 DEF Process, database
  <2> QED BY <2>1, <2>2, <2>3, <2>6, <2>7 DEF Grows
<1>2. ASSUME NEW m \in wire, NodeHandlesLate(m) PROVE Grows(a)
  <2>1. /\ a = m.account /\ chain'[a] = m.block
        /\ Verdict(m.block, m.work, chain[a]) = "accepted"
        /\ \A z \in Account \ {a} : chain'[z] = chain[z]
    BY <1>2 DEF NodeHandlesLate, TypeOK
  <2>2. m.block \in Seq(Op) /\ m.work \in Work BY DEF TypeOK
  <2>3. m.block # << >> /\ Front(m.block) = chain[a] /\ m.work = "valid"
    BY <2>1, <2>2 DEF Verdict, Work
  <2>4. PICK s \in Send : IsIntentOf(s, a, m.block)
    BY <2>1 DEF SubmittedIsSaved
  <2>5. Submits(s) /\ intent[s].work = "valid"
    BY <2>1, <2>3, <2>4 DEF Submits, ValidWorkIsSaved
  <2>6. GrowsBySend(a) BY <2>1, <2>4, <2>5 DEF GrowsBySend
  <2>7. UNCHANGED <<intent, status>> BY <1>2 DEF NodeHandlesLate, database
  <2> QED BY <2>1, <2>2, <2>3, <2>6, <2>7 DEF Grows
<1>3. ASSUME NEW z \in Account, ReceiveDeposit(z) PROVE Grows(a)
  <2> DEFINE e == ReceiveOp(deposits, 1)
  <2>1. e \in Op /\ e.kind = "receive" /\ chain[a] \in Seq(Op)
    BY ConstantsAssumption, ReceiveOpType DEF TypeOK, ReceiveOp
  <2>2. chain'[a] = Append(chain[a], e)
    BY <1>3 DEF ReceiveDeposit, TypeOK
  <2>3. UNCHANGED <<intent, status>> BY <1>3 DEF ReceiveDeposit, database
  <2> HIDE DEF e
  <2> QED BY <2>1, <2>2, <2>3, AppendedBlock DEF Grows
<1>4. ASSUME NEW i \in running, Publish(i), ~ Process(i) PROVE chain' = chain
  BY <1>4 DEF Publish, Tick, EndTick, SkipLocked, Skip, Acquire, AssertCurrent,
     Release, Load, Prepare, CreateIntent, Rework, UpdateWork, Fail, EmitFailed,
     MarkPublished, CacheFrontier, EmitPublished, network
<1>5. ASSUME NEW i \in running, Disturb(i) PROVE chain' = chain
  BY <1>5 DEF Disturb, LookupFails, Skip, ProcessTimesOut, CallFails, Crash,
     network
<1>6. CASE Next
  BY <1>1, <1>2, <1>3, <1>4, <1>5, <1>6, TeamType
  DEF Next, QueueSend, Confirm, StopConfirming, LeaseOutlivesStall,
      LeaseOfTheDeadExpires, Expire, network
<1>7. CASE UNCHANGED vars BY <1>7 DEF vars, network
<1> QED BY <1>6, <1>7

LEMMA StepMoves ==
    ASSUME AloneInv, Unalike, [Next]_vars, NEW s \in Send,
           ~ Moved(s), OnChain(intent'[s].block, chain'[Source[s]])
    PROVE  /\ UNCHANGED <<intent, status>> /\ Signed(intent[s])
           /\ intent[s].work = "valid" /\ Submits(s)
           /\ \A t \in Send \ {s} :
                ~ Moved(t) => ~ OnChain(intent[t].block, chain'[Source[t]])
<1> DEFINE a == Source[s]
<1> USE DEF AloneInv, PaidInv, IInv
<1>i. running \subseteq Instance BY TeamType
<1> USE <1>i
<1>1. a \in Account /\ chain[a] \in Seq(Op) /\ intent[s].block \in Seq(Op)
  BY ConstantsAssumption DEF TypeOK, SignedBlock
<1>2. ASSUME chain'[a] = chain[a] PROVE FALSE
  <2>1. CASE Signed(intent[s])
    BY <1>2, <2>1, StepKeepsSignature DEF Moved
  <2>2. CASE ~ Signed(intent[s])
    <3>1. Signed(intent'[s]) BY DEF OnChain, Signed
    <3>2. EndsWith(intent'[s].block, s)
      BY <3>1, StepSigned DEF SignedForTheSend
    <3> QED BY <1>2, <2>2, <3>2, UnsavedIsOffChain
  <2> QED BY <2>1, <2>2
<1>3. Grows(a) BY <1>1, <1>2, StepGrowsChain
<1>4. intent[s].block = chain'[a]
  BY <1>1, <1>3, NewBlockIsFrontier DEF Moved, Grows
<1>5. Signed(intent[s]) /\ IsIntentOf(s, a, chain'[a])
  BY <1>3, <1>4 DEF Signed, IsIntentOf, Grows
<1>6. EndsWith(chain'[a], s) /\ Operation(s).kind = "send"
  BY <1>5 DEF SignedForTheSend, IsIntentOf, Operation, SendOp
<1>7. PICK t \in Send : /\ IsIntentOf(t, a, chain'[a]) /\ Submits(t)
                        /\ intent[t].work = "valid"
                        /\ \A z \in Account \ {a} : chain'[z] = chain[z]
  BY <1>3, <1>6 DEF EndsWith, Grows, GrowsBySend
<1>8. t = s BY <1>5, <1>7, OneOwner
<1>9. ASSUME NEW u \in Send \ {s}, ~ Moved(u),
             OnChain(intent[u].block, chain'[Source[u]])
      PROVE  FALSE
  <2>1. Source[u] \in Account /\ intent[u].block \in Seq(Op)
    BY ConstantsAssumption DEF TypeOK, SignedBlock
  <2>2. Source[u] = a BY <1>7, <1>9, <2>1 DEF Moved
  <2>3. intent[u].block = chain'[a]
    BY <1>1, <1>3, <1>9, <2>1, <2>2, NewBlockIsFrontier DEF Moved, Grows
  <2>4. IsIntentOf(u, a, chain'[a])
    BY <1>3, <2>2, <2>3 DEF Signed, IsIntentOf, Grows
  <2> QED BY <1>5, <2>4, OneOwner
<1> QED BY <1>3, <1>5, <1>7, <1>8, <1>9 DEF Grows

(* A send that moved has moved for good.                                   *)
LEMMA MovedForGood ==
    ASSUME PaidInv, [Next]_vars, NEW s \in Send, Moved(s)
    PROVE  OnChain(intent'[s].block, chain'[Source[s]])
<1> USE DEF PaidInv, IInv
<1>1. Signed(intent[s]) BY DEF Moved, OnChain, Signed
<1>2. Source[s] \in Account /\ intent[s].block \in Seq(Op)
  BY ConstantsAssumption DEF TypeOK, SignedBlock
<1>3. OnChain(intent[s].block, chain'[Source[s]])
  BY <1>2, StepKeepsBlocks DEF Moved
<1> QED BY <1>1, <1>3, StepKeepsSignature

LEMMA StepWorksOnQueued ==
    ASSUME AloneInv, Alone, [Next]_vars
    PROVE  WorksOnQueued'
<1> USE DEF AloneInv, PaidInv, IInv, WorksOnQueued, Reported
<1>i. running \subseteq Instance BY TeamType
<1> USE <1>i
<1>1. ASSUME NEW s \in Send, Signed(intent'[s]) PROVE status'[s] # "absent"
  <2>1. status[s] # "absent" => status'[s] # "absent"
    <3>1. ASSUME NEW i \in running, Publish(i), status[s] # "absent"
          PROVE  status'[s] # "absent"
      <4>1. CASE Fail(i) BY <3>1, <4>1 DEF Fail, TypeOK
      <4>2. CASE MarkPublished(i) BY <3>1, <4>2 DEF MarkPublished, TypeOK
      <4>3. CASE ~ Fail(i) /\ ~ MarkPublished(i)
        BY <3>1, <4>3 DEF Publish, Tick, EndTick, SkipLocked, Skip, Acquire,
           AssertCurrent, Release, Load, Prepare, CreateIntent, Process, Rework,
           UpdateWork, EmitFailed, CacheFrontier, EmitPublished, database
      <4> QED BY <4>1, <4>2, <4>3
    <3>2. CASE Around
      <4>1. ASSUME NEW t \in Send, QueueSend(t), status[s] # "absent"
            PROVE  status'[s] # "absent"
        BY <4>1 DEF QueueSend, TypeOK
      <4>2. ASSUME NEW i \in running, NEW t \in Send, Confirm(i, t),
                   status[s] # "absent"
            PROVE  status'[s] # "absent"
        BY <4>2 DEF Confirm, TypeOK
      <4> QED
        BY <3>2, <4>1, <4>2 DEF Around, StopConfirming, LeaseOutlivesStall,
           LeaseOfTheDeadExpires, Expire, NodeHandlesLate, ReceiveDeposit,
           vars, database
    <3> QED BY <3>1, <3>2, DisturbedGivesUp, TeamType DEF Next, Around
  <2>2. ASSUME ~ Signed(intent[s]) PROVE status[s] # "absent"
    <3>1. PICK i \in running : Publish(i)
      BY <1>1, <2>2, AroundStandsStill, DisturbedGivesUp, TeamType DEF Next, Around
    <3>2. CASE CreateIntent(i)
      <4>1. s = current[i]
        BY <1>1, <2>2, <3>2, HomeType DEF CreateIntent, TypeOK
      <4> QED BY <3>2, <4>1 DEF CreateIntent, Open
    <3>3. CASE UpdateWork(i)
      BY <1>1, <2>2, <3>3 DEF UpdateWork, TypeOK, SignedBlock, Signed
    <3>4. CASE ~ CreateIntent(i) /\ ~ UpdateWork(i)
      BY <1>1, <2>2, <3>1, <3>4 DEF Publish, Tick, EndTick, SkipLocked, Skip,
         Acquire, AssertCurrent, Release, Load, Prepare, Process, Rework, Fail,
         EmitFailed, MarkPublished, CacheFrontier, EmitPublished, database
    <3> QED BY <3>2, <3>3, <3>4
  <2> QED BY <2>1, <2>2
<1> SUFFICES ASSUME NEW j \in running
             PROVE  /\ \A s \in todo'[j] : status'[s] = "queued"
                    /\ pc'[j] \in Open => /\ status'[current'[j]] = "queued"
                                         /\ current'[j] \notin todo'[j]
                    /\ pc'[j] \in {"cache", "emitPublished"} =>
                          status'[current'[j]] \in Reported
                    /\ \A s \in confirming'[j] : status'[s] \in Reported
  BY <1>1, StepKeepsTeam
<1>2. todo[j] \subseteq Send /\ confirming[j] \subseteq Send BY DEF TypeOK
<1>3. CASE Tick(j)
  BY <1>3 DEF Tick, Goto, QueuedSends, TypeOK, database, Open
<1>4. CASE EndTick(j) \/ SkipLocked(j)
  BY <1>4 DEF EndTick, SkipLocked, NextUp, Skip, Goto, TypeOK, database, Open
<1>5. CASE Acquire(j)
  BY <1>2, <1>5 DEF Acquire, NextUp, Goto, TypeOK, Open
<1>6. CASE AssertCurrent(j)
  <2>1. /\ pc[j] \in Open /\ pc'[j] \in Open \cup {"release"}
        /\ UNCHANGED <<status, todo, current, confirming>>
    BY <1>6, AfterCheckDomain, AfterCheckValues
    DEF AssertCurrent, Goto, TypeOK, database, Open
  <2> QED BY <2>1 DEF Open
<1>7. CASE Release(j)
  BY <1>7 DEF Release, Goto, TypeOK, Open
<1>8. CASE Load(j) \/ Prepare(j) \/ CreateIntent(j) \/ Rework(j) \/ UpdateWork(j)
           \/ Process(j)
  <2>1. /\ pc[j] \in Open /\ pc'[j] \in Open \cup {"release"}
        /\ UNCHANGED <<status, todo, current, confirming>>
    BY <1>8 DEF Load, Prepare, CreateIntent, Rework, UpdateWork, Process,
       AfterProcess, Verdict, Goto, TypeOK, database, Open
  <2> QED BY <2>1 DEF Open
<1>9. CASE Fail(j)
  <2>1. current[j] \in Send BY <1>9, HomeType DEF Fail
  <2>2. /\ status' = [status EXCEPT ![current[j]] = "failed"]
        /\ pc'[j] = "emitFailed" /\ UNCHANGED <<todo, confirming>>
    BY <1>9 DEF Fail, Goto, TypeOK
  <2>3. status[current[j]] = "queued" /\ current[j] \notin todo[j]
    BY <1>9 DEF Fail, Open
  <2> QED BY <1>2, <2>1, <2>2, <2>3 DEF TypeOK, Open
<1>10. CASE MarkPublished(j)
  <2>1. current[j] \in Send BY <1>10, HomeType DEF MarkPublished
  <2>2. /\ status' = [status EXCEPT ![current[j]] = "published"]
        /\ pc'[j] \in {"cache", "emitPublished"}
        /\ UNCHANGED <<todo, confirming, current>>
    BY <1>10 DEF MarkPublished, Goto, TypeOK
  <2>3. status[current[j]] = "queued" /\ current[j] \notin todo[j]
    BY <1>10 DEF MarkPublished, Open
  <2> QED BY <1>2, <2>1, <2>2, <2>3 DEF TypeOK, Open
<1>11. CASE EmitFailed(j) \/ CacheFrontier(j)
  <2>1. pc'[j] \in {"release", "emitPublished"} /\ (CacheFrontier(j) => pc[j] = "cache")
        /\ (EmitFailed(j) => pc'[j] = "release")
    BY <1>11 DEF EmitFailed, CacheFrontier, Goto, TypeOK
  <2>2. UNCHANGED <<status, todo, current, confirming>>
    BY <1>11 DEF EmitFailed, CacheFrontier
  <2> QED BY <1>11, <2>1, <2>2 DEF Open
<1>12. CASE EmitPublished(j)
  <2>1. pc[j] = "emitPublished" /\ pc'[j] = "release"
        /\ confirming'[j] = confirming[j] \cup {current[j]}
    BY <1>12 DEF EmitPublished, Goto, TypeOK
  <2>2. UNCHANGED <<status, todo, current>> BY <1>12 DEF EmitPublished
  <2> QED BY <2>1, <2>2 DEF Open
<1>13. CASE Disturb(j)
  BY <1>13, DisturbedGivesUp DEF Open
<1>14. CASE Around
  <2>1. ASSUME NEW s \in Send, QueueSend(s)
        PROVE  /\ \A t \in Send : status[t] # "absent" => status'[t] = status[t]
               /\ confirming' = confirming
    BY <2>1 DEF QueueSend, TypeOK, local
  <2>2. ASSUME NEW i \in running, NEW s \in Send, Confirm(i, s)
        PROVE  /\ \A t \in Send : status[t] \notin Reported => status'[t] = status[t]
               /\ \A t \in Send : status[t] \in Reported => status'[t] \in Reported
               /\ confirming'[j] \subseteq confirming[j]
    BY <2>2 DEF Confirm, TypeOK
  <2>3. ASSUME ~ \E s \in Send : QueueSend(s),
               ~ \E i \in running, s \in Send : Confirm(i, s)
        PROVE  status' = status /\ confirming'[j] \subseteq confirming[j]
    <3>1. CASE \E i \in running, s \in Send : StopConfirming(i, s)
      BY <3>1 DEF StopConfirming, database, TypeOK
    <3>2. CASE ~ \E i \in running, s \in Send : StopConfirming(i, s)
      BY <1>14, <2>3, <3>2 DEF Around, LeaseOutlivesStall,
         LeaseOfTheDeadExpires, Expire, NodeHandlesLate, ReceiveDeposit, vars,
         database, local
    <3> QED BY <3>1, <3>2
  <2>4. /\ \A t \in Send : status[t] = "queued" => status'[t] = "queued"
        /\ \A t \in Send : status[t] \in Reported => status'[t] \in Reported
        /\ confirming'[j] \subseteq confirming[j]
    BY <2>1, <2>2, <2>3
  <2>5. pc[j] \in Open \cup {"cache", "emitPublished"} => current[j] \in Send
    BY HomeType DEF Open
  <2>6. UNCHANGED <<pc, todo, current>> BY <1>14, AroundStandsStill
  <2>7. \A t \in todo'[j] : status'[t] = "queued" BY <1>2, <2>4, <2>6
  <2>8. \A t \in confirming'[j] : status'[t] \in Reported BY <1>2, <2>4
  <2> QED BY <2>4, <2>5, <2>6, <2>7, <2>8
<1> QED
  BY <1>3, <1>4, <1>5, <1>6, <1>7, <1>8, <1>9, <1>10, <1>11, <1>12, <1>13,
     <1>14, OneMoves DEF Publish

LEMMA StepSubmitsIntent ==
    ASSUME AloneInv, Alone, [Next]_vars
    PROVE  SubmitsIntent'
<1> USE DEF AloneInv, PaidInv, IInv, SubmitsIntent
<1>i. running \subseteq Instance BY TeamType
<1> USE <1>i
<1> SUFFICES ASSUME NEW j \in running
             PROVE  /\ pc'[j] \in Unsaved => ~ Signed(intent'[current'[j]])
                    /\ pc'[j] \in {"ready", "process", "rejected"} =>
                          draft'[j] = intent'[current'[j]]
                    /\ pc'[j] \in {"rework", "reworked", "updateWork"} =>
                          intent'[current'[j]].work = "low"
  BY StepKeepsTeam DEF Signed
<1>1. CASE Load(j)
  BY <1>1, HomeType DEF Load, Goto, TypeOK, database, Unsaved
<1>2. CASE Prepare(j)
  BY <1>2, HomeType DEF Prepare, Goto, TypeOK, database, Unsaved
<1>3. CASE CreateIntent(j)
  BY <1>3, HomeType DEF CreateIntent, Goto, TypeOK, Unsaved
<1>4. CASE Process(j)
  <2>1. /\ draft[j] = intent[current[j]]
        /\ UNCHANGED <<intent, current, draft>>
        /\ pc'[j] \in {"accepted", "rejected", "rework", "release"}
        /\ pc'[j] = "rework" => draft[j].work = "low"
    BY <1>4 DEF Process, Goto, AfterProcess, Verdict, TypeOK, database
  <2> QED BY <2>1 DEF Unsaved
<1>5. CASE Rework(j)
  BY <1>5, HomeType DEF Rework, Goto, TypeOK, database, Unsaved
<1>6. CASE UpdateWork(j)
  <2>1. current[j] \in Send BY <1>6, HomeType DEF UpdateWork
  <2>2. draft[j].block = intent[current[j]].block
    BY <1>6 DEF UpdateWork, UsesIntent, Saved
  <2>3. /\ intent'[current[j]] = [intent[current[j]] EXCEPT !.work = draft[j].work]
        /\ pc'[j] = "ready" /\ UNCHANGED <<draft, current>>
    BY <1>6, <2>1 DEF UpdateWork, Goto, TypeOK
  <2>4. draft[j] \in SignedBlock /\ intent[current[j]] \in SignedBlock
    BY <2>1 DEF TypeOK
  <2>5. draft[j] = intent'[current[j]] BY <2>2, <2>3, <2>4 DEF SignedBlock
  <2> QED BY <2>3, <2>5 DEF Unsaved
<1>7. CASE AssertCurrent(j)
  BY <1>7, AfterCheckDomain, AfterCheckValues
  DEF AssertCurrent, Goto, TypeOK, database, Unsaved
<1>8. CASE Disturb(j) BY <1>8, DisturbedGivesUp DEF Unsaved
<1>9. CASE Around
  BY <1>9, AroundStandsStill
<1>10. CASE Tick(j) \/ EndTick(j) \/ SkipLocked(j) \/ Acquire(j) \/ Release(j)
            \/ Fail(j) \/ EmitFailed(j) \/ MarkPublished(j) \/ CacheFrontier(j)
            \/ EmitPublished(j)
  BY <1>10 DEF Tick, EndTick, SkipLocked, NextUp, Skip, Acquire, Release, Fail,
     EmitFailed, MarkPublished, CacheFrontier, EmitPublished, Goto, TypeOK,
     Unsaved
<1> QED
  BY <1>1, <1>2, <1>3, <1>4, <1>5, <1>6, <1>7, <1>8, <1>9, <1>10, OneMoves
  DEF Publish

(* Valid work stays: only low work is replaced.                            *)
LEMMA ValidWorkStays ==
    ASSUME AloneInv, [Next]_vars, NEW s \in Send,
           Signed(intent[s]), intent[s].work = "valid"
    PROVE  intent'[s].work = "valid"
<1> USE DEF AloneInv, PaidInv, IInv
<1>i. running \subseteq Instance BY TeamType
<1> USE <1>i
<1>1. ASSUME NEW i \in running, CreateIntent(i) PROVE intent'[s].work = "valid"
  BY <1>1, HomeType DEF CreateIntent, KeepFirst, TypeOK
<1>2. ASSUME NEW i \in running, UpdateWork(i) PROVE intent'[s].work = "valid"
  <2>1. current[i] \in Send /\ intent[current[i]].work = "low"
    BY <1>2, HomeType DEF UpdateWork, SubmitsIntent
  <2> QED BY <1>2, <2>1 DEF UpdateWork, TypeOK
<1>3. ASSUME NEW i \in running, Publish(i), ~ CreateIntent(i), ~ UpdateWork(i)
      PROVE  intent' = intent
  BY <1>3 DEF Publish, Tick, EndTick, SkipLocked, Skip, Acquire, AssertCurrent,
     Release, Load, Prepare, Process, Rework, Fail, EmitFailed,
     MarkPublished, CacheFrontier, EmitPublished, database
<1> QED
  BY <1>1, <1>2, <1>3, DisturbedGivesUp, AroundStandsStill, TeamType DEF Next, Around

LEMMA StepValidWork ==
    ASSUME AloneInv, Unalike, [Next]_vars
    PROVE  ValidWorkIsSaved'
<1> USE DEF AloneInv, PaidInv, IInv
<1>i. running \subseteq Instance BY TeamType
<1> USE <1>i
<1>1. ASSUME NEW m \in wire', NEW s \in Send,
             IntentAfter(s, m.account, m.block), m.work = "valid"
      PROVE  intent'[s].work = "valid"
  <2>1. ASSUME NEW t \in Send, IsIntentOf(t, m.account, m.block),
               intent[t].work = "valid"
        PROVE  intent'[s].work = "valid"
    <3>1. IntentAfter(t, m.account, m.block) BY <2>1, StepKeepsIntents
    <3>2. SignedForTheSend' BY StepSigned
    <3>3. t = s BY <1>1, <3>1, <3>2, OneOwnerAfter
    <3> QED BY <2>1, <3>3, ValidWorkStays DEF IsIntentOf
  <2>2. CASE m \in wire
    <3>1. PICK t \in Send : IsIntentOf(t, m.account, m.block)
      BY <2>2 DEF SubmittedIsSaved
    <3> QED BY <1>1, <2>1, <2>2, <3>1 DEF ValidWorkIsSaved
  <2>3. CASE m \notin wire
    <3>1. PICK i \in running : ProcessTimesOut(i)
      <4>1. ASSUME NEW i \in running, Publish(i) PROVE wire' = wire
        BY <4>1 DEF Publish, Tick, EndTick, SkipLocked, Skip, Acquire,
           AssertCurrent, Release, Load, Prepare, CreateIntent, Process, Rework,
           UpdateWork, Fail, EmitFailed, MarkPublished, CacheFrontier,
           EmitPublished, network
      <4>2. ASSUME NEW i \in running, Disturb(i), ~ ProcessTimesOut(i)
            PROVE  wire' = wire
        BY <4>2 DEF Disturb, LookupFails, Skip, CallFails, Crash, network
      <4>3. Around => wire' \subseteq wire
        BY DEF Around, QueueSend, Confirm, StopConfirming, LeaseOutlivesStall,
           LeaseOfTheDeadExpires, Expire, NodeHandlesLate, ReceiveDeposit,
           vars, network
      <4> QED BY <1>1, <2>3, <4>1, <4>2, <4>3, TeamType DEF Next, Around, Disturb
    <3>2. m = [account |-> Home(i), block |-> draft[i].block, work |-> draft[i].work]
      BY <1>1, <2>3, <3>1 DEF ProcessTimesOut
    <3>3. /\ current[i] \in Send /\ draft[i] = intent[current[i]]
          /\ Signed(draft[i])
      BY <3>1, HomeType DEF ProcessTimesOut, SubmitsIntent, UsesIntent, Saved
    <3>4. IsIntentOf(current[i], m.account, m.block)
      BY <3>2, <3>3 DEF IsIntentOf, Home, Signed
    <3> QED BY <1>1, <2>1, <3>2, <3>3, <3>4
  <2> QED BY <2>2, <2>3
<1>2. ASSUME NEW s \in Send, OnChain(intent'[s].block, chain'[Source[s]])
      PROVE  intent'[s].work = "valid"
  <2>1. CASE Moved(s)
    <3>1. Signed(intent[s]) /\ intent[s].work = "valid"
      BY <2>1 DEF ValidWorkIsSaved, Moved, OnChain, Signed
    <3> QED BY <3>1, ValidWorkStays
  <2>2. CASE ~ Moved(s)
    BY <1>2, <2>2, StepMoves, ValidWorkStays
  <2> QED BY <2>1, <2>2
<1> QED BY <1>1, <1>2 DEF ValidWorkIsSaved, IntentAfter, IsIntentOf, Moved, Signed

LEMMA StepGivesUpSafely ==
    ASSUME AloneInv, Alone, [Next]_vars
    PROVE  GivesUpSafely'
<1> USE DEF AloneInv, PaidInv, IInv, GivesUpSafely
<1>i. running \subseteq Instance BY TeamType
<1> USE <1>i
<1>1. ASSUME NEW s \in Send, status'[s] = "failed", Signed(intent'[s])
      PROVE  intent'[s].work = "low"
  <2>1. ASSUME NEW i \in running, Publish(i) PROVE intent'[s].work = "low"
    <3>1. CASE Fail(i)
      <4>1. intent' = intent /\ \A t \in Send \ {current[i]} : status'[t] = status[t]
        BY <3>1, HomeType DEF Fail, TypeOK
      <4>2. Powerless(current[i]) BY <3>1 DEF Fail
      <4> QED BY <1>1, <4>1, <4>2 DEF Powerless
    <3>2. CASE CreateIntent(i) \/ UpdateWork(i)
      <4>1. /\ status' = status /\ status[current[i]] = "queued"
            /\ current[i] \in Send
            /\ \A t \in Send \ {current[i]} : intent'[t] = intent[t]
        BY <3>2, HomeType
        DEF CreateIntent, UpdateWork, WorksOnQueued, Open, TypeOK
      <4> QED BY <1>1, <4>1 DEF Powerless, Signed
    <3>3. CASE MarkPublished(i)
      <4>1. intent' = intent /\ status'[s] = "failed" => status[s] = "failed"
        BY <3>3 DEF MarkPublished, TypeOK
      <4>2. intent' = intent BY <3>3 DEF MarkPublished
      <4>3. status[s] = "failed" BY <1>1, <4>1, <4>2
      <4> QED BY <1>1, <4>2, <4>3 DEF Powerless
    <3>4. CASE ~ Fail(i) /\ ~ CreateIntent(i) /\ ~ UpdateWork(i) /\ ~ MarkPublished(i)
      <4>1. intent' = intent /\ status' = status
        BY <2>1, <3>4 DEF Publish, Tick, EndTick, SkipLocked, Skip, Acquire,
           AssertCurrent, Release, Load, Prepare, Process, Rework, EmitFailed,
           CacheFrontier, EmitPublished, database
      <4> QED BY <1>1, <4>1 DEF Powerless
    <3> QED BY <3>1, <3>2, <3>3, <3>4
  <2>2. ASSUME NEW i \in running, Disturb(i) PROVE intent'[s].work = "low"
    BY <1>1, <2>2, DisturbedGivesUp DEF Powerless
  <2>3. CASE Around
    <3>1. intent' = intent BY <2>3, AroundStandsStill
    <3>2. ASSUME NEW t \in Send, QueueSend(t) PROVE status[s] = "failed"
      BY <1>1, <3>2 DEF QueueSend, TypeOK
    <3>3. ASSUME NEW i \in running, NEW t \in Send, Confirm(i, t)
          PROVE  status[s] = "failed"
      BY <1>1, <3>3 DEF Confirm, TypeOK
    <3>4. status[s] = "failed"
      BY <1>1, <2>3, <3>2, <3>3 DEF Around, StopConfirming, LeaseOutlivesStall,
         LeaseOfTheDeadExpires, Expire, NodeHandlesLate, ReceiveDeposit, vars,
         database
    <3> QED BY <1>1, <3>1, <3>4 DEF Powerless
  <2> QED BY <2>1, <2>2, <2>3, TeamType DEF Next, Around
<1>2. ASSUME NEW j \in running, pc'[j] \in {"short", "rejected", "fail"},
             Signed(intent'[current'[j]])
      PROVE  intent'[current'[j]].work = "low"
  <2>1. CASE Prepare(j)
    BY <1>2, <2>1 DEF Prepare, Goto, TypeOK, SubmitsIntent, Unsaved, database
  <2>2. CASE Process(j)
    <3>1. /\ draft[j] = intent[current[j]]
          /\ UNCHANGED <<intent, current>> /\ draft[j].work = "low"
      BY <1>2, <2>2 DEF Process, Goto, AfterProcess, Verdict, TypeOK, database,
         SubmitsIntent
    <3> QED BY <3>1
  <2>3. CASE AssertCurrent(j)
    <3>1. /\ pc[j] \in {"short", "rejected"}
          /\ UNCHANGED <<intent, current>>
      BY <1>2, <2>3, AfterCheckDomain, AfterCheckValues
      DEF AssertCurrent, Goto, TypeOK, database
    <3> QED BY <1>2, <3>1 DEF Powerless
  <2>4. CASE Disturb(j) BY <1>2, <2>4, DisturbedGivesUp
  <2>5. CASE Around BY <1>2, <2>5, AroundStandsStill DEF Powerless
  <2>6. CASE Tick(j) \/ EndTick(j) \/ SkipLocked(j) \/ Acquire(j) \/ Release(j)
             \/ Load(j) \/ CreateIntent(j) \/ Rework(j) \/ UpdateWork(j)
             \/ Fail(j) \/ EmitFailed(j) \/ MarkPublished(j) \/ CacheFrontier(j)
             \/ EmitPublished(j)
    BY <1>2, <2>6 DEF Tick, EndTick, SkipLocked, NextUp, Skip, Acquire, Release,
       Load, CreateIntent, Rework, UpdateWork, Fail, EmitFailed, MarkPublished,
       CacheFrontier, EmitPublished, Goto, TypeOK
  <2> QED BY <2>1, <2>2, <2>3, <2>4, <2>5, <2>6, OneMoves DEF Publish
<1> QED BY <1>1, <1>2, StepKeepsTeam DEF Powerless, Signed

LEMMA StepAloneInv ==
    ASSUME Unalike
    PROVE  Alone /\ AloneInv /\ [Next]_vars => AloneInv'
BY StepPaidInv, StepWorksOnQueued, StepSubmitsIntent, StepGivesUpSafely,
   StepValidWork DEF AloneInv

TeamInv == PaidInv /\ (Alone => AloneInv)

LEMMA StepTeamInv ==
    ASSUME Unalike
    PROVE  TeamInv /\ [Next]_vars => TeamInv'
BY StepPaidInv, StepAloneInv, StepKeepsTeam DEF TeamInv, Alone

LEMMA InitialAloneInv == Init => AloneInv
<1> SUFFICES ASSUME Init PROVE AloneInv
  OBVIOUS
<1>1. PaidInv /\ running \subseteq Instance
  BY InitialPaidInv, TeamType DEF PaidInv, IInv
<1> QED
  BY <1>1
   DEF Init, AloneInv, WorksOnQueued, SubmitsIntent, GivesUpSafely,
       ValidWorkIsSaved, Signed, NoBlock, Open, Unsaved, Moved, OnChain

(* The steps of the pipeline as steps of the contract.                     *)
Movement == [s \in Send |-> Moved(s)]

LEMMA InitImplements == Init => Contract!Init
<1> SUFFICES ASSUME Init PROVE Contract!Init OBVIOUS
<1>1. \A s \in Send : Moved(s) = FALSE BY DEF Init, Moved, OnChain, NoBlock
<1>2. status = [s \in Send |-> "absent"] BY DEF Init
<1> QED BY <1>1, <1>2, Zenon DEF Contract!Init

(* What moves a send is its own accepted block, while it is queued.        *)
LEMMA MovesAreTransfers ==
    ASSUME AloneInv, Unalike, [Next]_vars
    PROVE  \/ Movement' = Movement
           \/ \E s \in Send : Contract!Transfer(s)
<1> USE DEF AloneInv, PaidInv, IInv
<1>i. running \subseteq Instance BY TeamType
<1> USE <1>i
<1>1. \A s \in Send : Moved(s) => OnChain(intent'[s].block, chain'[Source[s]])
  BY MovedForGood
<1>2. CASE \A s \in Send : ~ Moved(s) => ~ OnChain(intent'[s].block, chain'[Source[s]])
  <2>1. \A s \in Send : Moved(s)' = Moved(s)
    BY <1>1, <1>2 DEF Moved, OnChain
  <2> QED BY <2>1, Zenon DEF Movement
<1>3. ASSUME NEW s \in Send, ~ Moved(s),
             OnChain(intent'[s].block, chain'[Source[s]])
      PROVE  Contract!Transfer(s)
  <2>1. /\ UNCHANGED <<intent, status>> /\ Signed(intent[s])
        /\ intent[s].work = "valid" /\ Submits(s)
        /\ \A t \in Send \ {s} :
              ~ Moved(t) => ~ OnChain(intent[t].block, chain'[Source[t]])
    BY <1>3, StepMoves
  <2>2. status[s] = "queued"
    <3>1. status[s] # "failed" BY <2>1 DEF GivesUpSafely, Powerless
    <3>2. status[s] # "absent" BY <2>1 DEF WorksOnQueued
    <3>3. status[s] \notin {"published", "confirmed"}
      BY <1>3 DEF RecordedIsOnChain, Moved
    <3> QED BY <3>1, <3>2, <3>3 DEF TypeOK, SendStatus
  <2>3. \A t \in Send \ {s} : Moved(t)' = Moved(t)
    BY <1>1, <2>1 DEF Moved, OnChain
  <2>4. Moved(s)' = TRUE BY <1>3 DEF Moved, OnChain
  <2>5. Movement' = [Movement EXCEPT ![s] = TRUE]
    BY <2>3, <2>4, Zenon DEF Movement
  <2> QED BY <1>3, <2>1, <2>2, <2>5 DEF Contract!Transfer, Movement
<1> QED BY <1>2, <1>3

(* What changes a status is a report of the contract.                      *)
LEMMA ReportsAreSteps ==
    ASSUME AloneInv, Unalike, [Next]_vars, status' # status
    PROVE  \E s \in Send :
              \/ Contract!Accept(s) \/ Contract!ReportPublished(s)
              \/ Contract!ReportConfirmed(s) \/ Contract!ReportFailed(s)
<1> USE DEF AloneInv, PaidInv, IInv, Contract!Become
<1>i. running \subseteq Instance BY TeamType
<1> USE <1>i
<1>1. Movement' = Movement
  BY MovesAreTransfers DEF Contract!Transfer
<1>2. [s \in Send |-> Moved(s)]' = [s \in Send |-> Moved(s)]
  BY <1>1 DEF Movement
<1>3. ASSUME NEW s \in Send, QueueSend(s) PROVE Contract!Accept(s)
  BY <1>2, <1>3 DEF QueueSend, Contract!Accept
<1>4. ASSUME NEW i \in running, Fail(i) PROVE Contract!ReportFailed(current[i])
  <2>1. /\ current[i] \in Send /\ status[current[i]] = "queued"
        /\ Powerless(current[i])
    BY <1>4, HomeType DEF Fail, WorksOnQueued, Open, GivesUpSafely
  <2>2. ~ Moved(current[i])
    <3>1. Moved(current[i]) => Signed(intent[current[i]])
      BY DEF Moved, OnChain, Signed
    <3> QED BY <2>1, <3>1 DEF ValidWorkIsSaved, Powerless
  <2>3. [s \in Send |-> Moved(s)][current[i]] = Moved(current[i]) BY <2>1
  <2>4. status' = [status EXCEPT ![current[i]] = "failed"] BY <1>4 DEF Fail
  <2> QED BY <1>2, <2>1, <2>2, <2>3, <2>4, Zenon DEF Contract!ReportFailed
<1>5. ASSUME NEW i \in running, MarkPublished(i)
      PROVE  Contract!ReportPublished(current[i])
  <2>1. current[i] \in Send /\ status[current[i]] = "queued"
    BY <1>5, HomeType DEF MarkPublished, WorksOnQueued, Open
  <2>2. Moved(current[i])
    BY <1>5 DEF MarkPublished, UsesIntent, Saved, AcceptedIsOnChain, Certain,
       Home, Moved
  <2>3. [s \in Send |-> Moved(s)][current[i]] = Moved(current[i]) BY <2>1
  <2>4. status' = [status EXCEPT ![current[i]] = "published"]
    BY <1>5 DEF MarkPublished
  <2> QED BY <1>2, <2>1, <2>2, <2>3, <2>4, Zenon DEF Contract!ReportPublished
<1>6. ASSUME NEW i \in running, NEW s \in Send, Confirm(i, s)
      PROVE  Contract!ReportConfirmed(s)
  <2>1. /\ status' = [status EXCEPT ![s] = "confirmed"]
        /\ status[s] # "confirmed" /\ status[s] \in Reported
    BY <1>6 DEF Confirm, WorksOnQueued
  <2>2. status[s] = "published" /\ Moved(s)
    BY <1>6, <2>1 DEF Confirm, Reported, RecordedIsOnChain, Moved, OnChain
  <2>3. [z \in Send |-> Moved(z)][s] = Moved(s) OBVIOUS
  <2> QED BY <1>2, <2>1, <2>2, <2>3, Zenon DEF Contract!ReportConfirmed
<1>7. ASSUME NEW i \in running, Publish(i), ~ Fail(i), ~ MarkPublished(i)
      PROVE  FALSE
  BY <1>7 DEF Publish, Tick, EndTick, SkipLocked, Skip, Acquire, AssertCurrent,
     Release, Load, Prepare, CreateIntent, Process, Rework, UpdateWork,
     EmitFailed, CacheFrontier, EmitPublished, database
<1>8. ~ \E i \in running : Disturb(i) BY DisturbedGivesUp
<1>9. ASSUME NEW i \in running, Fail(i) \/ MarkPublished(i)
      PROVE  current[i] \in Send
  BY <1>9, HomeType DEF Fail, MarkPublished
<1>10. CASE Next
  BY <1>3, <1>4, <1>5, <1>6, <1>7, <1>8, <1>9, <1>10, TeamType
  DEF Next, StopConfirming, LeaseOutlivesStall, LeaseOfTheDeadExpires, Expire,
      NodeHandlesLate, ReceiveDeposit, database
<1>11. CASE UNCHANGED vars BY <1>11 DEF vars, database
<1> QED BY <1>10, <1>11

LEMMA StepImplements ==
    ASSUME Unalike, AloneInv, [Next]_vars
    PROVE  Contract!Next \/ UNCHANGED <<status, Movement>>
<1>1. CASE status' = status BY <1>1, MovesAreTransfers DEF Contract!Next
<1>2. CASE status' # status BY <1>2, ReportsAreSteps DEF Contract!Next
<1> QED BY <1>1, <1>2

-------------------------------------------------------------------------------
(* Theorems.                                                               *)

(* The inductive invariant holds in every state of the send pipeline.      *)
THEOREM InvariantHolds == Spec => []IInv
BY InitialIInv, StepIInv, PTL DEF Spec

(* The rows, the instances' variables and the chains keep their types.     *)
THEOREM TypesHold == Spec => []TypeOK
<1>1. IInv => TypeOK BY DEF IInv
<1> QED BY <1>1, InvariantHolds, PTL

(* However many instances race, crash, stall or time out: a send reported  *)
(* as published or confirmed names the block of its one saved intent, and  *)
(* that block is on the chain of its source.                               *)
THEOREM ReportsAreTrue == Spec => []ReportedIsOnChain
<1>1. IInv => ReportedIsOnChain
  BY DEF IInv, RecordedIsOnChain, ReportedIsOnChain
<1> QED BY <1>1, InvariantHolds, PTL

(* No step replaces the block of a saved intent (createIfAbsent and        *)
(* updateWork are the only writers).                                       *)
THEOREM SignedOnlyOnce == Spec => SignedOnce
<1>1. IInv /\ [Next]_vars =>
        [\A s \in Send : Signed(intent[s]) =>
            intent'[s].block = intent[s].block]_vars
  BY StepKeepsSignature DEF IInv
<1> QED BY <1>1, InvariantHolds, PTL DEF Spec, SignedOnce

(* Whatever crashes, times out, is handled late or is raced for by other   *)
(* processes: a chain never holds more transfers of an amount to a         *)
(* destination than there are sends that ask for it.                       *)
THEOREM NoDoublePayment == Spec => []NeverPaidTwice
<1>1. PaidInv /\ [Next]_vars => PaidInv'
  BY StepIInv, StepSigned, StepSubmitted, StepChain DEF PaidInv
<1> QED BY <1>1, InitialPaidInv, PaidInvGivesNoDouble, PTL DEF Spec

(* A process that works alone on the database implements the contract,     *)
(* when no two sends ask for the same transfer: an accepted send moves its *)
(* money at most once, is reported published only after it moved and       *)
(* failed only if it never does, whatever crashes, times out or is         *)
(* handled late.  Two processes, or two equal sends, do not (README).      *)
THEOREM ContractIsKept ==
    ASSUME Unalike
    PROVE  Spec => KeepsContract
<1>1. Init => TeamInv BY InitialAloneInv DEF TeamInv, AloneInv
<1>2. TeamInv /\ [Next]_vars
        => [Alone => Contract!Next]_<<status, [s \in Send |-> Moved(s)]>>
  BY StepImplements DEF TeamInv, Movement
<1> QED
  BY <1>1, <1>2, StepTeamInv, InitImplements, PTL DEF Spec, KeepsContract
===============================================================================
