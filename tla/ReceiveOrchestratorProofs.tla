---------------------- MODULE ReceiveOrchestratorProofs ----------------------
(* Proofs about ReceiveOrchestrator, for every value of its constants.     *)
EXTENDS ReceiveOrchestrator, FiniteSetTheorems, SequenceTheorems, TLAPS

-------------------------------------------------------------------------------
(* Chains and their blocks                                                 *)

LEMMA InitialPart ==
    ASSUME NEW S, NEW s \in Seq(S), NEW n \in 0..Len(s)
    PROVE  /\ SubSeq(s, 1, n) \in Seq(S)
           /\ Len(SubSeq(s, 1, n)) = n
           /\ \A k \in 1..n : SubSeq(s, 1, n)[k] = s[k]
<1>1. Len(s) \in Nat /\ n \in Int /\ 1..n \subseteq 1..Len(s)
  BY LenProperties
<1>2. \A k \in 1..n : s[k] \in S BY <1>1, ElementOfSeq
<1>3. /\ SubSeq(s, 1, n) \in Seq(S)
      /\ Len(SubSeq(s, 1, n)) = IF 1 <= n THEN n - 1 + 1 ELSE 0
      /\ \A k \in 1..(n - 1 + 1) : SubSeq(s, 1, n)[k] = s[1 + k - 1]
  BY <1>1, <1>2, SubSeqProperties
<1> QED BY <1>1, <1>3

(* A chain and the block that extends it: where the operations are.        *)
LEMMA FrontProperties ==
    ASSUME NEW S, NEW d \in Seq(S), d # << >>
    PROVE  /\ Front(d) \in Seq(S) /\ Len(d) \in Nat \ {0}
           /\ Len(Front(d)) = Len(d) - 1
           /\ \A k \in 1..(Len(d) - 1) : Front(d)[k] = d[k]
<1>1. Len(d) \in Nat /\ Len(d) # 0 BY LenProperties, EmptySeq
<1>2. Len(d) - 1 \in 0..Len(d) BY <1>1
<1> QED BY <1>1, <1>2, InitialPart DEF Front

LEMMA AppendedBlock ==
    ASSUME NEW S, NEW c \in Seq(S), NEW e \in S
    PROVE  /\ Append(c, e) \in Seq(S) /\ Append(c, e) # << >>
           /\ Front(Append(c, e)) = c
           /\ Append(c, e)[Len(Append(c, e))] = e
<1>1. PICK d : d = Append(c, e) OBVIOUS
<1>2. /\ d \in Seq(S) /\ d # << >> /\ Len(d) = Len(c) + 1 /\ Len(c) \in Nat
      /\ d[Len(c) + 1] = e /\ \A k \in 1..Len(c) : d[k] = c[k]
  BY <1>1, AppendProperties, LenProperties, EmptySeq
<1>3. /\ Front(d) \in Seq(S) /\ Len(Front(d)) = Len(c)
      /\ \A k \in 1..Len(Front(d)) : Front(d)[k] = c[k]
  BY <1>2, FrontProperties
<1> QED BY <1>1, <1>2, <1>3, SeqEqual

(* A block is on a chain that begins with the block's operations.          *)
LEMMA OnChainPointwise ==
    ASSUME NEW S, NEW b \in Seq(S), NEW c \in Seq(S)
    PROVE  /\ OnChain(b, c) <=> /\ Len(b) \in 1..Len(c)
                                /\ \A k \in 1..Len(b) : b[k] = c[k]
           /\ Len(b) \in Nat /\ Len(c) \in Nat
<1>1. Len(b) \in Nat /\ Len(c) \in Nat /\ (b = << >> <=> Len(b) = 0)
  BY LenProperties, EmptySeq
<1>2. ASSUME Len(b) <= Len(c)
      PROVE  SubSeq(b, 1, Len(b)) = SubSeq(c, 1, Len(b))
                <=> \A k \in 1..Len(b) : b[k] = c[k]
  <2>1. PICK bb, cc : bb = SubSeq(b, 1, Len(b)) /\ cc = SubSeq(c, 1, Len(b))
    OBVIOUS
  <2>2. /\ bb \in Seq(S) /\ Len(bb) = Len(b) /\ \A k \in 1..Len(b) : bb[k] = b[k]
        /\ cc \in Seq(S) /\ Len(cc) = Len(b) /\ \A k \in 1..Len(b) : cc[k] = c[k]
    BY <1>1, <1>2, <2>1, InitialPart
  <2> QED BY <2>1, <2>2, SeqEqual
<1> QED BY <1>1, <1>2 DEF OnChain, IsPrefix

LEMMA FrontierIsOnChain ==
    ASSUME NEW S, NEW d \in Seq(S), d # << >>
    PROVE  OnChain(d, d)
BY FrontProperties, OnChainPointwise

(* A chain grows by one block at a time, and keeps the blocks it has.      *)
LEMMA ChainKeepsBlocks ==
    ASSUME NEW S, NEW b \in Seq(S), NEW c \in Seq(S), NEW d \in Seq(S),
           OnChain(b, c), d # << >>, Front(d) = c
    PROVE  OnChain(b, d)
<1>1. /\ Len(b) \in 1..Len(c) /\ Len(c) \in Nat
      /\ \A k \in 1..Len(b) : b[k] = c[k]
  BY OnChainPointwise
<1>2. /\ Len(d) \in Nat /\ Len(c) = Len(d) - 1
      /\ \A k \in 1..(Len(d) - 1) : c[k] = d[k]
  BY FrontProperties
<1>3. Len(b) \in 1..Len(d) /\ \A k \in 1..Len(b) : b[k] = d[k]
  BY <1>1, <1>2
<1> QED BY <1>3, OnChainPointwise

(* The only block that a chain gains when it grows is its new frontier.    *)
LEMMA NewBlockIsFrontier ==
    ASSUME NEW S, NEW b \in Seq(S), NEW c \in Seq(S), NEW d \in Seq(S),
           d # << >>, Front(d) = c, OnChain(b, d), ~ OnChain(b, c)
    PROVE  b = d
<1>1. /\ Len(b) \in 1..Len(d) /\ Len(b) \in Nat /\ Len(c) \in Nat
      /\ \A k \in 1..Len(b) : b[k] = d[k]
      /\ ~ (Len(b) \in 1..Len(c) /\ \A k \in 1..Len(b) : b[k] = c[k])
  BY OnChainPointwise
<1>2. /\ Len(d) \in Nat /\ Len(c) = Len(d) - 1
      /\ \A k \in 1..(Len(d) - 1) : c[k] = d[k]
  BY FrontProperties
<1>3. Len(b) = Len(d) BY <1>1, <1>2
<1> QED BY <1>1, <1>3, SeqEqual

(* A block of a chain ends with one of the chain's operations.             *)
LEMMA LastIsOnChain ==
    ASSUME NEW S, NEW b \in Seq(S), NEW c \in Seq(S), OnChain(b, c)
    PROVE  Len(b) \in 1..Len(c) /\ c[Len(b)] = b[Len(b)]
BY OnChainPointwise

-------------------------------------------------------------------------------
(* Types of the operators                                                  *)

LEMMA ReceiptType == \A t \in Task : Receipt(t) \in Op
BY DEF Receipt, ReceiveOp, Op

LEMMA SendOpType == \A n \in Nat : SendOp(None, n) \in Op
BY DEF SendOp, Op

(* A receipt names its task.                                               *)
LEMMA ReceiptNamesTask ==
    ASSUME NEW t \in Task, NEW u \in Task, Receipt(t) = Receipt(u)
    PROVE  t = u
<1>1. Receipt(t).link = t /\ Receipt(u).link = u BY DEF Receipt, ReceiveOp
<1> QED BY <1>1

LEMMA SendIsNoReceipt == \A t \in Task, n \in Nat : Receipt(t) # SendOp(None, n)
<1> SUFFICES ASSUME NEW t \in Task, NEW n \in Nat PROVE Receipt(t) # SendOp(None, n)
  OBVIOUS
<1>1. Receipt(t).kind = "receive" /\ SendOp(None, n).kind = "send"
  BY DEF Receipt, ReceiveOp, SendOp
<1> QED BY <1>1

LEMMA AfterCheckDomain ==
    DOMAIN AfterCheck = {"acquired", "drafted", "ready", "reworked", "accepted",
                         "caught"}
BY DEF AfterCheck

LEMMA AfterCheckValues ==
    /\ AfterCheck["acquired"] = "mark"
    /\ AfterCheck["drafted"] = "create"
    /\ AfterCheck["ready"] = "process"
    /\ AfterCheck["reworked"] = "updateWork"
    /\ AfterCheck["accepted"] = "publish"
    /\ AfterCheck["caught"] = "requeue"
BY DEF AfterCheck

LEMMA PlacesOf ==
    PC = {"idle", "next", "requeue", "emitFailed", "release", "mark", "prepare",
          "process", "rework", "load", "create", "updateWork", "publish",
          "emitPublished", "acquired", "drafted", "ready", "reworked",
          "accepted", "caught"}
BY AfterCheckDomain DEF PC, Calls, Statements

LEMMA InitialTypes == Init => TypeOK
BY ReceiveAssumption, EmptySeq, PlacesOf
   DEF Init, TypeOK, SignedBlock, Work, NoBlock, TaskStatus, SetupType

-------------------------------------------------------------------------------
(* The inductive invariant.  Its first part holds whichever instances race *)
(* for a task, on whichever database.                                      *)

(* Only the instances of the set-up work, and work on a task.              *)
HasCurrent ==
    \A i \in Instance :
        /\ pc[i] # "idle" => i \in crew
        /\ pc[i] \notin {"idle", "next"} => current[i] \in Task

(* A receive block is its account's chain as it was, and the receipt.      *)
EndsWith(b, t) == b \in Seq(Op) /\ b # << >> /\ b[Len(b)] = Receipt(t)

SignedForTheTask ==
    /\ \A t \in Task : Signed(intent[t]) => EndsWith(intent[t].block, t)
    /\ \A i \in Instance : pc[i] \in {"drafted", "create"} =>
            EndsWith(draft[i].block, current[i])

(* Once the intent is saved or loaded the block at hand is the intent's.   *)
Saved == {"ready", "process", "rework", "reworked", "updateWork", "accepted",
          "publish", "emitPublished"}
UsesIntent ==
    \A i \in Instance : pc[i] \in Saved =>
        /\ Signed(draft[i])
        /\ draft[i].block = intent[current[i]].block

(* A block that is treated as accepted is on the chain.                    *)
Certain == {"accepted", "publish", "emitPublished"}
AcceptedIsOnChain ==
    \A i \in Instance : pc[i] \in Certain =>
        OnChain(draft[i].block, chain[Home(i)])

(* What a node may still handle, and what a chain has received, was saved  *)
(* before it was submitted.                                                *)
IsIntentOf(t, a, b) == Owner[t] = a /\ Signed(intent[t]) /\ intent[t].block = b

SubmittedIsSaved ==
    \A m \in wire : \E t \in Task : IsIntentOf(t, m.account, m.block)

ReceivedIsSaved ==
    \A a \in Account : \A n \in 1..Len(chain[a]) :
        \A t \in Task : chain[a][n] = Receipt(t) => Signed(intent[t])

IInv ==
    /\ TypeOK /\ HasCurrent /\ SignedForTheTask /\ UsesIntent
    /\ AcceptedIsOnChain /\ SubmittedIsSaved /\ ReceivedIsSaved
    /\ ReportedIsReceived

-------------------------------------------------------------------------------
(* The second part holds when one process owns a database that works: then *)
(* nothing moves under the feet of the process.                            *)

Quiet == Alone /\ ~ setup.diskFails

Open == {"pending", "processing"}

(* It only ever works on an open task.                                     *)
WorksOnOpen ==
    \A i \in Instance :
        /\ pc[i] = "next" => \A t \in todo[i] : status[t] \in Open
        /\ pc[i] \notin {"idle", "next", "emitPublished", "emitFailed", "release"} =>
              status[current[i]] \in Open

(* It signs for a task without a saved block, and submits the saved work.  *)
Unsigned == {"prepare", "drafted", "create"}
SubmitsIntent ==
    \A i \in Instance :
        /\ pc[i] \in Unsigned => ~ Signed(intent[current[i]])
        /\ pc[i] \in {"ready", "process"} => draft[i] = intent[current[i]]

(* Without valid work a block goes nowhere, and an attempt that counts as  *)
(* failed, now or later, has no block or no valid work.                    *)
Powerless(t) == Signed(intent[t]) => intent[t].work = "low"

GivesUpSafely ==
    \A i \in Instance :
        /\ pc[i] \in {"rework", "reworked", "updateWork"} =>
              intent[current[i]].work = "low"
        /\ pc[i] \in {"caught", "requeue"} /\ ~ broadcast[i] =>
              Powerless(current[i])

FailedIsPowerless == \A t \in Task : status[t] = "failed" => Powerless(t)

(* A block that was received, or may be, has its valid work saved.         *)
ValidWorkIsSaved ==
    /\ \A t \in Task : Received(t) => intent[t].work = "valid"
    /\ \A m \in wire, t \in Task :
          IsIntentOf(t, m.account, m.block) /\ m.work = "valid" =>
              intent[t].work = "valid"

QuietInv ==
    Quiet => /\ WorksOnOpen /\ SubmitsIntent /\ GivesUpSafely
             /\ FailedIsPowerless /\ ValidWorkIsSaved

-------------------------------------------------------------------------------
(* The types are preserved.                                                *)

LEMMA SetupTypes == TypeOK => setup \in SetupType /\ crew \subseteq Instance
BY ReceiveAssumption DEF TypeOK, SetupType, crew

LEMMA FaultType ==
    ASSUME TypeOK, Fault
    PROVE  faults' \in 0..setup.maxFaults /\ sends' \in 0..setup.maxSends
BY SetupTypes DEF Fault, TypeOK, SetupType

LEMMA WorkTypes ==
    ASSUME TypeOK, NEW w, GenerateWork(w)
    PROVE  faults' \in 0..setup.maxFaults /\ sends' \in 0..setup.maxSends
BY FaultType DEF GenerateWork, bounds, TypeOK

LEMMA HomeType ==
    ASSUME TypeOK, HasCurrent, NEW i \in Instance, pc[i] \notin {"idle", "next"}
    PROVE  current[i] \in Task /\ Home(i) \in Account
BY ReceiveAssumption DEF HasCurrent, Home

LEMMA NewTaskTypes ==
    ASSUME TypeOK, NEW t \in Task, NewTask(t)
    PROVE  created' \in [Task -> Nat] /\ status' \in [Task -> TaskStatus]
<1>1. Cardinality({u \in Task : created[u] > 0}) \in Nat
  BY ReceiveAssumption, FS_Subset, FS_CardinalityType
<1> QED BY <1>1 DEF NewTask, TypeOK, TaskStatus

LEMMA SourceTypes ==
    ASSUME TypeOK, NEW i \in Instance, NEW t \in Task,
           \/ Enqueue(i, t) \/ WatchedSend(i, t)
           \/ ConfirmReceive(i, t) \/ ReplaySource(i, t)
    PROVE  TypeOK'
<1> USE DEF TypeOK, network, fixed, local, attempt, bounds
<1>1. CASE Enqueue(i, t) BY <1>1, NewTaskTypes DEF Enqueue
<1>2. CASE WatchedSend(i, t) BY <1>2, NewTaskTypes DEF WatchedSend, IngestSend
<1>3. CASE ConfirmReceive(i, t) BY <1>3 DEF ConfirmReceive, TaskStatus, EventType
<1>4. CASE ReplaySource(i, t) BY <1>4, NewTaskTypes DEF ReplaySource, IngestSend
<1> QED BY <1>1, <1>2, <1>3, <1>4

LEMMA ForgetTypes ==
    ASSUME TypeOK, NEW i \in Instance, Forget(i)
    PROVE  known' \in [Instance -> [Task -> Nat]]
BY DEF Forget, TypeOK

LEMMA ResetTypes ==
    ASSUME TypeOK, NEW i \in Instance, Reset(i)
    PROVE  /\ todo' \in [Instance -> SUBSET Task]
           /\ known' \in [Instance -> [Task -> Nat]]
           /\ current' \in [Instance -> Task \cup {None}]
           /\ draft' \in [Instance -> SignedBlock]
           /\ again' \in [Instance -> BOOLEAN]
           /\ broadcast' \in [Instance -> BOOLEAN]
           /\ pc' \in [Instance -> PC]
BY ForgetTypes, PlacesOf, EmptySeq
   DEF Reset, Goto, TypeOK, NoBlock, SignedBlock, Work

LEMMA TurnTypes ==
    ASSUME TypeOK, HasCurrent, NEW i \in Instance,
           \/ Begin(i) \/ End(i) \/ PassOver(i) \/ Acquire(i)
           \/ AssertCurrent(i) \/ Release(i) \/ MarkProcessing(i)
    PROVE  TypeOK'
<1> USE PlacesOf DEF TypeOK, database, rows, network, fixed, attempt, bounds, Goto
<1>1. CASE Begin(i) BY <1>1 DEF Begin, Listed
<1>2. CASE End(i) BY <1>2, ForgetTypes DEF End
<1>3. CASE PassOver(i) BY <1>3 DEF PassOver
<1>4. CASE Acquire(i)
  <2>1. /\ lease' \in [Account -> Instance \cup {None}]
        /\ current' \in [Instance -> Task \cup {None}]
    BY <1>4, ReceiveAssumption DEF Acquire
  <2> QED BY <1>4, <2>1 DEF Acquire
<1>5. CASE AssertCurrent(i)
  BY <1>5, AfterCheckDomain, AfterCheckValues DEF AssertCurrent
<1>6. CASE Release(i)
  <2>1. lease' \in [Account -> Instance \cup {None}]
    BY <1>6, HomeType DEF Release
  <2> QED BY <1>6, <2>1, ResetTypes DEF Release
<1>7. CASE MarkProcessing(i) BY <1>7, HomeType DEF MarkProcessing, TaskStatus
<1> QED BY <1>1, <1>2, <1>3, <1>4, <1>5, <1>6, <1>7

LEMMA SigningTypes ==
    ASSUME TypeOK, HasCurrent, NEW i \in Instance,
           Load(i) \/ Prepare(i) \/ CreateIntent(i) \/ Rework(i) \/ UpdateWork(i)
    PROVE  TypeOK'
<1> USE PlacesOf DEF TypeOK, database, rows, network, fixed, bounds, Goto
<1>1. CASE Load(i) BY <1>1, HomeType DEF Load
<1>2. CASE Prepare(i)
  <2>1. current[i] \in Task /\ Home(i) \in Account BY <1>2, HomeType DEF Prepare
  <2>2. faults' \in 0..setup.maxFaults /\ sends' \in 0..setup.maxSends
    BY <1>2, WorkTypes DEF Prepare
  <2>3. Append(chain[Home(i)], Receipt(current[i])) \in Seq(Op)
    BY <2>1, ReceiptType, AppendedBlock
  <2>4. draft' \in [Instance -> SignedBlock]
    <3>1. \A w \in Work : [block |-> Append(chain[Home(i)], Receipt(current[i])),
                            work |-> w] \in SignedBlock
      BY <2>3 DEF SignedBlock
    <3> QED BY <1>2, <3>1, ZenonT(30) DEF Prepare
  <2> QED BY <1>2, <2>2, <2>4 DEF Prepare
<1>3. CASE CreateIntent(i) BY <1>3, HomeType DEF CreateIntent, KeepFirst
<1>4. CASE Rework(i)
  <2>1. faults' \in 0..setup.maxFaults /\ sends' \in 0..setup.maxSends
    BY <1>4, WorkTypes DEF Rework
  <2>2. \A w \in Work : [draft[i] EXCEPT !.work = w] \in SignedBlock
    <3>1. PICK old : old = draft[i] OBVIOUS
    <3>2. old \in SignedBlock BY <3>1
    <3>3. \A w \in Work : [old EXCEPT !.work = w] \in SignedBlock
      BY <3>2 DEF SignedBlock
    <3> QED BY <3>1, <3>3
  <2>3. draft' \in [Instance -> SignedBlock] BY <1>4, <2>2 DEF Rework
  <2> QED BY <1>4, <2>1, <2>3 DEF Rework
<1>5. CASE UpdateWork(i)
  <2>1. PICK old, t : old = intent[t] /\ t = current[i] OBVIOUS
  <2>2. t \in Task /\ old \in SignedBlock
    BY <1>5, <2>1, HomeType DEF UpdateWork
  <2>3. [old EXCEPT !.work = draft[i].work] \in SignedBlock
    BY <2>2 DEF SignedBlock
  <2>4. intent' \in [Task -> SignedBlock]
    BY <1>5, <2>1, <2>2, <2>3 DEF UpdateWork
  <2> QED BY <1>5, <2>4 DEF UpdateWork
<1> QED BY <1>1, <1>2, <1>3, <1>4, <1>5

LEMMA OutcomeTypes ==
    ASSUME TypeOK, HasCurrent, NEW i \in Instance,
           \/ Process(i) \/ MarkPublished(i) \/ EmitPublished(i)
           \/ Requeue(i) \/ EmitFailed(i)
    PROVE  TypeOK'
<1> USE PlacesOf DEF TypeOK, database, rows, network, fixed, attempt, bounds, Goto
<1>1. CASE Process(i)
  <2>1. chain' \in [Account -> Seq(Op)]
    BY <1>1, HomeType DEF Process, SignedBlock
  <2>2. pc' \in [Instance -> PC]
    BY <1>1 DEF Process, AfterProcess, Verdict
  <2> QED BY <1>1, <2>1, <2>2 DEF Process
<1>2. CASE MarkPublished(i)
  BY <1>2, HomeType DEF MarkPublished, TaskStatus, SignedBlock
<1>3. CASE EmitPublished(i)
  <2>1. <<"receive.published", current[i]>> \in EventType \X Task
    BY <1>3, HomeType DEF EmitPublished, EventType
  <2> QED BY <1>3, <2>1 DEF EmitPublished
<1>4. CASE Requeue(i)
  <2>1. current[i] \in Task BY <1>4, HomeType DEF Requeue
  <2>2. known[i][current[i]] + 1 \in Nat BY <2>1
  <2>3. retries' \in [Task -> Nat] BY <1>4, <2>2 DEF Requeue
  <2>4. status' \in [Task -> TaskStatus] BY <1>4, <2>1 DEF Requeue, TaskStatus
  <2>5. pc' \in [Instance -> PC] BY <1>4 DEF Requeue
  <2> QED BY <1>4, <2>3, <2>4, <2>5 DEF Requeue
<1>5. CASE EmitFailed(i)
  <2>1. <<"receive.failed", current[i]>> \in EventType \X Task
    BY <1>5, HomeType DEF EmitFailed, EventType
  <2> QED BY <1>5, <2>1 DEF EmitFailed
<1> QED BY <1>1, <1>2, <1>3, <1>4, <1>5

LEMMA DisturbTypes ==
    ASSUME TypeOK, HasCurrent, NEW i \in Instance, Disturb(i)
    PROVE  TypeOK'
<1> USE PlacesOf, FaultType
    DEF TypeOK, database, rows, network, fixed, attempt, Goto
<1>1. CASE ProcessTimesOut(i)
  <2>1. [account |-> Home(i), block |-> draft[i].block, work |-> draft[i].work]
            \in [account : Account, block : Seq(Op), work : Work]
    BY <1>1, HomeType DEF ProcessTimesOut, SignedBlock
  <2> QED BY <1>1, <2>1 DEF ProcessTimesOut
<1>2. CASE CallFails(i) BY <1>2 DEF CallFails
<1>3. CASE CatchFails(i) BY <1>3 DEF CatchFails
<1>4. CASE Crash(i)
  <2>1. minimum' \in [Instance -> Minimum] BY <1>4 DEF Crash
  <2> QED BY <1>4, <2>1, ResetTypes DEF Crash
<1> QED BY <1>1, <1>2, <1>3, <1>4 DEF Disturb

LEMMA EnvironmentTypes ==
    ASSUME TypeOK,
           \/ \E a \in Account :
                 LeaseOutlivesStall(a) \/ LeaseOfTheDeadExpires(a) \/ PublishSend(a)
           \/ \E m \in wire : NodeHandlesLate(m)
    PROVE  TypeOK'
<1> USE FaultType DEF TypeOK, database, rows, network, fixed, local, attempt, bounds
<1>1. ASSUME NEW a \in Account, LeaseOutlivesStall(a) PROVE TypeOK'
  BY <1>1 DEF LeaseOutlivesStall, Expire
<1>2. ASSUME NEW a \in Account, LeaseOfTheDeadExpires(a) PROVE TypeOK'
  BY <1>2 DEF LeaseOfTheDeadExpires, Expire
<1>3. ASSUME NEW a \in Account, PublishSend(a) PROVE TypeOK'
  <2>1. sends' \in 0..setup.maxSends
    <3>1. setup.maxSends \in Nat BY SetupTypes DEF SetupType
    <3> QED BY <1>3, <3>1 DEF PublishSend
  <2>2. Append(chain[a], SendOp(None, sends)) \in Seq(Op)
    BY SendOpType, AppendedBlock
  <2>3. chain' \in [Account -> Seq(Op)] BY <1>3, <2>2 DEF PublishSend
  <2> QED BY <1>3, <2>1, <2>3 DEF PublishSend
<1>4. ASSUME NEW m \in wire, NodeHandlesLate(m) PROVE TypeOK'
  BY <1>4 DEF NodeHandlesLate
<1> QED BY <1>1, <1>2, <1>3, <1>4

LEMMA StepTypes == TypeOK /\ HasCurrent /\ [Next]_vars => TypeOK'
<1> SUFFICES ASSUME TypeOK, HasCurrent, [Next]_vars PROVE TypeOK'
  OBVIOUS
<1>1. CASE Next
  BY <1>1, SourceTypes, TurnTypes, SigningTypes, OutcomeTypes, DisturbTypes,
     EnvironmentTypes DEF Next, ProcessNext
<1>2. CASE UNCHANGED vars
  BY <1>2 DEF TypeOK, vars, database, rows, network, local, attempt, bounds
<1> QED BY <1>1, <1>2

-------------------------------------------------------------------------------
(* What a step changes: the set-up never; an intent only where it is saved *)
(* or given other work; a chain only at its end; an instance only by its   *)
(* own steps.                                                              *)

External ==
    \/ \E i \in Instance, t \in Task :
          \/ Enqueue(i, t) \/ WatchedSend(i, t)
          \/ ConfirmReceive(i, t) \/ ReplaySource(i, t)
    \/ \E a \in Account :
          LeaseOutlivesStall(a) \/ LeaseOfTheDeadExpires(a) \/ PublishSend(a)
    \/ \E m \in wire : NodeHandlesLate(m)
    \/ UNCHANGED vars

LEMMA StepCases ==
    [Next]_vars =>
        External \/ \E i \in Instance : ProcessNext(i) \/ Disturb(i)
BY DEF Next, External

LEMMA StepKeepsSetup == [Next]_vars => setup' = setup
<1> USE DEF fixed
<1>1. ASSUME NEW i \in Instance, ProcessNext(i) PROVE setup' = setup
  BY <1>1 DEF ProcessNext, Begin, End, PassOver, Acquire, AssertCurrent, Release,
     MarkProcessing, Load, Prepare, CreateIntent, Process, Rework, UpdateWork,
     MarkPublished, EmitPublished, Requeue, EmitFailed
<1>2. ASSUME NEW i \in Instance, Disturb(i) PROVE setup' = setup
  BY <1>2 DEF Disturb, ProcessTimesOut, CallFails, CatchFails, Crash
<1>3. External => setup' = setup
  BY DEF External, Enqueue, WatchedSend, ConfirmReceive, ReplaySource,
     LeaseOutlivesStall, LeaseOfTheDeadExpires, Expire, PublishSend,
     NodeHandlesLate, vars
<1> QED BY <1>1, <1>2, <1>3, StepCases

LEMMA IntentWriters ==
    ASSUME TypeOK, HasCurrent, [Next]_vars, NEW t \in Task
    PROVE  \/ intent'[t] = intent[t]
           \/ \E i \in Instance : t = current[i] /\ (CreateIntent(i) \/ UpdateWork(i))
<1> USE DEF database, rows
<1>1. ASSUME NEW i \in Instance, CreateIntent(i) \/ UpdateWork(i)
      PROVE  intent'[t] = intent[t] \/ t = current[i]
  BY <1>1 DEF CreateIntent, UpdateWork, TypeOK
<1>2. ASSUME NEW i \in Instance, ProcessNext(i), ~ CreateIntent(i), ~ UpdateWork(i)
      PROVE  intent' = intent
  BY <1>2 DEF ProcessNext, Begin, End, PassOver, Acquire, AssertCurrent, Release,
     MarkProcessing, Load, Prepare, Process, Rework, MarkPublished, EmitPublished,
     Requeue, EmitFailed
<1>3. ASSUME NEW i \in Instance, Disturb(i) PROVE intent' = intent
  BY <1>3 DEF Disturb, ProcessTimesOut, CallFails, CatchFails, Crash
<1>4. External => intent' = intent
  BY DEF External, Enqueue, WatchedSend, ConfirmReceive, ReplaySource,
     LeaseOutlivesStall, LeaseOfTheDeadExpires, Expire, PublishSend,
     NodeHandlesLate, vars
<1> QED BY <1>1, <1>2, <1>3, <1>4, StepCases

LEMMA StepKeepsSignature ==
    ASSUME TypeOK, HasCurrent, [Next]_vars, NEW t \in Task, Signed(intent[t])
    PROVE  Signed(intent'[t]) /\ intent'[t].block = intent[t].block
<1>1. ASSUME NEW i \in Instance, t = current[i], CreateIntent(i)
      PROVE  intent'[t] = intent[t]
  BY <1>1 DEF CreateIntent, KeepFirst, TypeOK
<1>2. ASSUME NEW i \in Instance, t = current[i], UpdateWork(i)
      PROVE  intent'[t].block = intent[t].block
  BY <1>2 DEF UpdateWork, TypeOK, SignedBlock
<1> QED BY <1>1, <1>2, IntentWriters DEF Signed

(* A new frontier is the block of a submission that a node accepted, or a  *)
(* send of the other pipeline.                                             *)
Submits(i, a) ==
    /\ Process(i) /\ Home(i) = a /\ chain'[a] = draft[i].block
    /\ Verdict(draft[i].block, draft[i].work, chain[a]) = "accepted"
Handled(m, a) ==
    /\ m.account = a /\ chain'[a] = m.block
    /\ Verdict(m.block, m.work, chain[a]) = "accepted"

LEMMA ChainWriters ==
    ASSUME TypeOK, HasCurrent, [Next]_vars, NEW a \in Account
    PROVE  \/ chain'[a] = chain[a]
           \/ \E i \in Instance : Submits(i, a)
           \/ \E m \in wire : Handled(m, a)
           \/ chain'[a] = Append(chain[a], SendOp(None, sends))
<1> USE DEF network
<1>1. ASSUME NEW i \in Instance, Process(i)
      PROVE  chain'[a] = chain[a] \/ Submits(i, a)
  BY <1>1, HomeType DEF Process, Submits, TypeOK
<1>2. ASSUME NEW i \in Instance, ProcessNext(i), ~ Process(i) PROVE chain' = chain
  BY <1>2 DEF ProcessNext, Begin, End, PassOver, Acquire, AssertCurrent, Release,
     MarkProcessing, Load, Prepare, CreateIntent, Rework, UpdateWork,
     MarkPublished, EmitPublished, Requeue, EmitFailed
<1>3. ASSUME NEW i \in Instance, Disturb(i) PROVE chain' = chain
  BY <1>3 DEF Disturb, ProcessTimesOut, CallFails, CatchFails, Crash
<1>4. ASSUME NEW m \in wire, NodeHandlesLate(m)
      PROVE  chain'[a] = chain[a] \/ Handled(m, a)
  BY <1>4 DEF NodeHandlesLate, Handled, TypeOK
<1>5. ASSUME NEW z \in Account, PublishSend(z)
      PROVE  chain'[a] = chain[a] \/ chain'[a] = Append(chain[a], SendOp(None, sends))
  BY <1>5 DEF PublishSend, TypeOK
<1>6. ASSUME NEW i \in Instance, NEW t \in Task,
             \/ Enqueue(i, t) \/ WatchedSend(i, t)
             \/ ConfirmReceive(i, t) \/ ReplaySource(i, t)
      PROVE  chain' = chain
  BY <1>6 DEF Enqueue, WatchedSend, ConfirmReceive, ReplaySource
<1>7. ASSUME NEW z \in Account, LeaseOutlivesStall(z) \/ LeaseOfTheDeadExpires(z)
      PROVE  chain' = chain
  BY <1>7 DEF LeaseOutlivesStall, LeaseOfTheDeadExpires, Expire
<1>8. UNCHANGED vars => chain' = chain BY DEF vars
<1> QED BY <1>1, <1>2, <1>3, <1>4, <1>5, <1>6, <1>7, <1>8, StepCases DEF External

Still(j) ==
    /\ pc'[j] = pc[j] /\ current'[j] = current[j] /\ draft'[j] = draft[j]
    /\ todo'[j] = todo[j] /\ broadcast'[j] = broadcast[j]

LEMMA OthersStandStill ==
    ASSUME TypeOK, [Next]_vars, NEW j \in Instance
    PROVE  Still(j) \/ ProcessNext(j) \/ Disturb(j)
<1> USE DEF local, attempt, Still
<1>1. ASSUME NEW i \in Instance, i # j, ProcessNext(i) PROVE Still(j)
  <2> USE DEF TypeOK, Goto
  <2>1. CASE Begin(i) \/ End(i) \/ PassOver(i) \/ Acquire(i) \/ AssertCurrent(i)
             \/ Release(i) \/ MarkProcessing(i)
    BY <1>1, <2>1 DEF Begin, End, PassOver, Acquire, AssertCurrent, Release,
       Reset, MarkProcessing
  <2>2. CASE Load(i) \/ Prepare(i) \/ CreateIntent(i) \/ Rework(i) \/ UpdateWork(i)
    BY <1>1, <2>2 DEF Load, Prepare, CreateIntent, Rework, UpdateWork
  <2>3. CASE Process(i) \/ MarkPublished(i) \/ EmitPublished(i) \/ Requeue(i)
             \/ EmitFailed(i)
    BY <1>1, <2>3 DEF Process, MarkPublished, EmitPublished, Requeue, EmitFailed
  <2> QED BY <1>1, <2>1, <2>2, <2>3 DEF ProcessNext
<1>2. ASSUME NEW i \in Instance, i # j, Disturb(i) PROVE Still(j)
  BY <1>2 DEF TypeOK, Disturb, Goto, ProcessTimesOut, CallFails, CatchFails,
     Crash, Reset
<1>3. External => Still(j)
  BY DEF External, Enqueue, WatchedSend, ConfirmReceive, ReplaySource,
     LeaseOutlivesStall, LeaseOfTheDeadExpires, Expire, PublishSend,
     NodeHandlesLate, vars
<1> QED BY <1>1, <1>2, <1>3, StepCases

-------------------------------------------------------------------------------
(* The first part of the invariant is preserved.                           *)

LEMMA StepHasCurrent == IInv /\ [Next]_vars => HasCurrent'
<1> SUFFICES ASSUME IInv, [Next]_vars, NEW j \in Instance
             PROVE  /\ pc'[j] # "idle" => j \in crew
                    /\ pc'[j] \notin {"idle", "next"} => current'[j] \in Task
  BY StepKeepsSetup DEF HasCurrent, crew
<1> USE DEF IInv, TypeOK, HasCurrent, Goto
<1>1. CASE Still(j) BY <1>1 DEF Still
<1>2. CASE Begin(j) \/ End(j) \/ PassOver(j) \/ Acquire(j) \/ Release(j)
  BY <1>2 DEF Begin, End, PassOver, Acquire, Release, Reset, attempt
<1>3. CASE AssertCurrent(j)
  BY <1>3, AfterCheckDomain DEF AssertCurrent, attempt
<1>4. CASE MarkProcessing(j) \/ Load(j) \/ Prepare(j) \/ CreateIntent(j)
           \/ Process(j) \/ Rework(j) \/ UpdateWork(j) \/ MarkPublished(j)
           \/ EmitPublished(j) \/ Requeue(j) \/ EmitFailed(j)
  BY <1>4 DEF MarkProcessing, Load, Prepare, CreateIntent, Process, Rework,
     UpdateWork, MarkPublished, EmitPublished, Requeue, EmitFailed, attempt
<1>5. CASE Disturb(j)
  BY <1>5 DEF Disturb, ProcessTimesOut, CallFails, CatchFails, Crash, Reset,
     Calls, Statements, attempt
<1> QED BY <1>1, <1>2, <1>3, <1>4, <1>5, OthersStandStill DEF ProcessNext

LEMMA StepSigned == IInv /\ [Next]_vars => SignedForTheTask'
<1> SUFFICES ASSUME IInv, [Next]_vars PROVE SignedForTheTask'
  OBVIOUS
<1> USE DEF IInv
<1>1. ASSUME NEW t \in Task, Signed(intent'[t]) PROVE EndsWith(intent'[t].block, t)
  <2>1. CASE Signed(intent[t])
    BY <2>1, StepKeepsSignature DEF SignedForTheTask
  <2>2. CASE ~ Signed(intent[t])
    <3>1. ASSUME NEW i \in Instance, t = current[i], CreateIntent(i)
          PROVE  EndsWith(intent'[t].block, t)
      <4>1. intent'[t] = draft[i] BY <2>2, <3>1 DEF CreateIntent, KeepFirst, TypeOK
      <4> QED BY <3>1, <4>1 DEF CreateIntent, SignedForTheTask
    <3>2. ASSUME NEW i \in Instance, t = current[i], UpdateWork(i)
          PROVE  intent'[t].block = intent[t].block
      BY <3>2 DEF UpdateWork, TypeOK, SignedBlock
    <3> QED BY <1>1, <2>2, <3>1, <3>2, IntentWriters DEF Signed
  <2> QED BY <2>1, <2>2
<1>2. ASSUME NEW j \in Instance, pc'[j] \in {"drafted", "create"}
      PROVE  EndsWith(draft'[j].block, current'[j])
  <2> USE DEF TypeOK, Goto
  <2>1. CASE Still(j) BY <1>2, <2>1 DEF Still, SignedForTheTask
  <2>2. CASE AssertCurrent(j)
    BY <1>2, <2>2, AfterCheckDomain, AfterCheckValues
    DEF AssertCurrent, SignedForTheTask, attempt
  <2>3. CASE Prepare(j)
    <3>1. chain[Home(j)] \in Seq(Op) /\ Receipt(current[j]) \in Op
      BY <2>3, HomeType, ReceiptType DEF Prepare
    <3> DEFINE b == Append(chain[Home(j)], Receipt(current[j]))
    <3>3. draft'[j].block = b /\ current'[j] = current[j] BY <2>3 DEF Prepare
    <3> HIDE DEF TypeOK, Goto
    <3>2. b \in Seq(Op) /\ b # << >> /\ b[Len(b)] = Receipt(current[j])
      BY <3>1, AppendedBlock
    <3> HIDE DEF b
    <3> QED BY <3>2, <3>3 DEF EndsWith
  <2>4. CASE Disturb(j)
    BY <1>2, <2>4 DEF Disturb, ProcessTimesOut, CallFails, CatchFails, Crash, Reset
  <2>5. CASE ProcessNext(j) /\ ~ AssertCurrent(j) /\ ~ Prepare(j)
    BY <1>2, <2>5 DEF ProcessNext, Begin, End, PassOver, Acquire, Release, Reset,
       MarkProcessing, Load, CreateIntent, Process, AfterProcess, Verdict,
       Rework, UpdateWork, MarkPublished, EmitPublished, Requeue, EmitFailed
  <2> QED BY <2>1, <2>2, <2>3, <2>4, <2>5, OthersStandStill
<1> QED BY <1>1, <1>2 DEF SignedForTheTask

LEMMA StepUsesIntent == IInv /\ [Next]_vars => UsesIntent'
<1> SUFFICES ASSUME IInv, [Next]_vars, NEW j \in Instance, pc'[j] \in Saved
             PROVE  /\ Signed(draft'[j])
                    /\ draft'[j].block = intent'[current'[j]].block
  BY DEF UsesIntent, Signed
<1> USE DEF IInv, UsesIntent, Goto
<1>1. ASSUME pc[j] \in Saved
      PROVE  /\ Signed(draft[j]) /\ current[j] \in Task
             /\ intent'[current[j]].block = draft[j].block
  <2>1. current[j] \in Task BY <1>1, HomeType DEF Saved
  <2>2. Signed(draft[j]) /\ draft[j].block = intent[current[j]].block BY <1>1
  <2>3. Signed(intent[current[j]]) BY <2>2 DEF Signed
  <2> QED BY <2>1, <2>2, <2>3, StepKeepsSignature
<1>2. CASE Still(j) BY <1>1, <1>2 DEF Still, Signed
<1>3. CASE AssertCurrent(j)
  <2>1. pc[j] \in Saved
    BY <1>3, AfterCheckDomain, AfterCheckValues DEF AssertCurrent, TypeOK, Saved
  <2> QED BY <1>1, <1>3, <2>1 DEF AssertCurrent, Signed, attempt
<1>4. CASE Load(j)
  BY <1>4, HomeType DEF Load, TypeOK, Saved, Signed, database, rows
<1>5. CASE CreateIntent(j)
  <2>1. current[j] \in Task /\ draft[j].block # << >>
    BY <1>5, HomeType DEF CreateIntent, SignedForTheTask, EndsWith
  <2> QED BY <1>5, <2>1 DEF CreateIntent, KeepFirst, TypeOK, Signed
<1>6. CASE Process(j)
  BY <1>1, <1>6 DEF Process, Saved, Signed
<1>7. CASE Rework(j)
  <2>1. draft'[j].block = draft[j].block /\ current'[j] = current[j]
    BY <1>7 DEF Rework, TypeOK, SignedBlock
  <2> QED BY <1>1, <1>7, <2>1 DEF Rework, Saved, Signed
<1>8. CASE UpdateWork(j) \/ MarkPublished(j)
  BY <1>1, <1>8 DEF UpdateWork, MarkPublished, Saved, Signed, attempt
<1>9. CASE Disturb(j)
  BY <1>9 DEF Disturb, ProcessTimesOut, CallFails, CatchFails, Crash, Reset,
     TypeOK, Saved
<1>10. CASE Begin(j) \/ End(j) \/ PassOver(j) \/ Acquire(j) \/ Release(j)
            \/ MarkProcessing(j) \/ Prepare(j) \/ EmitPublished(j) \/ Requeue(j)
            \/ EmitFailed(j)
  BY <1>10 DEF Begin, End, PassOver, Acquire, Release, Reset, MarkProcessing,
     Prepare, EmitPublished, Requeue, EmitFailed, TypeOK, Saved
<1> QED
  BY <1>2, <1>3, <1>4, <1>5, <1>6, <1>7, <1>8, <1>9, <1>10, OthersStandStill
  DEF ProcessNext

(* A chain stays or grows by one block: the saved block of a task, or a    *)
(* send.                                                                   *)
LEMMA SubmissionExtends ==
    ASSUME NEW b \in Seq(Op), NEW w, NEW c, Verdict(b, w, c) = "accepted"
    PROVE  b # << >> /\ Front(b) = c /\ w # "low"
BY DEF Verdict

LEMMA ChainGrows ==
    ASSUME IInv, [Next]_vars, NEW a \in Account, chain'[a] # chain[a]
    PROVE  /\ chain'[a] \in Seq(Op) /\ chain'[a] # << >>
           /\ Front(chain'[a]) = chain[a]
           /\ \/ \E t \in Task : IsIntentOf(t, a, chain'[a])
              \/ chain'[a][Len(chain'[a])] = SendOp(None, sends)
<1> USE DEF IInv
<1>1. ASSUME NEW i \in Instance, Submits(i, a)
      PROVE  /\ chain'[a] \in Seq(Op) /\ chain'[a] # << >>
             /\ Front(chain'[a]) = chain[a]
             /\ \E t \in Task : IsIntentOf(t, a, chain'[a])
  <2>1. draft[i].block \in Seq(Op) /\ current[i] \in Task /\ pc[i] = "process"
    BY <1>1, HomeType DEF Submits, Process, TypeOK, SignedBlock
  <2>2. draft[i].block # << >> /\ Front(draft[i].block) = chain[a]
    BY <1>1, <2>1, SubmissionExtends DEF Submits
  <2>3. draft[i].block = intent[current[i]].block
    BY <2>1 DEF UsesIntent, Saved
  <2>4. IsIntentOf(current[i], a, draft[i].block)
    BY <1>1, <2>2, <2>3 DEF Submits, Home, IsIntentOf, Signed
  <2> QED BY <1>1, <2>1, <2>2, <2>4 DEF Submits
<1>2. ASSUME NEW m \in wire, Handled(m, a)
      PROVE  /\ chain'[a] \in Seq(Op) /\ chain'[a] # << >>
             /\ Front(chain'[a]) = chain[a]
             /\ \E t \in Task : IsIntentOf(t, a, chain'[a])
  <2>1. m.block \in Seq(Op) BY DEF TypeOK
  <2>2. m.block # << >> /\ Front(m.block) = chain[a]
    BY <1>2, <2>1, SubmissionExtends DEF Handled
  <2> QED BY <1>2, <2>1, <2>2 DEF Handled, SubmittedIsSaved
<1>3. ASSUME chain'[a] = Append(chain[a], SendOp(None, sends))
      PROVE  /\ chain'[a] \in Seq(Op) /\ chain'[a] # << >>
             /\ Front(chain'[a]) = chain[a]
             /\ chain'[a][Len(chain'[a])] = SendOp(None, sends)
  <2>1. chain[a] \in Seq(Op) /\ sends \in Nat
    BY SetupTypes DEF TypeOK, SetupType
  <2>2. SendOp(None, sends) \in Op BY <2>1, SendOpType
  <2> QED BY <1>3, <2>1, <2>2, AppendedBlock
<1> QED BY <1>1, <1>2, <1>3, ChainWriters

LEMMA StepKeepsBlocks ==
    ASSUME IInv, [Next]_vars,
           NEW a \in Account, NEW b \in Seq(Op), OnChain(b, chain[a])
    PROVE  OnChain(b, chain'[a])
<1>1. chain[a] \in Seq(Op) BY DEF IInv, TypeOK
<1> QED BY <1>1, ChainGrows, ChainKeepsBlocks

LEMMA StepAccepted == IInv /\ [Next]_vars => AcceptedIsOnChain'
<1> SUFFICES ASSUME IInv, [Next]_vars, NEW j \in Instance, pc'[j] \in Certain
             PROVE  OnChain(draft'[j].block, chain'[Owner[current'[j]]])
  BY DEF AcceptedIsOnChain, Home
<1> USE DEF IInv, Goto
<1>1. draft[j].block \in Seq(Op) BY DEF TypeOK, SignedBlock
<1>2. ASSUME pc[j] \in Certain
      PROVE  OnChain(draft[j].block, chain'[Owner[current[j]]])
  <2>1. Home(j) \in Account BY <1>2, HomeType DEF Certain
  <2> QED BY <1>1, <1>2, <2>1, StepKeepsBlocks DEF Home, AcceptedIsOnChain
<1>3. CASE Still(j) BY <1>2, <1>3 DEF Still
<1>4. CASE AssertCurrent(j)
  <2>1. pc[j] \in Certain
    BY <1>4, AfterCheckDomain, AfterCheckValues DEF AssertCurrent, TypeOK, Certain
  <2> QED BY <1>2, <1>4, <2>1 DEF AssertCurrent, attempt
<1>5. CASE Process(j)
  <2>1. Home(j) \in Account /\ draft'[j] = draft[j] /\ current'[j] = current[j]
    BY <1>5, HomeType DEF Process
  <2> DEFINE verdict == Verdict(draft[j].block, draft[j].work, chain[Home(j)])
  <2>2. verdict \in {"accepted", "old block"}
    BY <1>5 DEF Process, AfterProcess, TypeOK, Certain, Verdict
  <2>3. CASE verdict = "old block"
    <3>1. OnChain(draft[j].block, chain[Home(j)]) BY <2>3 DEF Verdict
    <3> QED BY <3>1, <1>1, <2>1, StepKeepsBlocks DEF Home
  <2>4. CASE verdict = "accepted"
    <3>1. draft[j].block # << >> BY <1>1, <2>4, SubmissionExtends
    <3>2. chain'[Home(j)] = draft[j].block
      BY <1>5, <2>1, <2>4 DEF Process, TypeOK
    <3> QED BY <3>1, <3>2, <1>1, <2>1, FrontierIsOnChain DEF Home
  <2> QED BY <2>2, <2>3, <2>4
<1>6. CASE MarkPublished(j)
  BY <1>2, <1>6 DEF MarkPublished, Certain, attempt
<1>7. CASE Disturb(j)
  BY <1>7 DEF Disturb, ProcessTimesOut, CallFails, CatchFails, Crash, Reset,
     TypeOK, Certain
<1>8. CASE Begin(j) \/ End(j) \/ PassOver(j) \/ Acquire(j) \/ Release(j)
           \/ MarkProcessing(j) \/ Load(j) \/ Prepare(j) \/ CreateIntent(j)
           \/ Rework(j) \/ UpdateWork(j) \/ EmitPublished(j) \/ Requeue(j)
           \/ EmitFailed(j)
  BY <1>8 DEF Begin, End, PassOver, Acquire, Release, Reset, MarkProcessing,
     Load, Prepare, CreateIntent, Rework, UpdateWork, EmitPublished, Requeue,
     EmitFailed, TypeOK, Certain
<1> QED BY <1>3, <1>4, <1>5, <1>6, <1>7, <1>8, OthersStandStill DEF ProcessNext

(* A request joins the wire only where a submission times out.             *)
WireEntry(i) == [account |-> Home(i), block |-> draft[i].block, work |-> draft[i].work]

LEMMA WireWriters ==
    ASSUME [Next]_vars, NEW m \in wire'
    PROVE  m \in wire \/ \E i \in Instance : ProcessTimesOut(i) /\ m = WireEntry(i)
<1> USE DEF network
<1>1. ASSUME NEW i \in Instance, ProcessNext(i) PROVE wire' = wire
  BY <1>1 DEF ProcessNext, Begin, End, PassOver, Acquire, AssertCurrent, Release,
     MarkProcessing, Load, Prepare, CreateIntent, Process, Rework, UpdateWork,
     MarkPublished, EmitPublished, Requeue, EmitFailed
<1>2. ASSUME NEW i \in Instance, Disturb(i), ~ ProcessTimesOut(i)
      PROVE  wire' = wire
  BY <1>2 DEF Disturb, CallFails, CatchFails, Crash
<1>3. ASSUME NEW i \in Instance, ProcessTimesOut(i)
      PROVE  wire' = wire \cup {WireEntry(i)}
  BY <1>3 DEF ProcessTimesOut, WireEntry
<1>4. External => wire' \subseteq wire
  BY DEF External, Enqueue, WatchedSend, ConfirmReceive, ReplaySource,
     LeaseOutlivesStall, LeaseOfTheDeadExpires, Expire, PublishSend,
     NodeHandlesLate, vars
<1> QED BY <1>1, <1>2, <1>3, <1>4, StepCases DEF Disturb

LEMMA StepSubmitted == IInv /\ [Next]_vars => SubmittedIsSaved'
<1> SUFFICES ASSUME IInv, [Next]_vars, NEW m \in wire'
             PROVE  \E t \in Task : /\ Owner[t] = m.account /\ Signed(intent'[t])
                                    /\ intent'[t].block = m.block
  BY DEF SubmittedIsSaved, IsIntentOf, Signed
<1> USE DEF IInv
<1>1. PICK t \in Task : IsIntentOf(t, m.account, m.block)
  <2>1. CASE m \in wire BY <2>1 DEF SubmittedIsSaved
  <2>2. ASSUME NEW i \in Instance, ProcessTimesOut(i), m = WireEntry(i)
        PROVE  \E t \in Task : IsIntentOf(t, m.account, m.block)
    <3>1. current[i] \in Task BY <2>2, HomeType DEF ProcessTimesOut
    <3>2. IsIntentOf(current[i], m.account, m.block)
      BY <2>2, <3>1
      DEF ProcessTimesOut, WireEntry, UsesIntent, Saved, IsIntentOf, Signed, Home
    <3> QED BY <3>1, <3>2
  <2> QED BY <2>1, <2>2, WireWriters
<1>2. Signed(intent'[t]) /\ intent'[t].block = intent[t].block
  BY <1>1, StepKeepsSignature DEF IsIntentOf
<1> QED BY <1>1, <1>2 DEF IsIntentOf

LEMMA StepReceived == IInv /\ [Next]_vars => ReceivedIsSaved'
<1> SUFFICES ASSUME IInv, [Next]_vars, NEW a \in Account,
                    NEW n \in 1..Len(chain'[a]), NEW t \in Task,
                    chain'[a][n] = Receipt(t)
             PROVE  Signed(intent'[t])
  BY DEF ReceivedIsSaved, Signed
<1> USE DEF IInv
<1>1. Signed(intent[t])
  <2>1. CASE chain'[a] = chain[a] BY <2>1 DEF ReceivedIsSaved
  <2>2. CASE chain'[a] # chain[a]
    <3> DEFINE d == chain'[a]
    <3>1. /\ d \in Seq(Op) /\ d # << >> /\ Front(d) = chain[a]
          /\ \/ \E u \in Task : IsIntentOf(u, a, d)
             \/ d[Len(d)] = SendOp(None, sends)
      BY <2>2, ChainGrows
    <3>2. n \in 1..Len(d) /\ d[n] = Receipt(t) OBVIOUS
    <3> HIDE DEF d
    <3>3. /\ Len(d) \in Nat \ {0} /\ Len(chain[a]) = Len(d) - 1
          /\ \A k \in 1..(Len(d) - 1) : chain[a][k] = d[k]
      BY <3>1, FrontProperties
    <3>4. CASE n # Len(d)
      <4>1. n \in 1..Len(chain[a]) /\ chain[a][n] = Receipt(t)
        BY <3>2, <3>3, <3>4
      <4> QED BY <4>1 DEF ReceivedIsSaved
    <3>5. CASE n = Len(d)
      <4>1. sends \in Nat BY SetupTypes DEF TypeOK, SetupType
      <4>2. PICK u \in Task : IsIntentOf(u, a, d)
        BY <3>1, <3>2, <3>5, <4>1, SendIsNoReceipt
      <4>3. Signed(intent[u]) /\ d[Len(d)] = Receipt(u)
        BY <4>2 DEF IsIntentOf, SignedForTheTask, EndsWith
      <4> QED BY <3>2, <3>5, <4>3, ReceiptNamesTask
    <3> QED BY <3>4, <3>5
  <2> QED BY <2>1, <2>2
<1> QED BY <1>1, StepKeepsSignature

LEMMA StepReported == IInv /\ [Next]_vars => ReportedIsReceived'
<1> SUFFICES ASSUME IInv, [Next]_vars, NEW t \in Task,
                    status'[t] \in {"published", "confirmed"}
             PROVE  /\ hash'[t] = intent'[t].block /\ Signed(intent'[t])
                    /\ OnChain(intent'[t].block, chain'[Owner[t]])
  BY DEF ReportedIsReceived, Received, Signed
<1> USE DEF IInv
<1>1. Owner[t] \in Account /\ intent[t].block \in Seq(Op)
  BY ReceiveAssumption DEF TypeOK, SignedBlock
<1>2. ASSUME status[t] \in {"published", "confirmed"}
      PROVE  /\ hash[t] = intent'[t].block /\ Signed(intent'[t])
             /\ OnChain(intent'[t].block, chain'[Owner[t]])
  <2>1. /\ hash[t] = intent[t].block /\ Signed(intent[t])
        /\ OnChain(intent[t].block, chain[Owner[t]])
    BY <1>2 DEF ReportedIsReceived, Received
  <2> QED BY <1>1, <2>1, StepKeepsSignature, StepKeepsBlocks
<1>3. ASSUME NEW i \in Instance, MarkPublished(i), t = current[i]
      PROVE  /\ hash'[t] = intent'[t].block /\ Signed(intent'[t])
             /\ OnChain(intent'[t].block, chain'[Owner[t]])
  <2>1. Signed(draft[i]) /\ draft[i].block = intent[t].block
    BY <1>3 DEF MarkPublished, UsesIntent, Saved
  <2>2. OnChain(draft[i].block, chain[Owner[t]])
    BY <1>3 DEF MarkPublished, AcceptedIsOnChain, Certain, Home
  <2>3. hash'[t] = draft[i].block BY <1>3 DEF MarkPublished, TypeOK
  <2> QED
    BY <1>1, <2>1, <2>2, <2>3, StepKeepsSignature, StepKeepsBlocks DEF Signed
<1>4. ASSUME NEW i \in Instance, MarkPublished(i), t # current[i]
      PROVE  status'[t] = status[t] /\ hash'[t] = hash[t]
  BY <1>4 DEF MarkPublished, TypeOK
<1>5. ASSUME NEW i \in Instance, ProcessNext(i), ~ MarkPublished(i)
      PROVE  hash' = hash /\ status[t] \in {"published", "confirmed"}
  <2>1. CASE MarkProcessing(i) \/ Requeue(i)
    BY <2>1 DEF MarkProcessing, Requeue, TypeOK
  <2>2. CASE ~ (MarkProcessing(i) \/ Requeue(i))
    BY <1>5, <2>2 DEF ProcessNext, Begin, End, PassOver, Acquire, AssertCurrent,
       Release, Load, Prepare, CreateIntent, Process, Rework, UpdateWork,
       EmitPublished, EmitFailed, database, rows
  <2> QED BY <2>1, <2>2
<1>6. ASSUME NEW i \in Instance, Disturb(i)
      PROVE  hash' = hash /\ status' = status
  BY <1>6 DEF Disturb, ProcessTimesOut, CallFails, CatchFails, Crash, database, rows
<1>7. ASSUME NEW i \in Instance, NEW u \in Task, ConfirmReceive(i, u)
      PROVE  hash' = hash /\ status[t] \in {"published", "confirmed"}
  BY <1>7 DEF ConfirmReceive, TypeOK
<1>8. ASSUME NEW i \in Instance, NEW u \in Task,
             Enqueue(i, u) \/ WatchedSend(i, u) \/ ReplaySource(i, u)
      PROVE  hash' = hash /\ status[t] \in {"published", "confirmed"}
  BY <1>8 DEF Enqueue, WatchedSend, ReplaySource, IngestSend, NewTask, TypeOK
<1>9. CASE \/ \E a \in Account :
                 LeaseOutlivesStall(a) \/ LeaseOfTheDeadExpires(a) \/ PublishSend(a)
           \/ \E m \in wire : NodeHandlesLate(m)
           \/ UNCHANGED vars
  BY <1>2, <1>9 DEF LeaseOutlivesStall, LeaseOfTheDeadExpires, Expire, PublishSend,
     NodeHandlesLate, vars, database, rows
<1> QED
  BY <1>2, <1>3, <1>4, <1>5, <1>6, <1>7, <1>8, <1>9, StepCases DEF External

LEMMA InitialIInv == Init => IInv
<1> SUFFICES ASSUME Init PROVE IInv
  OBVIOUS
<1>1. HasCurrent /\ SignedForTheTask /\ UsesIntent /\ AcceptedIsOnChain
  BY DEF Init, HasCurrent, SignedForTheTask, UsesIntent, Saved,
     AcceptedIsOnChain, Certain, Signed, NoBlock
<1>2. SubmittedIsSaved /\ ReportedIsReceived
  BY DEF Init, SubmittedIsSaved, ReportedIsReceived
<1>3. ReceivedIsSaved
  <2>1. \A a \in Account : Len(chain[a]) = 0 BY EmptySeq DEF Init
  <2>2. 1..0 = {} OBVIOUS
  <2> QED BY <2>1, <2>2 DEF ReceivedIsSaved
<1> QED BY <1>1, <1>2, <1>3, InitialTypes DEF IInv

LEMMA StepIInv == IInv /\ [Next]_vars => IInv'
BY StepTypes, StepHasCurrent, StepSigned, StepUsesIntent, StepAccepted,
   StepSubmitted, StepReceived, StepReported DEF IInv

-------------------------------------------------------------------------------
(* The second part: one process, on a database that works.                 *)

LEMMA OneActor ==
    ASSUME IInv, Quiet, NEW i \in crew, NEW j \in crew
    PROVE  i = j
<1>1. crew \subseteq Instance BY SetupTypes DEF IInv
<1>2. IsFiniteSet(crew) BY <1>1, ReceiveAssumption, FS_Subset
<1>3. \E p : crew = {p} BY <1>2, FS_Singleton DEF Quiet, Alone
<1> QED BY <1>3

LEMMA Actors ==
    ASSUME IInv, NEW i \in Instance, ProcessNext(i) \/ Disturb(i)
    PROVE  i \in crew
<1>1. pc[i] # "idle" => i \in crew BY DEF IInv, HasCurrent
<1>2. CASE ProcessNext(i)
  BY <1>1, <1>2, AfterCheckDomain DEF ProcessNext, Begin, End, PassOver, Acquire,
     AssertCurrent, Release, MarkProcessing, Load, Prepare, CreateIntent, Process,
     Rework, UpdateWork, MarkPublished, EmitPublished, Requeue, EmitFailed
<1>3. CASE Disturb(i)
  BY <1>1, <1>3 DEF Disturb, ProcessTimesOut, CallFails, CatchFails, Crash,
     Calls, Statements
<1> QED BY <1>2, <1>3

LEMMA QuietStep ==
    ASSUME IInv, Quiet, [Next]_vars, NEW j \in Instance, pc'[j] # "idle"
    PROVE  External \/ ProcessNext(j) \/ Disturb(j)
<1>1. j \in crew
  BY StepIInv, StepKeepsSetup DEF IInv, HasCurrent, crew
<1> QED BY <1>1, Actors, OneActor, StepCases

(* What happens around the process.                                        *)
LEMMA ExternalKeeps ==
    ASSUME TypeOK, External
    PROVE  /\ intent' = intent /\ \A j \in Instance : Still(j)
           /\ \A t \in Task : /\ status[t] \in Open => status'[t] \in Open
                              /\ status'[t] = "failed" => status[t] = "failed"
<1> USE DEF TypeOK, Open, Still, database, rows, local, attempt
<1>1. ASSUME NEW i \in Instance, NEW t \in Task, Enqueue(i, t)
      PROVE  /\ intent' = intent /\ \A j \in Instance : Still(j)
             /\ \A u \in Task : /\ status[u] \in Open => status'[u] \in Open
                                /\ status'[u] = "failed" => status[u] = "failed"
  BY <1>1 DEF Enqueue, NewTask
<1>2. ASSUME NEW i \in Instance, NEW t \in Task, WatchedSend(i, t) \/ ReplaySource(i, t)
      PROVE  /\ intent' = intent /\ \A j \in Instance : Still(j)
             /\ \A u \in Task : /\ status[u] \in Open => status'[u] \in Open
                                /\ status'[u] = "failed" => status[u] = "failed"
  BY <1>2 DEF WatchedSend, ReplaySource, IngestSend, NewTask
<1>3. ASSUME NEW i \in Instance, NEW t \in Task, ConfirmReceive(i, t)
      PROVE  /\ intent' = intent /\ \A j \in Instance : Still(j)
             /\ \A u \in Task : /\ status[u] \in Open => status'[u] \in Open
                                /\ status'[u] = "failed" => status[u] = "failed"
  BY <1>3 DEF ConfirmReceive
<1>4. CASE \/ \E a \in Account :
                 LeaseOutlivesStall(a) \/ LeaseOfTheDeadExpires(a) \/ PublishSend(a)
           \/ \E m \in wire : NodeHandlesLate(m)
           \/ UNCHANGED vars
  BY <1>4 DEF LeaseOutlivesStall, LeaseOfTheDeadExpires, Expire, PublishSend,
     NodeHandlesLate, vars
<1> QED BY <1>1, <1>2, <1>3, <1>4 DEF External

LEMMA StepWorksOnOpen ==
    ASSUME IInv, Quiet, QuietInv, [Next]_vars
    PROVE  WorksOnOpen'
<1> DEFINE Busy == {"idle", "next", "emitPublished", "emitFailed", "release"}
<1> SUFFICES ASSUME NEW j \in Instance
             PROVE  /\ pc'[j] = "next" => \A t \in todo'[j] : status'[t] \in Open
                    /\ pc'[j] \notin Busy => status'[current'[j]] \in Open
  BY DEF WorksOnOpen
<1>0. /\ pc[j] = "next" => \A t \in todo[j] : status[t] \in Open
      /\ pc[j] \notin Busy => status[current[j]] \in Open
  BY DEF QuietInv, WorksOnOpen
<1> USE DEF IInv, TypeOK, Goto
<1>1. CASE pc'[j] = "idle" BY <1>1
<1>2. CASE External
  <2>1. pc[j] \notin Busy => current[j] \in Task BY HomeType
  <2> QED BY <1>0, <1>2, <2>1, ExternalKeeps DEF Still
<1>3. CASE Begin(j)
  BY <1>3 DEF Begin, Listed, Open, attempt, database, rows
<1>4. CASE PassOver(j) BY <1>0, <1>4 DEF PassOver, attempt, database, rows
<1>5. CASE Acquire(j) BY <1>0, <1>5 DEF Acquire, rows
<1>6. CASE AssertCurrent(j)
  BY <1>0, <1>6, AfterCheckDomain, AfterCheckValues
  DEF AssertCurrent, attempt, database, rows
<1>7. CASE MarkProcessing(j)
  BY <1>7, HomeType DEF MarkProcessing, Open, attempt
<1>8. CASE End(j) \/ Release(j) \/ MarkPublished(j) \/ EmitPublished(j)
           \/ Requeue(j) \/ EmitFailed(j)
  BY <1>8 DEF End, Release, Reset, MarkPublished, EmitPublished, Requeue, EmitFailed
<1>9. CASE Load(j) \/ Prepare(j) \/ CreateIntent(j) \/ Process(j) \/ Rework(j)
           \/ UpdateWork(j)
  BY <1>0, <1>9 DEF Load, Prepare, CreateIntent, Process, AfterProcess, Verdict,
     Rework, UpdateWork, database, rows
<1>10. CASE Disturb(j)
  BY <1>0, <1>10 DEF Disturb, ProcessTimesOut, CallFails, CatchFails, Crash, Reset,
     Calls, Statements, Quiet, attempt, database, rows
<1> QED
  BY <1>1, <1>2, <1>3, <1>4, <1>5, <1>6, <1>7, <1>8, <1>9, <1>10, QuietStep
  DEF ProcessNext

LEMMA StepSubmitsIntent ==
    ASSUME IInv, Quiet, QuietInv, [Next]_vars
    PROVE  SubmitsIntent'
<1> SUFFICES ASSUME NEW j \in Instance
             PROVE  /\ pc'[j] \in Unsigned => ~ Signed(intent'[current'[j]])
                    /\ pc'[j] \in {"ready", "process"} =>
                          draft'[j] = intent'[current'[j]]
  BY DEF SubmitsIntent, Signed
<1>0. /\ pc[j] \in Unsigned => ~ Signed(intent[current[j]])
      /\ pc[j] \in {"ready", "process"} => draft[j] = intent[current[j]]
  BY DEF QuietInv, SubmitsIntent
<1> USE DEF IInv, TypeOK, Goto, Unsigned
<1>1. CASE pc'[j] = "idle" BY <1>1
<1>2. CASE External BY <1>0, <1>2, ExternalKeeps DEF Still
<1>3. CASE AssertCurrent(j)
  BY <1>0, <1>3, AfterCheckDomain, AfterCheckValues
  DEF AssertCurrent, attempt, database, rows
<1>4. CASE Load(j) BY <1>4, HomeType DEF Load, database, rows
<1>5. CASE Prepare(j) BY <1>0, <1>5 DEF Prepare, database, rows
<1>6. CASE CreateIntent(j) BY <1>6, HomeType DEF CreateIntent
<1>7. CASE UpdateWork(j)
  <2> DEFINE t == current[j]
  <2>1. t \in Task /\ draft[j].block = intent[t].block /\ draft[j] \in SignedBlock
        /\ intent[t] \in SignedBlock
    BY <1>7, HomeType DEF UpdateWork, UsesIntent, Saved
  <2>2. intent'[t] = [intent[t] EXCEPT !.work = draft[j].work]
        /\ draft'[j] = draft[j] /\ current'[j] = t /\ pc'[j] = "ready"
    BY <1>7, <2>1 DEF UpdateWork
  <2>3. [intent[t] EXCEPT !.work = draft[j].work] = draft[j]
    BY <2>1, Zenon DEF SignedBlock
  <2> QED BY <2>2, <2>3
<1>8. CASE Begin(j) \/ End(j) \/ PassOver(j) \/ Acquire(j) \/ Release(j)
           \/ MarkProcessing(j) \/ Process(j) \/ Rework(j) \/ MarkPublished(j)
           \/ EmitPublished(j) \/ Requeue(j) \/ EmitFailed(j)
  BY <1>8 DEF Begin, End, PassOver, Acquire, Release, Reset, MarkProcessing,
     Process, AfterProcess, Verdict, Rework, MarkPublished, EmitPublished,
     Requeue, EmitFailed
<1>9. CASE Disturb(j)
  BY <1>9 DEF Disturb, ProcessTimesOut, CallFails, CatchFails, Crash, Reset
<1> QED
  BY <1>1, <1>2, <1>3, <1>4, <1>5, <1>6, <1>7, <1>8, <1>9, QuietStep
  DEF ProcessNext

LEMMA StepGivesUpSafely ==
    ASSUME IInv, Quiet, QuietInv, [Next]_vars
    PROVE  GivesUpSafely'
<1> DEFINE Again == {"rework", "reworked", "updateWork"}
<1> SUFFICES ASSUME NEW j \in Instance
             PROVE  /\ pc'[j] \in Again => intent'[current'[j]].work = "low"
                    /\ pc'[j] \in {"caught", "requeue"} /\ ~ broadcast'[j] =>
                          (Signed(intent'[current'[j]]) =>
                               intent'[current'[j]].work = "low")
  BY DEF GivesUpSafely, Powerless, Signed
<1>0. /\ pc[j] \in Again => intent[current[j]].work = "low"
      /\ pc[j] \in {"caught", "requeue"} /\ ~ broadcast[j] => Powerless(current[j])
      /\ pc[j] \in Unsigned => ~ Signed(intent[current[j]])
      /\ pc[j] \in {"ready", "process"} => draft[j] = intent[current[j]]
  BY DEF QuietInv, GivesUpSafely, SubmitsIntent
<1> USE DEF IInv, TypeOK, Goto, Powerless
<1>1. CASE pc'[j] = "idle" BY <1>1
<1>2. CASE External BY <1>0, <1>2, ExternalKeeps DEF Still
<1>3. CASE AssertCurrent(j)
  BY <1>0, <1>3, AfterCheckDomain, AfterCheckValues
  DEF AssertCurrent, attempt, database, rows
<1>4. CASE Process(j)
  <2>1. /\ intent' = intent /\ current' = current
        /\ broadcast'[j] = ~ (Verdict(draft[j].block, draft[j].work, chain[Home(j)])
                                = "work rejected" /\ again[j])
        /\ pc'[j] = AfterProcess(Verdict(draft[j].block, draft[j].work,
                                         chain[Home(j)]), again[j])
        /\ draft[j] = intent[current[j]]
    BY <1>0, <1>4 DEF Process, database, rows
  <2>2. Verdict(draft[j].block, draft[j].work, chain[Home(j)]) = "work rejected" =>
           intent[current[j]].work = "low"
    BY <2>1 DEF Verdict
  <2> QED BY <2>1, <2>2 DEF AfterProcess, Verdict
<1>5. CASE Rework(j) BY <1>0, <1>5 DEF Rework, database, rows
<1>6. CASE ProcessTimesOut(j) BY <1>6 DEF ProcessTimesOut
<1>7. CASE CallFails(j)
  BY <1>0, <1>7 DEF CallFails, Calls, Quiet, Unsigned, attempt, database, rows
<1>8. CASE CatchFails(j) \/ Crash(j) BY <1>8 DEF CatchFails, Crash, Reset
<1>9. CASE Begin(j) \/ End(j) \/ PassOver(j) \/ Acquire(j) \/ Release(j)
           \/ MarkProcessing(j) \/ Load(j) \/ Prepare(j) \/ CreateIntent(j)
           \/ UpdateWork(j) \/ MarkPublished(j) \/ EmitPublished(j) \/ Requeue(j)
           \/ EmitFailed(j)
  BY <1>9 DEF Begin, End, PassOver, Acquire, Release, Reset, MarkProcessing, Load,
     Prepare, CreateIntent, UpdateWork, MarkPublished, EmitPublished, Requeue,
     EmitFailed
<1> QED
  BY <1>1, <1>2, <1>3, <1>4, <1>5, <1>6, <1>7, <1>8, <1>9, QuietStep
  DEF ProcessNext, Disturb

(* Nothing but the catch block fails a task.                               *)
LEMMA FailureWriters ==
    ASSUME IInv, [Next]_vars, NEW t \in Task, status'[t] = "failed"
    PROVE  \/ status[t] = "failed"
           \/ \E i \in Instance : Requeue(i) /\ t = current[i] /\ ~ broadcast[i]
<1> USE DEF IInv, TypeOK
<1>1. ASSUME NEW i \in Instance, Requeue(i), status[t] # "failed"
      PROVE  t = current[i] /\ ~ broadcast[i]
  BY <1>1 DEF Requeue
<1>2. ASSUME NEW i \in Instance, MarkProcessing(i) \/ MarkPublished(i)
      PROVE  status[t] = "failed"
  BY <1>2 DEF MarkProcessing, MarkPublished
<1>3. ASSUME NEW i \in Instance, ProcessNext(i), ~ Requeue(i),
             ~ MarkProcessing(i), ~ MarkPublished(i)
      PROVE  status' = status
  BY <1>3 DEF ProcessNext, Begin, End, PassOver, Acquire, AssertCurrent,
     Release, Load, Prepare, CreateIntent, Process, Rework, UpdateWork,
     EmitPublished, EmitFailed, database, rows
<1>4. ASSUME NEW i \in Instance, Disturb(i) PROVE status' = status
  BY <1>4 DEF Disturb, ProcessTimesOut, CallFails, CatchFails, Crash, database, rows
<1> QED BY <1>1, <1>2, <1>3, <1>4, ExternalKeeps, StepCases

LEMMA StepFailedIsPowerless ==
    ASSUME IInv, Quiet, QuietInv, [Next]_vars
    PROVE  FailedIsPowerless'
<1> SUFFICES ASSUME NEW t \in Task, status'[t] = "failed", Signed(intent'[t])
             PROVE  intent'[t].work = "low"
  BY DEF FailedIsPowerless, Powerless, Signed
<1> USE DEF IInv
<1>1. CASE status[t] = "failed"
  <2>1. Powerless(t) BY <1>1 DEF QuietInv, FailedIsPowerless
  <2>2. ASSUME NEW i \in Instance, t = current[i], CreateIntent(i) \/ UpdateWork(i)
        PROVE  FALSE
    BY <1>1, <2>2 DEF QuietInv, WorksOnOpen, Open, CreateIntent, UpdateWork
  <2> QED BY <2>1, <2>2, IntentWriters DEF Powerless
<1>2. ASSUME NEW i \in Instance, Requeue(i), t = current[i], ~ broadcast[i]
      PROVE  intent'[t].work = "low"
  <2>1. Powerless(t) /\ intent' = intent
    BY <1>2 DEF Requeue, QuietInv, GivesUpSafely
  <2> QED BY <2>1 DEF Powerless
<1> QED BY <1>1, <1>2, FailureWriters

(* A saved intent with valid work keeps it.                                *)
LEMMA ValidWorkStays ==
    ASSUME IInv, Quiet, QuietInv, [Next]_vars, NEW t \in Task,
           Signed(intent[t]), intent[t].work = "valid"
    PROVE  intent'[t] = intent[t]
<1>1. ASSUME NEW i \in Instance, t = current[i], CreateIntent(i)
      PROVE  intent'[t] = intent[t]
  BY <1>1 DEF CreateIntent, KeepFirst, IInv, TypeOK
<1>2. ASSUME NEW i \in Instance, t = current[i], UpdateWork(i) PROVE FALSE
  BY <1>2 DEF UpdateWork, QuietInv, GivesUpSafely
<1> QED BY <1>1, <1>2, IntentWriters DEF IInv

(* Two tasks do not share a block.                                         *)
LEMMA BlockNamesTask ==
    ASSUME IInv, NEW t \in Task, NEW u \in Task, Signed(intent[t]),
           EndsWith(intent[t].block, u)
    PROVE  t = u
BY ReceiptNamesTask DEF IInv, SignedForTheTask, EndsWith

(* A task whose intent is saved in this step.                              *)
LEMMA NewIntent ==
    ASSUME IInv, [Next]_vars, NEW t \in Task,
           ~ Signed(intent[t]), Signed(intent'[t])
    PROVE  EndsWith(intent'[t].block, t) /\ chain' = chain /\ wire' = wire
<1> USE DEF IInv
<1>1. EndsWith(intent'[t].block, t)
  BY StepSigned DEF SignedForTheTask, Signed
<1>2. ASSUME NEW i \in Instance, CreateIntent(i) \/ UpdateWork(i)
      PROVE  chain' = chain /\ wire' = wire
  BY <1>2 DEF CreateIntent, UpdateWork, network
<1> QED BY <1>1, <1>2, IntentWriters

LEMMA StepReceivedWork ==
    ASSUME IInv, Quiet, QuietInv, [Next]_vars, NEW t \in Task,
           Signed(intent'[t]), OnChain(intent'[t].block, chain'[Owner[t]])
    PROVE  intent'[t].work = "valid"
<1> USE DEF IInv
<1> DEFINE a == Owner[t]
           b == intent'[t].block
<1>1. /\ a \in Account /\ b \in Seq(Op) /\ chain[a] \in Seq(Op)
      /\ intent[t].work \in Work
  BY ReceiveAssumption, StepTypes DEF TypeOK, SignedBlock
<1>2. CASE ~ Signed(intent[t])
  <2>1. EndsWith(b, t) /\ chain' = chain BY <1>2, NewIntent
  <2>2. Len(b) \in 1..Len(chain[a]) /\ chain[a][Len(b)] = b[Len(b)]
    <3>1. OnChain(b, chain[a]) BY <2>1
    <3> HIDE DEF b
    <3> QED BY <1>1, <3>1, LastIsOnChain
  <2> QED BY <1>1, <1>2, <2>1, <2>2 DEF ReceivedIsSaved, EndsWith
<1>3. CASE Signed(intent[t]) /\ intent[t].work = "valid"
  BY <1>3, ValidWorkStays
<1>4. CASE Signed(intent[t]) /\ intent[t].work # "valid"
  <2>1. b = intent[t].block BY <1>4, StepKeepsSignature
  <2>2. ~ OnChain(b, chain[a])
    BY <1>4, <2>1 DEF QuietInv, ValidWorkIsSaved, Received
  <2>3. chain'[a] # chain[a] BY <2>2
  <2>4. b = chain'[a]
    <3>1. chain'[a] \in Seq(Op) /\ chain'[a] # << >> /\ Front(chain'[a]) = chain[a]
      BY <1>1, <2>3, ChainGrows
    <3>2. OnChain(b, chain'[a]) OBVIOUS
    <3> HIDE DEF b
    <3> QED BY <1>1, <2>2, <3>1, <3>2, NewBlockIsFrontier
  <2>5. EndsWith(chain'[a], t) BY <1>4, <2>1, <2>4 DEF SignedForTheTask
  <2>6. ASSUME NEW i \in Instance, Submits(i, a) PROVE FALSE
    <3>1. /\ draft[i] = intent[current[i]] /\ draft[i].block = chain'[a]
          /\ current[i] \in Task /\ draft[i].block \in Seq(Op)
      BY <2>6, HomeType
      DEF Submits, Process, QuietInv, SubmitsIntent, TypeOK, SignedBlock
    <3>2. draft[i].work # "low" /\ draft[i].block # << >>
      BY <2>6, <3>1, SubmissionExtends DEF Submits
    <3>3. current[i] = t BY <2>5, <3>1, <3>2, BlockNamesTask DEF Signed
    <3> QED BY <1>1, <1>4, <3>1, <3>2, <3>3 DEF Work
  <2>7. ASSUME NEW m \in wire, Handled(m, a) PROVE FALSE
    <3>1. m.block \in Seq(Op) /\ m.work \in Work BY DEF TypeOK
    <3>2. m.work = "valid"
      BY <2>7, <3>1, SubmissionExtends DEF Handled, Work
    <3>3. IsIntentOf(t, m.account, m.block)
      BY <1>4, <2>1, <2>4, <2>7 DEF Handled, IsIntentOf
    <3> QED BY <1>4, <3>2, <3>3 DEF QuietInv, ValidWorkIsSaved
  <2>8. ASSUME chain'[a] = Append(chain[a], SendOp(None, sends)) PROVE FALSE
    <3>1. sends \in Nat BY SetupTypes DEF TypeOK, SetupType
    <3>2. Append(chain[a], SendOp(None, sends))
              [Len(Append(chain[a], SendOp(None, sends)))] = SendOp(None, sends)
      BY <1>1, <3>1, SendOpType, AppendedBlock
    <3> QED BY <2>5, <2>8, <3>1, <3>2, SendIsNoReceipt DEF EndsWith
  <2> QED BY <1>1, <2>3, <2>6, <2>7, <2>8, ChainWriters
<1> QED BY <1>2, <1>3, <1>4

LEMMA StepSubmittedWork ==
    ASSUME IInv, Quiet, QuietInv, [Next]_vars, NEW m \in wire', NEW t \in Task,
           Owner[t] = m.account, Signed(intent'[t]), intent'[t].block = m.block,
           m.work = "valid"
    PROVE  intent'[t].work = "valid"
<1> USE DEF IInv
<1>1. CASE m \in wire
  <2>1. CASE Signed(intent[t])
    <3>1. IsIntentOf(t, m.account, m.block)
      BY <2>1, StepKeepsSignature DEF IsIntentOf
    <3>2. intent[t].work = "valid"
      BY <1>1, <3>1 DEF QuietInv, ValidWorkIsSaved
    <3> QED BY <2>1, <3>2, ValidWorkStays
  <2>2. CASE ~ Signed(intent[t])
    <3>1. EndsWith(m.block, t) BY <2>2, NewIntent
    <3>2. PICK u \in Task : IsIntentOf(u, m.account, m.block)
      BY <1>1 DEF SubmittedIsSaved
    <3> QED BY <2>2, <3>1, <3>2, BlockNamesTask DEF IsIntentOf
  <2> QED BY <2>1, <2>2
<1>2. ASSUME NEW i \in Instance, ProcessTimesOut(i), m = WireEntry(i)
      PROVE  intent'[t].work = "valid"
  <2>1. intent' = intent /\ pc[i] = "process" /\ current[i] \in Task
    BY <1>2, HomeType DEF ProcessTimesOut, database, rows
  <2>2. draft[i] = intent[current[i]] /\ Signed(intent[current[i]])
    BY <2>1 DEF QuietInv, SubmitsIntent, UsesIntent, Saved, Signed
  <2>3. m.block = intent[current[i]].block /\ m.work = intent[current[i]].work
    BY <1>2, <2>2 DEF WireEntry
  <2>4. EndsWith(intent[t].block, t) BY <2>1 DEF SignedForTheTask
  <2>5. t = current[i] BY <2>1, <2>2, <2>3, <2>4, BlockNamesTask
  <2> QED BY <2>1, <2>3, <2>5
<1> QED BY <1>1, <1>2, WireWriters

LEMMA StepQuietInv == IInv /\ QuietInv /\ [Next]_vars => QuietInv'
<1> SUFFICES ASSUME IInv, QuietInv, [Next]_vars, Quiet'
             PROVE  /\ WorksOnOpen' /\ SubmitsIntent' /\ GivesUpSafely'
                    /\ FailedIsPowerless' /\ ValidWorkIsSaved'
  BY DEF QuietInv
<1>1. Quiet BY StepKeepsSetup DEF Quiet, Alone, crew
<1>2. ValidWorkIsSaved'
  BY <1>1, StepReceivedWork, StepSubmittedWork
  DEF ValidWorkIsSaved, Received, IsIntentOf, Signed
<1> QED
  BY <1>1, <1>2, StepWorksOnOpen, StepSubmitsIntent, StepGivesUpSafely,
     StepFailedIsPowerless

LEMMA InitialQuietInv == Init => QuietInv
<1> SUFFICES ASSUME Init PROVE QuietInv
  OBVIOUS
<1>1. WorksOnOpen /\ SubmitsIntent /\ GivesUpSafely
  BY DEF Init, WorksOnOpen, SubmitsIntent, Unsigned, GivesUpSafely
<1>2. FailedIsPowerless /\ ValidWorkIsSaved
  BY DEF Init, FailedIsPowerless, ValidWorkIsSaved, Received, Signed, NoBlock
<1> QED BY <1>1, <1>2 DEF QuietInv

-------------------------------------------------------------------------------
(* Theorems.                                                               *)

(* The inductive invariant holds in every state of the receive pipeline.   *)
THEOREM InvariantHolds == Spec => [](IInv /\ QuietInv)
BY InitialIInv, InitialQuietInv, StepIInv, StepQuietInv, PTL DEF Spec

(* The rows, the instances' variables and the chains keep their types.     *)
THEOREM TypesHold == Spec => []TypeOK
<1>1. IInv => TypeOK BY DEF IInv
<1> QED BY <1>1, InvariantHolds, PTL

(* However many instances race, crash, stall or time out: a task reported  *)
(* as published or confirmed names the block of its saved intent, which is *)
(* on its account's chain.  And when one process owns a database that      *)
(* works, a task reported as failed has received nothing, whatever         *)
(* submissions of it timed out, were handled late or died with the process.*)
THEOREM OutcomesAreTrue == Spec => []ReportsAreTrue
<1>1. IInv /\ QuietInv => ReportsAreTrue
  <2> SUFFICES ASSUME IInv, QuietInv, Quiet, NEW t \in Task,
                      status[t] = "failed", Received(t)
               PROVE  FALSE
    BY DEF IInv, ReportsAreTrue, FailedReceivedNothing, Quiet
  <2>1. Powerless(t) /\ intent[t].work = "valid" /\ Signed(intent[t])
    BY DEF QuietInv, FailedIsPowerless, ValidWorkIsSaved, Received
  <2> QED BY <2>1 DEF Powerless
<1> QED BY <1>1, InvariantHolds, PTL

(* No step replaces the receive block of a saved intent.                   *)
THEOREM SignedOnlyOnce == Spec => SignedOnce
<1>1. IInv /\ [Next]_vars =>
        [\A t \in Task : Signed(intent[t]) =>
            intent'[t].block = intent[t].block]_vars
  BY StepKeepsSignature DEF IInv
<1> QED BY <1>1, InvariantHolds, PTL DEF Spec, SignedOnce
===============================================================================
