------------------------ MODULE BlockPublicationProofs ------------------------
(***************************************************************************)
(* Proofs about how the confirmation of a block becomes known, for every   *)
(* value of the constants: BlockPublication for RaiFlow's own blocks, and  *)
(* WatcherRecovery for those of others.                                    *)
(***************************************************************************)
EXTENDS BlockPublication, WatcherRecovery, FiniteSetTheorems, SequenceTheorems, TLAPS

(* What a loop, and who ingests a block, knows of it.                      *)
PolledIsFinal ==
    \A l \in Loop :
        loop[l].at \in {"ingest", "emit"} => ledger[loop[l].block] = "confirmed"
HandlesFinal == \A b \in Block : BeingHandled(b) => ledger[b] = "confirmed"

(* A payment is announced that is stored, or was left to another caller.   *)
Accounted(b) == Payment(b) => b \in ingested \cup left \cup lost
EmitsAccounted == \A l \in Loop : loop[l].at = "emit" => Accounted(loop[l].block)
ConfirmedAccounted == \A b \in Range(confirmed) : Accounted(b)

(* What is left to an ingestion is left to one that is under way.          *)
LeftIsHandled == \A b \in left : BeingHandled(b)
HandledIsIngested == handled \subseteq ingested

IInv ==
    /\ TypeOK /\ PolledIsFinal /\ HandlesFinal
    /\ EmitsAccounted /\ ConfirmedAccounted /\ LeftIsHandled /\ HandledIsIngested
    /\ ConfirmedIsFinal

-------------------------------------------------------------------------------
LEMMA SetupFacts ==
    ASSUME TypeOK
    PROVE  /\ blockSetup.limit \in Nat \ {0}
           /\ blockSetup.maxFaults \in Nat /\ blockSetup.maxCrashes \in Nat
           /\ blockSetup.sends \subseteq Block
           /\ blockSetup.payments \subseteq blockSetup.sends
           /\ crashes \in Nat
<1> DEFINE Setups ==
        [sends : SUBSET Block, payments : SUBSET Block, limit : Nat \ {0},
         maxFaults : Nat, maxCrashes : Nat]
<1>1. blockSetup \in Setups BY BlockPublicationAssumption DEF TypeOK
<1>2. blockSetup.payments \subseteq blockSetup.sends
  BY BlockPublicationAssumption DEF TypeOK
<1>3. crashes \in 0..blockSetup.maxCrashes BY DEF TypeOK
<1> QED BY <1>1, <1>2, <1>3

LEMMA FaultCounts ==
    ASSUME TypeOK, Fault
    PROVE  /\ faults' \in 0..blockSetup.maxFaults
           /\ crashes' = crashes /\ blockSetup' = blockSetup
<1>1. faults \in 0..blockSetup.maxFaults /\ blockSetup.maxFaults \in Nat
  BY SetupFacts DEF TypeOK
<1> QED BY <1>1 DEF Fault

(* A loop that runs has a block.                                           *)
LEMMA RunningLoop ==
    ASSUME TypeOK, NEW l \in Loop, loop[l].at # "ended"
    PROVE  loop[l] \in [at : {"poll", "ingest", "emit", "fail"}, block : Block]
BY DEF TypeOK, LoopState, Ended

LEMMA GotoType ==
    ASSUME TypeOK, NEW l \in Loop, loop[l].at # "ended",
           NEW at \in {"poll", "ingest", "emit", "fail"}, Goto(l, at)
    PROVE  /\ loop' \in [Loop -> LoopState]
           /\ loop'[l] = [at |-> at, block |-> loop[l].block]
           /\ \A m \in Loop \ {l} : loop'[m] = loop[m]
<1>1. [loop[l] EXCEPT !.at = at] = [at |-> at, block |-> loop[l].block]
  BY RunningLoop
<1> QED BY <1>1, RunningLoop DEF Goto, TypeOK, LoopState

LEMMA EndType ==
    ASSUME TypeOK, NEW l \in Loop, End(l)
    PROVE  /\ loop' \in [Loop -> LoopState]
           /\ loop'[l] = Ended
           /\ \A m \in Loop \ {l} : loop'[m] = loop[m]
BY DEF End, TypeOK, LoopState

(* The block of a loop is the one that was given to it.                    *)
LEMMA AntiFunctionType ==
    ASSUME NEW S, NEW T, NEW f \in [S -> T], NEW t \in Range(f)
    PROVE  AntiFunction(f)[t] \in S
<1>1. PICK s \in S : f[s] = t BY DEF Range
<1>2. AntiFunction(f)[t] = CHOOSE x \in S : t \in Range(f) => f[x] = t
  BY DEF AntiFunction, Inverse
<1> QED BY <1>1, <1>2

(* Tracking starts loops that poll, and touches no other.                  *)
LEMMA Tracking ==
    ASSUME TypeOK, NEW bs \in SUBSET Block, Track(bs)
    PROVE  /\ tracked' = tracked \cup bs /\ tracked' \subseteq Block
           /\ loop' \in [Loop -> LoopState]
           /\ \A l \in Loop : \/ loop'[l] = loop[l]
                              \/ loop[l] = Ended /\ loop'[l].at = "poll"
<1> DEFINE new == bs \ tracked
           starts == Injection(new, Idle)
<1>1. PICK start \in starts :
          loop' = [l \in Loop |->
                IF l \in Range(start)
                  THEN [at |-> "poll", block |-> AntiFunction(start)[l]]
                  ELSE loop[l]]
  <2>1. starts # {} BY DEF Track
  <2>2. (CHOOSE f \in starts : TRUE) \in starts BY <2>1
  <2> QED BY <2>2 DEF Track
<1>2. start \in [new -> Idle] BY DEF Injection
<1>3. \A l \in Range(start) : AntiFunction(start)[l] \in Block
  BY <1>2, AntiFunctionType
<1>4. \A l \in Range(start) : loop[l] = Ended BY <1>2 DEF Range, Idle
<1>5. tracked' = tracked \cup bs BY DEF Track
<1> QED BY <1>1, <1>3, <1>4, <1>5 DEF TypeOK, LoopState

(* What the end of an ingestion does.                                      *)
LEMMA SinkMoves ==
    ASSUME TypeOK, NEW b \in Block, Commits(b) \/ Breaks(b)
    PROVE  /\ handler' \in [Block -> Handler \cup {None}]
           /\ handler'[b] = None /\ \A k \in Block \ {b} : handler'[k] = handler[k]
           /\ ingested' \subseteq Block /\ handled' \subseteq Block
           /\ left' \subseteq Block /\ lost' \subseteq Block
           /\ ingested \subseteq ingested' /\ ingested' \subseteq ingested \cup {b}
           /\ handled' \subseteq handled \cup ingested'
           /\ left' = left \ {b}
           /\ \A k \in ingested \cup left \cup lost :
                 Payment(k) => k \in ingested' \cup left' \cup lost'
BY DEF Commits, Breaks, Leave, TypeOK

-------------------------------------------------------------------------------
LEMMA Initially == Init => IInv
<1> SUFFICES ASSUME Init PROVE IInv OBVIOUS
<1>1. TypeOK
  <2>1. loop \in [Loop -> LoopState] BY DEF Init, LoopState
  <2>2. faults \in 0..blockSetup.maxFaults /\ crashes \in 0..blockSetup.maxCrashes
    <3>1. blockSetup \in [sends : SUBSET Block, payments : SUBSET Block,
                          limit : Nat \ {0}, maxFaults : Nat, maxCrashes : Nat]
      BY BlockPublicationAssumption DEF Init
    <3> QED BY <3>1 DEF Init
  <2>3. recovering \in BOOLEAN BY DEF Init
  <2>4. << >> \in Seq(Block) OBVIOUS
  <2> QED BY <2>1, <2>2, <2>3, <2>4 DEF Init, TypeOK
<1>2. \A l \in Loop : loop[l].at = "ended" BY DEF Init, Ended
<1>3. Range(confirmed) = {} BY DEF Init, Range
<1> QED
  BY <1>1, <1>2, <1>3
     DEF Init, IInv, PolledIsFinal, HandlesFinal, BeingHandled, EmitsAccounted,
         ConfirmedAccounted, LeftIsHandled, HandledIsIngested, ConfirmedIsFinal

(* The types are preserved.                                                *)
LEMMA CallTypes ==
    ASSUME TypeOK, NEW c \in Call, Publish(c) \/ CallFails(c)
    PROVE  TypeOK'
<1> USE CallAssumption DEF Goes, events, bounds, memory, sinking
<1>1. CASE LookupKey(c)
  <2>1. CASE Key[c] # None /\ scoped[Key[c]] # None
    <3>1. scoped[Key[c]] \in Block BY <2>1 DEF Keys, TypeOK
    <3>2. tracked' \subseteq Block /\ loop' \in [Loop -> LoopState]
      BY <1>1, <2>1, <3>1, Tracking DEF LookupKey
    <3>3. replays' \in [Block -> SUBSET Call]
      <4>1. replays' = [replays EXCEPT ![scoped[Key[c]]] = @ \cup {c}]
        BY <1>1, <2>1 DEF LookupKey
      <4> QED BY <3>1, <4>1 DEF TypeOK
    <3> QED BY <1>1, <2>1, <3>2, <3>3 DEF LookupKey, TypeOK
  <2>2. CASE ~ (Key[c] # None /\ scoped[Key[c]] # None)
    BY <1>1, <2>2 DEF LookupKey, TypeOK
  <2> QED BY <2>1, <2>2
<1>2. CASE Process(c)
  <2>1. /\ faults' \in 0..blockSetup.maxFaults
        /\ crashes' = crashes /\ blockSetup' = blockSetup
    BY <1>2, FaultCounts DEF Process, TypeOK
  <2>2. ledger' \in [Block -> {"unknown", "processed", "confirmed"}]
    BY <1>2 DEF Process, TypeOK
  <2>3. pc' \in [Call -> {"idle", "process", "put", "emit", "answered", "refused"}]
    <3>1. \E step \in {"put", "refused"} : pc' = [pc EXCEPT ![c] = step]
      BY <1>2 DEF Process
    <3> QED BY <3>1 DEF TypeOK
  <2> QED BY <1>2, <2>1, <2>2, <2>3 DEF Process, TypeOK
<1>3. CASE PutKey(c) BY <1>3 DEF PutKey, TypeOK
<1>4. CASE EmitPublished(c)
  <2>1. tracked' \subseteq Block /\ loop' \in [Loop -> LoopState]
    BY <1>4, Tracking DEF EmitPublished
  <2>2. published' \in Seq(Block) BY <1>4 DEF EmitPublished, TypeOK
  <2> QED BY <1>4, <2>1, <2>2 DEF EmitPublished, TypeOK
<1>5. CASE CallFails(c)
  <2>1. published' \in Seq(Block) /\ forgotten' \subseteq Block
    <3>1. /\ published \in Seq(Block) /\ forgotten \subseteq Block
          /\ BlockOf[c] \in Block
      BY DEF TypeOK
    <3>2. Append(published, BlockOf[c]) \in Seq(Block) BY <3>1
    <3> QED BY <1>5, <3>1, <3>2 DEF CallFails
  <2> QED BY <1>5, <2>1, FaultCounts DEF CallFails, TypeOK
<1> QED BY <1>1, <1>2, <1>3, <1>4, <1>5 DEF Publish

LEMMA LoopTypes ==
    ASSUME TypeOK, NEW l \in Loop, Step(l) \/ Break(l)
    PROVE  TypeOK'
<1> USE DEF sinking
<1>1. ASSUME loop[l].at # "ended"
      PROVE  loop[l].block \in Block
  BY <1>1, RunningLoop
<1>2. CASE PollEnds(l)
  <2>1. loop' \in [Loop -> LoopState] BY <1>2, EndType DEF PollEnds
  <2> QED BY <1>2, <2>1 DEF PollEnds, Looping, TypeOK
<1>3. CASE Poll(l)
  <2>1. loop' \in [Loop -> LoopState]
    BY <1>3, GotoType DEF Poll, Looping
  <2>2. handler' \in [Block -> Handler \cup {None}] /\ left' \subseteq Block
    BY <1>1, <1>3 DEF Poll, Looping, Enter, Handler, TypeOK
  <2> QED BY <1>3, <2>1, <2>2 DEF Poll, Looping, TypeOK
<1>4. CASE GiveUp(l)
  <2>1. loop' \in [Loop -> LoopState] /\ tracked' \subseteq Block
    BY <1>4, GotoType DEF GiveUp, Looping, TypeOK
  <2> QED BY <1>4, <2>1, FaultCounts DEF GiveUp, Looping, TypeOK
<1>5. CASE Ingest(l)
  <2>1. loop' \in [Loop -> LoopState]
    BY <1>5, GotoType DEF Ingest, Looping
  <2>2. Commits(loop[l].block) /\ loop[l].block \in Block
    BY <1>1, <1>5 DEF Ingest, Looping
  <2> QED BY <1>5, <2>1, <2>2, SinkMoves DEF Ingest, Looping, TypeOK
<1>6. CASE EmitConfirmed(l)
  <2>1. loop' \in [Loop -> LoopState] /\ confirmed' \in Seq(Block)
    BY <1>1, <1>6, EndType DEF EmitConfirmed, Looping, TypeOK
  <2> QED BY <1>6, <2>1 DEF EmitConfirmed, Looping, TypeOK
<1>7. CASE EmitFailed(l)
  <2>1. loop' \in [Loop -> LoopState] /\ failed' \in Seq(Block)
    BY <1>1, <1>7, EndType DEF EmitFailed, Looping, TypeOK
  <2> QED BY <1>7, <2>1 DEF EmitFailed, Looping, TypeOK
<1>8. ASSUME Excepted(l), loop[l].at # "ended"
      PROVE  loop' \in [Loop -> LoopState] /\ forgotten' \subseteq Block
  <2>1. loop' \in [Loop -> LoopState]
    BY <1>8, GotoType DEF Excepted, AfterFailure
  <2> QED BY <1>1, <1>8, <2>1 DEF Excepted, TypeOK
<1>9. CASE IngestBreaks(l)
  <2>1. Breaks(loop[l].block) /\ loop[l].block \in Block
    BY <1>1, <1>9 DEF IngestBreaks, Looping
  <2>2. loop' \in [Loop -> LoopState] /\ forgotten' \subseteq Block
    BY <1>8, <1>9 DEF IngestBreaks, Looping
  <2> QED BY <1>9, <2>1, <2>2, FaultCounts, SinkMoves DEF IngestBreaks, Looping, TypeOK
<1>10. CASE EmitBreaks(l)
  <2>1. confirmed' \in Seq(Block)
    <3>1. confirmed \in Seq(Block) /\ loop[l].block \in Block
      BY <1>1, <1>10 DEF EmitBreaks, Looping, TypeOK
    <3>2. Append(confirmed, loop[l].block) \in Seq(Block) BY <3>1
    <3> QED BY <1>10, <3>1, <3>2 DEF EmitBreaks
  <2>2. loop' \in [Loop -> LoopState] /\ forgotten' \subseteq Block
    BY <1>8, <1>10 DEF EmitBreaks, Looping
  <2> QED BY <1>10, <2>1, <2>2, FaultCounts DEF EmitBreaks, Looping, TypeOK
<1> QED
  BY <1>2, <1>3, <1>4, <1>5, <1>6, <1>7, <1>9, <1>10 DEF Step, Break

LEMMA OtherTypes ==
    ASSUME TypeOK, NEW b \in Block, Confirm(b) \/ Other(b)
    PROVE  TypeOK'
<1> USE DEF events, bounds, memory, sinking
<1>1. CASE Confirm(b) BY <1>1 DEF Confirm, TypeOK
<1>2. CASE OtherTakes(b) BY <1>2 DEF OtherTakes, Enter, Handler, TypeOK
<1>3. CASE OtherIngests(b) BY <1>3, SinkMoves DEF OtherIngests, TypeOK
<1>4. CASE OtherFails(b) BY <1>4, FaultCounts, SinkMoves DEF OtherFails, TypeOK
<1> QED BY <1>1, <1>2, <1>3, <1>4 DEF Other

(* What is listed is in the log.                                           *)
LEMMA ListedInLog ==
    ASSUME NEW log \in Seq(Block)
    PROVE  Listed(log) \subseteq Range(log) /\ Range(log) \subseteq Block
<1>1. DOMAIN log = 1..Len(log) /\ \A n \in 1..Len(log) : log[n] \in Block OBVIOUS
<1> QED BY <1>1 DEF Listed, Range

LEMMA AppendRange ==
    ASSUME NEW log \in Seq(Block), NEW b \in Block
    PROVE  Range(Append(log, b)) = Range(log) \cup {b}
<1> DEFINE new == Append(log, b)
<1>1. /\ DOMAIN log = 1..Len(log) /\ DOMAIN new = 1..(Len(log) + 1)
      /\ Len(log) \in Nat
      /\ \A n \in 1..Len(log) : new[n] = log[n] /\ n \in 1..(Len(log) + 1)
      /\ new[Len(log) + 1] = b
  OBVIOUS
<1> HIDE DEF new
<1>2. \A n \in 1..(Len(log) + 1) : n \in 1..Len(log) \/ n = Len(log) + 1 BY <1>1
<1>3. Len(log) + 1 \in 1..(Len(log) + 1) BY <1>1
<1>4. Range(new) = Range(log) \cup {b} BY <1>1, <1>2, <1>3 DEF Range
<1> QED BY <1>4 DEF new

LEMMA UnfinishedType == ASSUME TypeOK PROVE Unfinished \subseteq Block
BY ListedInLog DEF Unfinished, TypeOK

LEMMA RestartTypes ==
    ASSUME TypeOK, Recover \/ RecoverFails \/ Crash
    PROVE  TypeOK'
<1> USE DEF events, bounds, memory, sinking
<1>1. Range(published) \subseteq Block BY ListedInLog DEF TypeOK
<1>2. CASE Recover
  <2>1. tracked' \subseteq Block /\ loop' \in [Loop -> LoopState]
    BY <1>2, UnfinishedType, Tracking DEF Recover
  <2> QED BY <1>1, <1>2, <2>1 DEF Recover, TypeOK
<1>3. CASE RecoverFails BY <1>1, <1>3, FaultCounts DEF RecoverFails, TypeOK
<1>4. CASE Crash
  <2>1. crashes' \in 0..blockSetup.maxCrashes
    BY <1>4, SetupFacts DEF Crash, TypeOK
  <2>2. recovering' \in BOOLEAN BY <1>4 DEF Crash
  <2> QED BY <1>4, <2>1, <2>2 DEF Crash, LoopState, TypeOK
<1> QED BY <1>2, <1>3, <1>4

LEMMA TypesStep == TypeOK /\ [Next]_vars => TypeOK'
<1> SUFFICES ASSUME TypeOK, [Next]_vars PROVE TypeOK' OBVIOUS
<1>1. CASE UNCHANGED vars
  BY <1>1 DEF vars, events, memory, sinking, bounds, TypeOK
<1> QED BY <1>1, CallTypes, LoopTypes, OtherTypes, RestartTypes DEF Next

-------------------------------------------------------------------------------
(* What is known is preserved: the ledger only moves forward, ingested     *)
(* only grows, and a payment that is accounted for stays so.               *)
Grown ==
    /\ blockSetup' = blockSetup
    /\ \A b \in Block : ledger[b] = "confirmed" => ledger'[b] = "confirmed"
    /\ \A b \in Block : Accounted(b) => Accounted(b)'

LEMMA SinkKept ==
    ASSUME UNCHANGED <<sinking, blockSetup>>
    PROVE  /\ \A b \in Block : Accounted(b) => Accounted(b)'
           /\ \A b \in Block : BeingHandled(b)' <=> BeingHandled(b)
BY DEF sinking, Accounted, Payment, BeingHandled

(* A step that leaves the sink alone.                                      *)
LEMMA SinkStands ==
    ASSUME IInv, Grown, UNCHANGED sinking
    PROVE  HandlesFinal' /\ LeftIsHandled' /\ HandledIsIngested'
BY DEF Grown, sinking, IInv, TypeOK, HandlesFinal, LeftIsHandled, HandledIsIngested, BeingHandled

(* A step that only starts or ends loops keeps what the others know.       *)
LEMMA LoopsStart ==
    ASSUME IInv, Grown,
           \A l \in Loop : loop'[l] = loop[l] \/ loop'[l].at \in {"poll", "ended", "fail"}
    PROVE  PolledIsFinal' /\ EmitsAccounted'
<1>1. \A l \in Loop : loop[l].at \in {"ingest", "emit"} => loop[l].block \in Block
  BY RunningLoop DEF IInv
<1> QED BY <1>1 DEF Grown, IInv, PolledIsFinal, EmitsAccounted

(* A step that announces no confirmation.                                  *)
LEMMA RowsStand ==
    ASSUME IInv, Grown, confirmed' = confirmed
    PROVE  /\ ConfirmedAccounted'
           /\ ingested' = ingested => ConfirmedIsFinal'
<1>1. Range(confirmed) \subseteq Block BY ListedInLog DEF IInv, TypeOK
<1>2. ingested \subseteq Block BY DEF IInv, TypeOK
<1> QED BY <1>1, <1>2 DEF Grown, IInv, ConfirmedAccounted, ConfirmedIsFinal

LEMMA CallStep ==
    ASSUME IInv, NEW c \in Call, Publish(c) \/ CallFails(c)
    PROVE  IInv'
<1> USE DEF events, memory, bounds
<1>t. TypeOK /\ TypeOK' BY CallTypes DEF IInv
<1>1. \A l \in Loop : loop'[l] = loop[l] \/ loop'[l].at \in {"poll", "ended", "fail"}
  <2>1. CASE LookupKey(c)
    <3>1. CASE Key[c] # None /\ scoped[Key[c]] # None
      <4>1. scoped[Key[c]] \in Block BY <1>t, <3>1 DEF Keys, TypeOK
      <4> QED BY <1>t, <2>1, <3>1, <4>1, Tracking DEF LookupKey
    <3>2. CASE ~ (Key[c] # None /\ scoped[Key[c]] # None)
      BY <2>1, <3>2 DEF LookupKey
    <3> QED BY <3>1, <3>2
  <2>2. CASE EmitPublished(c)
    <3>1. BlockOf[c] \in Block BY CallAssumption
    <3> QED BY <1>t, <2>2, <3>1, Tracking DEF EmitPublished
  <2>3. CASE Process(c) \/ PutKey(c) \/ CallFails(c)
    BY <2>3 DEF Process, PutKey, CallFails
  <2> QED BY <2>1, <2>2, <2>3 DEF Publish
<1>2. confirmed' = confirmed /\ UNCHANGED <<sinking, blockSetup>>
  BY DEF Publish, LookupKey, Process, PutKey, EmitPublished, CallFails, Fault
<1>3. \A b \in Block : ledger[b] = "confirmed" => ledger'[b] = "confirmed"
  BY <1>t DEF Publish, LookupKey, Process, PutKey, EmitPublished, CallFails, TypeOK
<1>4. Grown BY <1>2, <1>3, SinkKept DEF Grown
<1>5. ingested' = ingested BY <1>2 DEF sinking
<1> QED BY <1>t, <1>1, <1>2, <1>4, <1>5, SinkStands, LoopsStart, RowsStand DEF IInv

LEMMA OtherStep ==
    ASSUME IInv, NEW b \in Block, Confirm(b) \/ Other(b)
    PROVE  IInv'
<1> USE DEF events, memory, bounds
<1>t. TypeOK /\ TypeOK' BY OtherTypes DEF IInv
<1>1. UNCHANGED <<loop, confirmed, blockSetup>>
  BY DEF Confirm, Other, OtherTakes, OtherIngests, OtherFails, Fault
<1>2. CASE Confirm(b)
  <2>1. UNCHANGED <<sinking, blockSetup>> BY <1>2 DEF Confirm
  <2>2. Grown BY <1>t, <1>2, <2>1, SinkKept DEF Confirm, Grown, TypeOK
  <2>3. ingested' = ingested BY <2>1 DEF sinking
  <2> QED BY <1>t, <1>1, <2>1, <2>2, <2>3, SinkStands, LoopsStart, RowsStand DEF IInv
<1>3. CASE OtherTakes(b)
  <2>1. /\ UNCHANGED <<ledger, ingested, handled, left, lost>>
        /\ ledger[b] = "confirmed" /\ handler[b] = None
        /\ handler' = [handler EXCEPT ![b] = "another source"]
    BY <1>3 DEF OtherTakes, Enter, BeingHandled
  <2>2. Grown BY <1>1, <2>1 DEF Grown, Accounted, Payment
  <2>3. HandlesFinal'
    BY <1>t, <2>1 DEF IInv, HandlesFinal, BeingHandled, TypeOK
  <2>4. LeftIsHandled' /\ HandledIsIngested'
    BY <1>t, <2>1 DEF IInv, LeftIsHandled, HandledIsIngested, BeingHandled, TypeOK
  <2> QED BY <1>t, <1>1, <2>1, <2>2, <2>3, <2>4, LoopsStart, RowsStand DEF IInv
<1>4. CASE OtherIngests(b) \/ OtherFails(b)
  <2>1. /\ ledger' = ledger /\ BeingHandled(b)
        /\ Commits(b) \/ Breaks(b)
        /\ OtherIngests(b) => Commits(b)
    BY <1>4, BlockPublicationAssumption DEF OtherIngests, OtherFails, BeingHandled
  <2>2. /\ handler'[b] = None /\ \A k \in Block \ {b} : handler'[k] = handler[k]
        /\ ingested' \subseteq ingested \cup {b} /\ handled' \subseteq Block
        /\ left' = left \ {b}
        /\ ingested \subseteq ingested'
        /\ handled' \subseteq handled \cup ingested'
        /\ \A k \in ingested \cup left \cup lost :
              Payment(k) => k \in ingested' \cup left' \cup lost'
    BY <1>t, <2>1, SinkMoves
  <2>3. Grown BY <1>1, <2>1, <2>2 DEF Grown, Accounted, Payment
  <2>4. ledger[b] = "confirmed" BY <2>1 DEF IInv, HandlesFinal
  <2>5. HandlesFinal' /\ LeftIsHandled' /\ HandledIsIngested'
    BY <1>t, <2>1, <2>2
       DEF IInv, HandlesFinal, LeftIsHandled, HandledIsIngested, BeingHandled, TypeOK
  <2>6. ConfirmedIsFinal'
    BY <1>1, <2>1, <2>2, <2>4 DEF IInv, ConfirmedIsFinal
  <2> QED BY <1>t, <1>1, <2>3, <2>5, <2>6, LoopsStart, RowsStand DEF IInv
<1> QED BY <1>2, <1>3, <1>4 DEF Other

LEMMA RestartStep ==
    ASSUME IInv, Recover \/ RecoverFails \/ Crash
    PROVE  IInv'
<1> USE DEF events, memory, bounds
<1>t. TypeOK /\ TypeOK' BY RestartTypes DEF IInv
<1>1. \A l \in Loop : loop'[l] = loop[l] \/ loop'[l].at \in {"poll", "ended", "fail"}
  <2>1. CASE Recover BY <1>t, <2>1, UnfinishedType, Tracking DEF Recover
  <2>2. CASE Crash BY <2>2 DEF Crash, Ended
  <2>3. CASE RecoverFails BY <2>3 DEF RecoverFails
  <2> QED BY <2>1, <2>2, <2>3
<1>2. UNCHANGED <<ledger, confirmed, ingested, blockSetup>>
  BY DEF Recover, RecoverFails, Crash, sinking, Fault
<1>3. CASE Recover \/ RecoverFails
  <2>1. UNCHANGED sinking BY <1>3 DEF Recover, RecoverFails
  <2>2. Grown BY <1>2, <2>1, SinkKept DEF Grown
  <2> QED BY <1>t, <1>1, <1>2, <2>1, <2>2, SinkStands, LoopsStart, RowsStand DEF IInv
<1>4. CASE Crash
  <2>1. /\ \A b \in Block : ~ BeingHandled(b)'
        /\ handled' = {} /\ left' = {} /\ lost' = lost \cup left
    BY <1>4 DEF Crash, BeingHandled
  <2>2. Grown BY <1>2, <2>1 DEF Grown, Accounted, Payment
  <2>3. HandlesFinal' /\ LeftIsHandled' /\ HandledIsIngested'
    BY <2>1 DEF HandlesFinal, LeftIsHandled, HandledIsIngested
  <2> QED BY <1>t, <1>1, <1>2, <2>2, <2>3, LoopsStart, RowsStand DEF IInv
<1> QED BY <1>3, <1>4

LEMMA LoopStep ==
    ASSUME IInv, NEW l \in Loop, Step(l) \/ Break(l)
    PROVE  IInv'
<1>t. TypeOK /\ TypeOK' BY LoopTypes DEF IInv
<1>b. loop[l].at # "ended" => loop[l].block \in Block BY <1>t, RunningLoop
<1>0. UNCHANGED <<ledger, blockSetup>> /\ loop[l].at # "ended"
  BY DEF Step, Break, PollEnds, Poll, GiveUp, Ingest, EmitConfirmed, EmitFailed,
         IngestBreaks, EmitBreaks, Looping
<1>1. PICK k \in Block : k = loop[l].block BY <1>b, <1>0
<1>e. ASSUME Excepted(l)
      PROVE  \A m \in Loop : loop'[m] = loop[m] \/ loop'[m].at \in {"poll", "ended", "fail"}
  <2>1. PICK at \in {"poll", "fail"} : Goto(l, at)
    BY <1>e DEF Excepted, AfterFailure
  <2>2. /\ loop'[l] = [at |-> at, block |-> loop[l].block]
        /\ \A m \in Loop \ {l} : loop'[m] = loop[m]
    BY <1>t, <1>0, <2>1, GotoType
  <2> QED BY <2>2
<1>2. CASE Poll(l)
  <2>1. /\ confirmed' = confirmed /\ ingested' = ingested
        /\ handled' = handled /\ lost' = lost
        /\ ledger[k] = "confirmed"
    BY <1>1, <1>2 DEF Poll, Looping, IsConfirmed
  <2>2. CASE k \in blockSetup.sends \ handled /\ ~ BeingHandled(k)
    <3>1. /\ left' = left /\ handler' = [handler EXCEPT ![k] = l]
          /\ loop'[l] = [at |-> "ingest", block |-> k]
          /\ \A m \in Loop \ {l} : loop'[m] = loop[m]
      BY <1>1, <1>2, <1>t, <2>2, GotoType DEF Poll, Looping, Enter
    <3>2. Grown BY <1>0, <2>1, <3>1 DEF Grown, Accounted, Payment
    <3>3. PolledIsFinal' /\ EmitsAccounted'
      BY <1>0, <1>1, <2>1, <3>1
         DEF IInv, PolledIsFinal, EmitsAccounted, Accounted, Payment
    <3>4. HandlesFinal' /\ LeftIsHandled' /\ HandledIsIngested'
      <4>1. l # None BY BlockPublicationAssumption
      <4> QED
        BY <1>0, <1>t, <2>1, <3>1, <4>1
           DEF IInv, HandlesFinal, LeftIsHandled, HandledIsIngested, BeingHandled, TypeOK
    <3> QED BY <1>t, <2>1, <3>2, <3>3, <3>4, RowsStand DEF IInv
  <2>3. CASE ~ (k \in blockSetup.sends \ handled /\ ~ BeingHandled(k))
    <3>1. /\ left' = left \cup {c \in {k} : BeingHandled(c)} /\ handler' = handler
          /\ loop'[l] = [at |-> "emit", block |-> k]
          /\ \A m \in Loop \ {l} : loop'[m] = loop[m]
      BY <1>1, <1>2, <1>t, <2>3, GotoType DEF Poll, Looping
    <3>2. Grown BY <1>0, <2>1, <3>1 DEF Grown, Accounted, Payment
    <3>3. Accounted(k)'
      <4>1. blockSetup.payments \subseteq blockSetup.sends BY <1>t, SetupFacts
      <4>2. CASE k \notin blockSetup.sends
        BY <1>0, <4>1, <4>2 DEF Accounted, Payment
      <4>3. CASE k \in handled
        BY <2>1, <4>3 DEF IInv, HandledIsIngested, Accounted
      <4>4. CASE BeingHandled(k) BY <3>1, <4>4 DEF Accounted
      <4> QED BY <2>3, <4>2, <4>3, <4>4
    <3>4. PolledIsFinal' /\ EmitsAccounted'
      <4>1. \A m \in Loop \ {l} : loop[m].at = "emit" =>
                loop[m].block \in Block /\ Accounted(loop[m].block)
        BY <1>t, RunningLoop DEF IInv, EmitsAccounted
      <4> QED
        BY <1>0, <1>1, <2>1, <3>1, <3>2, <3>3, <4>1
           DEF IInv, PolledIsFinal, EmitsAccounted, Grown
    <3>5. HandlesFinal' /\ LeftIsHandled' /\ HandledIsIngested'
      BY <1>0, <2>1, <3>1
         DEF IInv, HandlesFinal, LeftIsHandled, HandledIsIngested, BeingHandled
    <3> QED BY <1>t, <2>1, <3>2, <3>4, <3>5, RowsStand DEF IInv
  <2> QED BY <2>2, <2>3
<1>3. CASE Ingest(l) \/ IngestBreaks(l)
  <2>1. /\ Commits(k) \/ Breaks(k)
        /\ confirmed' = confirmed /\ loop[l].at = "ingest"
    BY <1>1, <1>3 DEF Ingest, IngestBreaks, Looping
  <2>2. /\ handler'[k] = None /\ \A b \in Block \ {k} : handler'[b] = handler[b]
        /\ ingested' \subseteq ingested \cup {k}
        /\ left' = left \ {k}
        /\ ingested \subseteq ingested'
        /\ handled' \subseteq handled \cup ingested'
        /\ \A b \in ingested \cup left \cup lost :
              Payment(b) => b \in ingested' \cup left' \cup lost'
    BY <1>t, <2>1, SinkMoves
  <2>3. Grown BY <1>0, <2>2 DEF Grown, Accounted, Payment
  <2>4. ledger[k] = "confirmed" BY <1>1, <2>1 DEF IInv, PolledIsFinal
  <2>5. HandlesFinal' /\ LeftIsHandled' /\ HandledIsIngested'
    BY <1>t, <1>0, <2>2, <2>4
       DEF IInv, HandlesFinal, LeftIsHandled, HandledIsIngested, BeingHandled, TypeOK
  <2>6. ConfirmedIsFinal'
    BY <1>0, <2>1, <2>2, <2>4 DEF IInv, ConfirmedIsFinal
  <2>7. PolledIsFinal' /\ EmitsAccounted'
    <3>1. CASE Ingest(l)
      <4>1. /\ loop'[l] = [at |-> "emit", block |-> k]
            /\ \A m \in Loop \ {l} : loop'[m] = loop[m]
        BY <1>1, <1>t, <1>0, <3>1, GotoType DEF Ingest
      <4>2. Accounted(k)'
        BY <1>0, <1>1, <3>1 DEF Ingest, Commits, Accounted, Payment
      <4>3. \A m \in Loop \ {l} : loop[m].at = "emit" =>
                loop[m].block \in Block /\ Accounted(loop[m].block)
        BY <1>t, RunningLoop DEF IInv, EmitsAccounted
      <4> QED
        BY <1>0, <2>3, <2>4, <4>1, <4>2, <4>3
           DEF IInv, PolledIsFinal, EmitsAccounted, Grown
    <3>2. CASE IngestBreaks(l)
      BY <1>e, <2>3, <3>2, LoopsStart DEF IngestBreaks
    <3> QED BY <1>3, <3>1, <3>2
  <2> QED BY <1>t, <2>1, <2>3, <2>5, <2>6, <2>7, RowsStand DEF IInv
<1>4. CASE \/ EmitConfirmed(l) \/ EmitBreaks(l)
           \/ PollEnds(l) \/ GiveUp(l) \/ EmitFailed(l)
  <2>1. UNCHANGED sinking
    BY <1>4 DEF EmitConfirmed, EmitBreaks, PollEnds, GiveUp, EmitFailed
  <2>2. Grown BY <1>0, <2>1, SinkKept DEF Grown
  <2>3. \A m \in Loop : loop'[m] = loop[m] \/ loop'[m].at \in {"poll", "ended", "fail"}
    <3>1. CASE EmitBreaks(l) BY <1>e, <3>1 DEF EmitBreaks
    <3>2. CASE GiveUp(l)
      <4>1. /\ loop'[l] = [at |-> "fail", block |-> loop[l].block]
            /\ \A m \in Loop \ {l} : loop'[m] = loop[m]
        BY <3>2, <1>t, GotoType DEF GiveUp, Looping
      <4> QED BY <4>1
    <3>3. CASE EmitConfirmed(l) \/ EmitFailed(l) \/ PollEnds(l)
      BY <3>3, <1>t, EndType DEF EmitConfirmed, EmitFailed, PollEnds, Ended
    <3> QED BY <1>4, <3>1, <3>2, <3>3
  <2>4. ConfirmedAccounted' /\ ConfirmedIsFinal'
    <3>1. CASE confirmed' = confirmed
      BY <2>1, <2>2, <3>1, RowsStand DEF sinking
    <3>2. CASE confirmed' # confirmed
      <4>1. confirmed' = Append(confirmed, k) /\ loop[l].at = "emit"
        BY <1>1, <1>4, <3>2
           DEF EmitConfirmed, EmitBreaks, PollEnds, GiveUp, EmitFailed, Looping
      <4>2. confirmed \in Seq(Block) BY <1>t DEF TypeOK
      <4>3. Range(confirmed') \subseteq Range(confirmed) \cup {k}
        BY <4>1, <4>2, AppendRange
      <4>4. Accounted(k) /\ ledger[k] = "confirmed"
        BY <1>1, <4>1 DEF IInv, EmitsAccounted, PolledIsFinal
      <4>5. Range(confirmed) \subseteq Block BY <4>2, ListedInLog
      <4> QED
        BY <1>0, <2>1, <2>2, <4>3, <4>4, <4>5
           DEF Grown, sinking, IInv, ConfirmedAccounted, ConfirmedIsFinal
    <3> QED BY <3>1, <3>2
  <2> QED BY <1>t, <2>1, <2>2, <2>3, <2>4, SinkStands, LoopsStart DEF IInv
<1> QED BY <1>2, <1>3, <1>4 DEF Step, Break

LEMMA Preserved == IInv /\ [Next]_vars => IInv'
<1> SUFFICES ASSUME IInv, [Next]_vars PROVE IInv' OBVIOUS
<1>1. CASE UNCHANGED vars
  BY <1>1, TypesStep
     DEF vars, events, memory, sinking, bounds, IInv, PolledIsFinal, HandlesFinal,
         BeingHandled, EmitsAccounted, ConfirmedAccounted, Accounted, Payment,
         LeftIsHandled, HandledIsIngested, ConfirmedIsFinal
<1> QED BY <1>1, CallStep, LoopStep, OtherStep, RestartStep DEF Next

LEMMA WithinAccounts == IInv => IngestedBeforeConfirmed
BY DEF IInv, ConfirmedAccounted, Accounted, LeftIsHandled, IngestedBeforeConfirmed

-------------------------------------------------------------------------------
(* Announced once: what may still be announced of a block is a token, held *)
(* by confirmingBlocks or by the loop that settles the block.  Publishing  *)
(* brings one token, a call answered by its key one more; a restart brings *)
(* one when nothing was announced, or nothing that is listed.              *)

Settling(b) == {l \in Loop : loop[l].at \in {"ingest", "emit"} /\ loop[l].block = b}
Publishes(c) == pc[c] \in {"put", "emit"}

Spent(b) ==
    Times(b) + Cardinality(Settling(b)) + IF b \in tracked THEN 1 ELSE 0

(* Before its publication is announced, a block has no token of its own.   *)
Unannounced(b) ==
    ledger[b] = "unknown" \/ \E c \in Call : Publishes(c) /\ BlockOf[c] = b
Beyond == Range(confirmed) \ Listed(confirmed)
Restarts(b) == IF b \in Beyond THEN crashes ELSE 0
Allowed(b) ==
    Cardinality(replays[b]) + (IF Unannounced(b) THEN 0 ELSE 1) + Restarts(b)

FiniteTokens == \A b \in Block : IsFiniteSet(Settling(b)) /\ IsFiniteSet(replays[b])

(* The node accepts a block from one call.                                 *)
OnePublisher ==
    \A c \in Call : Publishes(c) =>
        /\ ledger[BlockOf[c]] # "unknown"
        /\ \A d \in Call : Publishes(d) /\ BlockOf[d] = BlockOf[c] => d = c
PublishedIsAccepted == \A b \in Range(published) : ledger[b] # "unknown"

(* A call is answered once.                                                *)
ReplayedIsAnswered == \A b \in Block : \A c \in replays[b] : pc[c] = "answered"

(* The recovery runs before anything else does, and has a token for what   *)
(* it does not find.                                                       *)
RecoversAlone ==
    recovering =>
        /\ tracked = {}
        /\ \A l \in Loop : loop[l] = Ended
        /\ \A c \in Call : pc[c] \in {"idle", "answered", "refused"}
        /\ \A b \in Beyond : Times(b) + 1 <= Allowed(b)

WithinAllowance == \A b \in Block : Spent(b) <= Allowed(b)

OnceInv ==
    /\ FiniteTokens /\ OnePublisher /\ PublishedIsAccepted
    /\ ReplayedIsAnswered /\ RecoversAlone /\ WithinAllowance

(* How an announcement counts.                                             *)
LEMMA TimesType ==
    ASSUME confirmed \in Seq(Block), NEW b \in Block
    PROVE  /\ Times(b) \in Nat
           /\ b \notin Range(confirmed) => Times(b) = 0
<1> DEFINE At == {n \in DOMAIN confirmed : confirmed[n] = b}
<1>1. DOMAIN confirmed = 1..Len(confirmed) /\ Len(confirmed) \in Nat OBVIOUS
<1>2. IsFiniteSet(1..Len(confirmed)) BY <1>1, FS_Interval
<1>3. IsFiniteSet(At) BY <1>1, <1>2, FS_Subset
<1>4. b \notin Range(confirmed) => At = {} BY DEF Range
<1>5. Cardinality(At) \in Nat BY <1>3, FS_CardinalityType
<1> QED BY <1>4, <1>5, FS_EmptySet DEF Times

LEMMA TimesOfAppend ==
    ASSUME confirmed \in Seq(Block), NEW k \in Block, confirmed' = Append(confirmed, k),
           NEW b \in Block
    PROVE  Times(b)' = Times(b) + IF b = k THEN 1 ELSE 0
<1> DEFINE At  == {n \in DOMAIN confirmed : confirmed[n] = b}
           new == Len(confirmed) + 1
<1>1. /\ DOMAIN confirmed = 1..Len(confirmed) /\ Len(confirmed) \in Nat
      /\ DOMAIN confirmed' = 1..new
      /\ \A n \in 1..Len(confirmed) : confirmed'[n] = confirmed[n]
      /\ confirmed'[new] = k
  OBVIOUS
<1>2. IsFiniteSet(At) /\ new \notin At
  <2>1. IsFiniteSet(1..Len(confirmed)) BY <1>1, FS_Interval
  <2> QED BY <1>1, <2>1, FS_Subset
<1>3. 1..new = 1..Len(confirmed) \cup {new} BY <1>1
<1>4. Times(b)' = Cardinality({n \in DOMAIN confirmed' : confirmed'[n] = b})
  BY DEF Times
<1> HIDE DEF new
<1>5. {n \in DOMAIN confirmed' : confirmed'[n] = b} = IF b = k THEN At \cup {new} ELSE At
  BY <1>1, <1>3
<1>6. Cardinality(At \cup {new}) = Cardinality(At) + 1 BY <1>2, FS_AddElement
<1>7. Cardinality(At) \in Nat BY <1>2, FS_CardinalityType
<1>8. Times(b) = Cardinality(At) BY DEF Times
<1>9. CASE b = k
  <2>1. Times(b)' = Cardinality(At \cup {new}) BY <1>4, <1>5, <1>9
  <2> QED BY <1>6, <1>8, <1>9, <2>1
<1>10. CASE b # k
  <2>1. Times(b)' = Cardinality(At) BY <1>4, <1>5, <1>10
  <2> QED BY <1>7, <1>8, <1>10, <2>1
<1> QED BY <1>9, <1>10

(* What is announced beyond the limit stays beyond it.                     *)
LEMMA BeyondStays ==
    ASSUME TypeOK, NEW k \in Block, confirmed' = Append(confirmed, k),
           blockSetup' = blockSetup
    PROVE  /\ Beyond \subseteq Beyond' /\ Beyond' \subseteq Beyond \cup {k}
<1> DEFINE limit == blockSetup.limit
           new   == Len(confirmed) + 1
<1>1. /\ DOMAIN confirmed = 1..Len(confirmed) /\ Len(confirmed) \in Nat
      /\ DOMAIN confirmed' = 1..new
      /\ \A n \in 1..Len(confirmed) : confirmed'[n] = confirmed[n]
      /\ confirmed'[new] = k
      /\ confirmed \in Seq(Block)
  BY DEF TypeOK
<1>2. limit \in Nat BY SetupFacts
<1>3. Range(confirmed') = Range(confirmed) \cup {k} BY <1>1, AppendRange
<1>4. Listed(confirmed) = {confirmed[n] : n \in {m \in 1..Len(confirmed) : m <= limit}}
  BY <1>1 DEF Listed
<1>5. Listed(confirmed)' = {confirmed'[n] : n \in {m \in 1..new : m <= limit}}
  BY <1>1 DEF Listed
<1>6. Listed(confirmed) \subseteq Listed(confirmed)' BY <1>1, <1>4, <1>5
<1>7. Listed(confirmed)' \subseteq Listed(confirmed) \cup {k}
  <2> SUFFICES ASSUME NEW n \in 1..new, n <= limit
               PROVE  confirmed'[n] \in Listed(confirmed) \cup {k}
    BY <1>5
  <2>1. CASE n = new BY <1>1, <2>1
  <2>2. CASE n # new
    <3>1. n \in 1..Len(confirmed) BY <1>1, <2>2
    <3> QED BY <1>1, <1>4, <3>1
  <2> QED BY <2>1, <2>2
<1>8. ASSUME NEW b \in Beyond PROVE b \notin Listed(confirmed)'
  <2>1. PICK n \in 1..Len(confirmed) : confirmed[n] = b BY <1>1 DEF Beyond, Range
  <2>2. ~ n <= limit BY <1>4, <2>1 DEF Beyond
  <2>3. ~ new <= limit BY <1>1, <1>2, <2>1, <2>2
  <2>4. \A m \in 1..new : m <= limit => m \in 1..Len(confirmed)
    BY <1>1, <1>2, <2>3
  <2>5. Listed(confirmed)' \subseteq Listed(confirmed) BY <1>1, <1>4, <1>5, <2>4
  <2> QED BY <2>5 DEF Beyond
<1> QED BY <1>3, <1>6, <1>7, <1>8 DEF Beyond

LEMMA InitiallyOnce == Init => OnceInv
<1> SUFFICES ASSUME Init PROVE OnceInv
  OBVIOUS
<1> USE DEF Init
<1>1. \A b \in Block : Settling(b) = {} BY DEF Settling, Ended
<1>2. Range(confirmed) = {} /\ Range(published) = {} BY DEF Range
<1>3. \A b \in Block : replays[b] = {} /\ b \notin tracked /\ Times(b) = 0
  <2>1. confirmed \in Seq(Block) OBVIOUS
  <2> QED BY <1>2, <2>1, TimesType
<1>4. IsFiniteSet({}) /\ Cardinality({}) = 0 BY FS_EmptySet
<1>5. FiniteTokens BY <1>1, <1>3, <1>4 DEF FiniteTokens
<1>6. OnePublisher /\ PublishedIsAccepted /\ ReplayedIsAnswered /\ RecoversAlone
  BY <1>2 DEF OnePublisher, Publishes, PublishedIsAccepted, ReplayedIsAnswered,
         RecoversAlone
<1>7. Beyond = {} BY <1>2 DEF Beyond
<1>8. WithinAllowance
  <2> SUFFICES ASSUME NEW b \in Block PROVE Spent(b) <= Allowed(b)
    BY DEF WithinAllowance
  <2>1. Spent(b) = 0
    <3>1. Cardinality(Settling(b)) = 0 BY <1>1, <1>4
    <3> QED BY <1>3, <3>1 DEF Spent
  <2>2. Restarts(b) = 0 /\ Unannounced(b) BY <1>7 DEF Restarts, Unannounced
  <2>3. Allowed(b) = 0 BY <1>3, <1>4, <2>2 DEF Allowed
  <2> QED BY <2>1, <2>3
<1> QED BY <1>5, <1>6, <1>8 DEF OnceInv

(* Tokens are counted.                                                     *)
LEMMA Counted ==
    ASSUME TypeOK, FiniteTokens, NEW b \in Block
    PROVE  /\ Cardinality(Settling(b)) \in Nat /\ Cardinality(replays[b]) \in Nat
           /\ Times(b) \in Nat /\ Restarts(b) \in Nat
           /\ Spent(b) \in Nat /\ Allowed(b) \in Nat
<1>1. Cardinality(Settling(b)) \in Nat /\ Cardinality(replays[b]) \in Nat
  BY FS_CardinalityType DEF FiniteTokens
<1>2. Times(b) \in Nat BY TimesType DEF TypeOK
<1>3. Restarts(b) \in Nat BY SetupFacts DEF Restarts
<1> QED BY <1>1, <1>2, <1>3 DEF Spent, Allowed

LEMMA CountedAfter ==
    ASSUME TypeOK', FiniteTokens', NEW b \in Block
    PROVE  /\ Spent(b)' \in Nat /\ Allowed(b)' \in Nat
           /\ Times(b)' \in Nat /\ Restarts(b)' \in Nat
<1>1. Cardinality(Settling(b)') \in Nat /\ Cardinality(replays'[b]) \in Nat
  BY FS_CardinalityType DEF FiniteTokens
<1>2. Times(b)' \in Nat
  <2>1. DOMAIN confirmed' = 1..Len(confirmed') /\ Len(confirmed') \in Nat
    BY DEF TypeOK
  <2>2. IsFiniteSet(1..Len(confirmed')) BY <2>1, FS_Interval
  <2>3. IsFiniteSet({n \in DOMAIN confirmed' : confirmed'[n] = b})
    BY <2>1, <2>2, FS_Subset
  <2> QED BY <2>3, FS_CardinalityType DEF Times
<1>3. Restarts(b)' \in Nat
  <2>1. crashes' \in 0..blockSetup'.maxCrashes BY DEF TypeOK
  <2>2. crashes' \in Nat BY <2>1
  <2> QED BY <2>2 DEF Restarts
<1> QED BY <1>1, <1>2, <1>3 DEF Spent, Allowed

(* Tracking a block gives it a token unless it has one, and takes none.    *)
LEMMA TrackingTokens ==
    ASSUME TypeOK, NEW bs \in SUBSET Block, Track(bs)
    PROVE  /\ tracked' = tracked \cup bs
           /\ \A b \in Block : Settling(b)' = Settling(b)
<1>1. \A l \in Loop : \/ loop'[l] = loop[l]
                      \/ loop[l] = Ended /\ loop'[l].at = "poll"
  BY Tracking
<1> QED BY <1>1, Tracking DEF Settling, Ended

(* A step that changes no call and no block of the network, as the loops'  *)
(* steps do, keeps the allowance when it spends no more.                   *)
LEMMA SpendingLess ==
    ASSUME TypeOK, OnceInv, TypeOK',
           UNCHANGED <<ledger, pc, replays, published, recovering>>,
           ~ recovering,
           \A b \in Block : /\ IsFiniteSet(Settling(b)') /\ Spent(b)' <= Spent(b)
                            /\ Restarts(b)' >= Restarts(b)
    PROVE  OnceInv'
<1>1. FiniteTokens' BY DEF OnceInv, FiniteTokens
<1>2. OnePublisher' /\ PublishedIsAccepted' /\ ReplayedIsAnswered'
  BY DEF OnceInv, OnePublisher, Publishes, PublishedIsAccepted, ReplayedIsAnswered
<1>3. RecoversAlone' BY DEF RecoversAlone
<1>4. \A b \in Block : Unannounced(b)' <=> Unannounced(b)
  BY DEF Unannounced, Publishes
<1>5. WithinAllowance'
  <2> SUFFICES ASSUME NEW b \in Block PROVE Spent(b)' <= Allowed(b)'
    BY DEF WithinAllowance
  <2>1. /\ Spent(b) \in Nat /\ Allowed(b) \in Nat /\ Restarts(b) \in Nat
        /\ Cardinality(replays[b]) \in Nat
    BY Counted DEF OnceInv
  <2>2. Spent(b)' \in Nat /\ Allowed(b)' \in Nat /\ Restarts(b)' \in Nat
    BY <1>1, CountedAfter
  <2>3. Spent(b) <= Allowed(b) BY DEF OnceInv, WithinAllowance
  <2>4. Allowed(b)' >= Allowed(b) BY <1>4, <2>1, <2>2 DEF Allowed
  <2> QED BY <2>1, <2>2, <2>3, <2>4
<1> QED BY <1>1, <1>2, <1>3, <1>5 DEF OnceInv

(* What the move of one loop does to the tokens of loops.                  *)
LEMMA OneLoopMoves ==
    ASSUME NEW l \in Loop, NEW b \in Block, b = loop[l].block,
           \A m \in Loop \ {l} : loop'[m] = loop[m],
           loop'[l].block = b \/ loop'[l].at = "ended"
    PROVE  /\ \A c \in Block : c # b => Settling(c)' = Settling(c)
           /\ Settling(b)' = IF loop'[l].at \in {"ingest", "emit"}
                             THEN Settling(b) \cup {l} ELSE Settling(b) \ {l}
BY DEF Settling

(* The loop of block b keeps its token or drops it, takes that of          *)
(* confirmingBlocks, or spends it.                                         *)
Keeps(l) ==
    /\ confirmed' = confirmed /\ tracked' = tracked
    /\ loop'[l].at \in {"ingest", "emit"} => loop[l].at \in {"ingest", "emit"}
Takes(l, b) ==
    /\ confirmed' = confirmed /\ tracked' = tracked \ {b} /\ b \in tracked
    /\ loop[l].at \notin {"ingest", "emit"}
Spends(l, b) ==
    /\ confirmed' = Append(confirmed, b) /\ tracked' = tracked
    /\ loop[l].at \in {"ingest", "emit"} /\ loop'[l].at \notin {"ingest", "emit"}

LEMMA LoopMoves ==
    ASSUME TypeOK, NEW l \in Loop, Step(l) \/ Break(l),
           NEW b \in Block, b = loop[l].block
    PROVE  /\ \A m \in Loop \ {l} : loop'[m] = loop[m]
           /\ loop'[l].block = b \/ loop'[l].at = "ended"
           /\ Keeps(l) \/ Takes(l, b) \/ Spends(l, b)
<1>1. CASE EmitConfirmed(l)
  <2>1. /\ loop'[l].at = "ended" /\ \A m \in Loop \ {l} : loop'[m] = loop[m]
    BY <1>1, EndType DEF EmitConfirmed, Ended
  <2> QED BY <1>1, <2>1 DEF EmitConfirmed, Looping, Spends
<1>2. CASE EmitFailed(l) \/ PollEnds(l)
  <2>1. /\ loop'[l].at = "ended" /\ \A m \in Loop \ {l} : loop'[m] = loop[m]
    BY <1>2, EndType DEF EmitFailed, PollEnds, Ended
  <2>2. confirmed' = confirmed /\ tracked' = tracked
    BY <1>2 DEF EmitFailed, PollEnds
  <2> QED BY <2>1, <2>2 DEF Keeps
<1>3. CASE GiveUp(l) \/ Poll(l)
  <2>1. PICK next \in {"fail", "ingest", "emit"} : Goto(l, next)
    BY <1>3 DEF GiveUp, Poll
  <2>2. loop[l].at = "poll" BY <1>3 DEF GiveUp, Poll, Looping
  <2>3. /\ loop'[l] = [at |-> next, block |-> loop[l].block]
        /\ \A m \in Loop \ {l} : loop'[m] = loop[m]
    BY <2>1, <2>2, GotoType
  <2>4. Takes(l, b)
    BY <1>3, <2>2 DEF GiveUp, Poll, Takes
  <2> QED BY <2>3, <2>4
<1>4. CASE Ingest(l) \/ IngestBreaks(l)
  <2>1. PICK next \in {"emit", "poll", "fail"} : Goto(l, next)
    BY <1>4 DEF Ingest, IngestBreaks, Excepted, AfterFailure
  <2>2. loop[l].at = "ingest"
    BY <1>4 DEF Ingest, IngestBreaks, Looping
  <2>3. /\ loop'[l] = [at |-> next, block |-> loop[l].block]
        /\ \A m \in Loop \ {l} : loop'[m] = loop[m]
    BY <2>1, <2>2, GotoType
  <2>4. Keeps(l)
    BY <1>4, <2>2 DEF Ingest, IngestBreaks, Keeps
  <2> QED BY <2>3, <2>4
<1>5. CASE EmitBreaks(l)
  <2>1. PICK next \in {"poll", "fail"} : Goto(l, next)
    BY <1>5 DEF EmitBreaks, Excepted, AfterFailure
  <2>2. loop[l].at = "emit" /\ tracked' = tracked
    BY <1>5 DEF EmitBreaks, Looping
  <2>3. /\ loop'[l] = [at |-> next, block |-> loop[l].block]
        /\ \A m \in Loop \ {l} : loop'[m] = loop[m]
    BY <2>1, <2>2, GotoType
  <2>4. confirmed' = confirmed \/ confirmed' = Append(confirmed, b)
    BY <1>5 DEF EmitBreaks
  <2> QED BY <2>2, <2>3, <2>4 DEF Keeps, Spends
<1> QED BY <1>1, <1>2, <1>3, <1>4, <1>5 DEF Step, Break

(* A loop passes its token on, or loses it.                                *)
LEMMA LoopOnce ==
    ASSUME IInv, OnceInv, NEW l \in Loop, Step(l) \/ Break(l)
    PROVE  OnceInv'
<1>0. TypeOK /\ TypeOK' BY LoopTypes DEF IInv
<1>1. loop[l].at # "ended"
  BY DEF Step, Break, PollEnds, Poll, GiveUp, Ingest, EmitConfirmed, EmitFailed,
         IngestBreaks, EmitBreaks, Looping
<1>2. PICK k \in Block : k = loop[l].block BY <1>0, <1>1, RunningLoop
<1>3. ~ recovering BY <1>1 DEF OnceInv, RecoversAlone, Ended
<1>4. UNCHANGED <<ledger, pc, replays, published, recovering, crashes, blockSetup>>
  BY DEF Step, Break, PollEnds, Poll, GiveUp, Ingest, EmitConfirmed, EmitFailed,
         IngestBreaks, EmitBreaks, Looping
<1>5. /\ \A m \in Loop \ {l} : loop'[m] = loop[m]
      /\ loop'[l].block = k \/ loop'[l].at = "ended"
      /\ Keeps(l) \/ Takes(l, k) \/ Spends(l, k)
  BY <1>0, <1>2, LoopMoves
<1>s. /\ \A b \in Block : b # k => Settling(b)' = Settling(b)
      /\ Settling(k)' = IF loop'[l].at \in {"ingest", "emit"}
                        THEN Settling(k) \cup {l} ELSE Settling(k) \ {l}
  BY <1>2, <1>5, OneLoopMoves
<1>c. confirmed \in Seq(Block) BY <1>0 DEF TypeOK
<1>u. confirmed' = confirmed => \A b \in Block : Times(b)' = Times(b) BY DEF Times
<1>r. ASSUME NEW b \in Block PROVE Restarts(b)' >= Restarts(b)
  <2>1. Restarts(b) \in Nat /\ crashes \in Nat BY <1>0, Counted, SetupFacts DEF OnceInv
  <2>2. CASE confirmed' = confirmed
    <3>1. Beyond' = Beyond BY <1>4, <2>2 DEF Beyond, Listed
    <3> QED BY <1>4, <2>1, <3>1 DEF Restarts
  <2>3. CASE confirmed' = Append(confirmed, k)
    <3>1. Beyond \subseteq Beyond' BY <1>0, <1>4, <2>3, BeyondStays
    <3> QED BY <1>4, <2>1, <3>1 DEF Restarts
  <2> QED BY <1>5, <2>2, <2>3 DEF Keeps, Takes, Spends
<1>6. ASSUME NEW b \in Block, b # k
      PROVE  IsFiniteSet(Settling(b)') /\ Spent(b)' <= Spent(b)
  <2>1. Settling(b)' = Settling(b) BY <1>6, <1>s
  <2>2. Times(b) \in Nat /\ Spent(b) \in Nat BY <1>0, Counted DEF OnceInv
  <2>3. Times(b)' = Times(b) /\ (b \in tracked' <=> b \in tracked)
    <3>1. CASE Spends(l, k)
      <4>1. Times(b)' = Times(b) + 0
        BY <1>6, <1>c, <3>1, TimesOfAppend DEF Spends
      <4> QED BY <2>2, <3>1, <4>1 DEF Spends
    <3>2. CASE Keeps(l) \/ Takes(l, k) BY <1>6, <1>u, <3>2 DEF Keeps, Takes
    <3> QED BY <1>5, <3>1, <3>2
  <2>4. Spent(b)' = Spent(b) BY <2>1, <2>3 DEF Spent
  <2> QED BY <2>1, <2>2, <2>4 DEF OnceInv, FiniteTokens
<1>7. IsFiniteSet(Settling(k)') /\ Spent(k)' <= Spent(k)
  <2>1. PICK S : S = Settling(k) OBVIOUS
  <2>2. IsFiniteSet(S) /\ Cardinality(S) \in Nat /\ Times(k) \in Nat
    BY <1>0, <2>1, Counted DEF OnceInv, FiniteTokens
  <2>3. l \in S <=> loop[l].at \in {"ingest", "emit"} BY <1>2, <2>1 DEF Settling
  <2>4. /\ IsFiniteSet(S \cup {l}) /\ IsFiniteSet(S \ {l})
        /\ l \in S => /\ Cardinality(S \cup {l}) = Cardinality(S)
                      /\ Cardinality(S \ {l}) = Cardinality(S) - 1
        /\ l \notin S => /\ Cardinality(S \cup {l}) = Cardinality(S) + 1
                         /\ Cardinality(S \ {l}) = Cardinality(S)
    BY <2>2, FS_AddElement, FS_RemoveElement
  <2>5. /\ Spent(k) = Times(k) + Cardinality(S) + IF k \in tracked THEN 1 ELSE 0
        /\ Spent(k)' = Times(k)' + Cardinality(Settling(k)')
                         + IF k \in tracked' THEN 1 ELSE 0
    BY <2>1 DEF Spent
  <2>6. /\ IsFiniteSet(Settling(k)')
        /\ Settling(k)' = IF loop'[l].at \in {"ingest", "emit"}
                          THEN S \cup {l} ELSE S \ {l}
    BY <1>s, <2>1, <2>4
  <2>7. CASE Keeps(l)
    <3>1. Cardinality(Settling(k)') <= Cardinality(S)
      BY <2>2, <2>3, <2>4, <2>6, <2>7 DEF Keeps
    <3>2. Cardinality(Settling(k)') \in Nat BY <2>6, FS_CardinalityType
    <3>3. Times(k)' = Times(k) BY <1>u, <2>7 DEF Keeps
    <3> QED BY <2>2, <2>5, <2>6, <2>7, <3>1, <3>2, <3>3 DEF Keeps
  <2>8. CASE Takes(l, k)
    <3>1. /\ Cardinality(Settling(k)') <= Cardinality(S) + 1
          /\ Cardinality(Settling(k)') \in Nat
      BY <2>2, <2>3, <2>4, <2>6, <2>8 DEF Takes
    <3>2. Times(k)' = Times(k) BY <1>u, <2>8 DEF Takes
    <3> QED BY <2>2, <2>5, <2>6, <2>8, <3>1, <3>2 DEF Takes
  <2>9. CASE Spends(l, k)
    <3>1. /\ Cardinality(Settling(k)') = Cardinality(S) - 1
          /\ Cardinality(Settling(k)') \in Nat
      BY <2>2, <2>3, <2>4, <2>6, <2>9, FS_CardinalityType DEF Spends
    <3>2. Times(k)' = Times(k) + 1 BY <1>c, <2>9, TimesOfAppend DEF Spends
    <3> QED BY <2>2, <2>5, <2>6, <2>9, <3>1, <3>2 DEF Spends
  <2> QED BY <1>5, <2>7, <2>8, <2>9
<1>8. \A b \in Block : /\ IsFiniteSet(Settling(b)') /\ Spent(b)' <= Spent(b)
                       /\ Restarts(b)' >= Restarts(b)
  BY <1>6, <1>7, <1>r
<1> QED BY <1>0, <1>3, <1>4, <1>8, SpendingLess

(* A step that moves no loop that settles may spend what it brings.        *)
New(b) == IF b \in tracked' /\ b \notin tracked THEN 1 ELSE 0

LEMMA AllowingMore ==
    ASSUME TypeOK, OnceInv, TypeOK', confirmed' = confirmed, tracked \subseteq tracked',
           \A b \in Block : /\ Settling(b)' = Settling(b)
                            /\ IsFiniteSet(replays'[b])
                            /\ Allowed(b)' >= Allowed(b) + New(b)
    PROVE  FiniteTokens' /\ WithinAllowance'
<1>1. FiniteTokens' BY DEF OnceInv, FiniteTokens
<1>2. ASSUME NEW b \in Block PROVE Spent(b)' <= Allowed(b)'
  <2>1. /\ Spent(b) \in Nat /\ Allowed(b) \in Nat /\ Times(b) \in Nat
        /\ Cardinality(Settling(b)) \in Nat
    BY Counted DEF OnceInv
  <2>2. Allowed(b)' \in Nat BY <1>1, CountedAfter
  <2>3. Spent(b)' = Spent(b) + New(b)
    <3>1. Spent(b)' = Times(b) + Cardinality(Settling(b))
                        + IF b \in tracked' THEN 1 ELSE 0
      BY DEF Spent, Times
    <3>2. b \in tracked => b \in tracked' OBVIOUS
    <3> QED BY <2>1, <3>1, <3>2 DEF Spent, New
  <2>4. Spent(b) <= Allowed(b) BY DEF OnceInv, WithinAllowance
  <2> QED BY <2>1, <2>2, <2>3, <2>4 DEF New
<1> QED BY <1>1, <1>2 DEF WithinAllowance

(* A call answered by its key brings a token, and so does a block whose    *)
(* publication is announced, or is no longer attempted.                    *)
LEMMA CallOnce ==
    ASSUME IInv, OnceInv, NEW c \in Call, Publish(c) \/ CallFails(c)
    PROVE  OnceInv'
<1> USE DEF memory, events
<1>0. TypeOK /\ TypeOK' BY CallTypes DEF IInv
<1>1. BlockOf[c] \in Block BY CallAssumption
<1>2. pc'[c] # pc[c] /\ \A d \in Call \ {c} : pc'[d] = pc[d]
  BY <1>0 DEF Publish, LookupKey, Process, PutKey, EmitPublished, CallFails, Goes,
              TypeOK
<1>3. ~ recovering /\ ~ recovering'
  BY DEF Publish, LookupKey, Process, PutKey, EmitPublished, CallFails, OnceInv,
         RecoversAlone
<1>4. confirmed' = confirmed /\ \A b \in Block : Restarts(b)' = Restarts(b)
  <2>1. UNCHANGED <<confirmed, blockSetup, crashes>>
    BY FaultCounts, <1>0
       DEF bounds, Publish, LookupKey, Process, PutKey, EmitPublished, CallFails
  <2> QED BY <2>1 DEF Restarts, Beyond, Listed
<1>5. \A b \in Block : /\ Allowed(b) \in Nat /\ Restarts(b) \in Nat
                       /\ IsFiniteSet(replays[b])
  BY <1>0, Counted DEF OnceInv, FiniteTokens
<1>6. RecoversAlone' BY <1>3 DEF RecoversAlone
<1>7. CASE LookupKey(c) /\ Key[c] # None /\ scoped[Key[c]] # None
  <2> DEFINE k == scoped[Key[c]]
  <2>1. k \in Block BY <1>0, <1>7 DEF Keys, TypeOK
  <2>2. /\ tracked' = tracked \cup {k} /\ \A b \in Block : Settling(b)' = Settling(b)
    BY <1>0, <1>7, <2>1, TrackingTokens DEF LookupKey
  <2>3. /\ pc[c] = "idle" /\ pc'[c] = "answered"
        /\ UNCHANGED <<ledger, published>>
        /\ replays' = [replays EXCEPT ![k] = @ \cup {c}]
    BY <1>0, <1>7 DEF LookupKey, Goes, TypeOK
  <2> HIDE DEF k
  <2>4. \A d \in Call : Publishes(d)' <=> Publishes(d)
    BY <1>2, <2>3 DEF Publishes
  <2>5. OnePublisher' /\ PublishedIsAccepted'
    BY <2>3, <2>4 DEF OnceInv, OnePublisher, PublishedIsAccepted
  <2>6. ReplayedIsAnswered'
    BY <1>0, <1>2, <2>1, <2>3 DEF OnceInv, ReplayedIsAnswered, TypeOK
  <2>7. \A b \in Block : Unannounced(b)' <=> Unannounced(b)
    BY <2>3, <2>4 DEF Unannounced
  <2>8. c \notin replays[k] BY <2>1, <2>3 DEF OnceInv, ReplayedIsAnswered
  <2>9. /\ replays'[k] = replays[k] \cup {c}
        /\ \A b \in Block \ {k} : replays'[b] = replays[b]
    BY <1>0, <2>1, <2>3 DEF TypeOK
  <2>10. IsFiniteSet(replays'[k])
         /\ Cardinality(replays'[k]) = Cardinality(replays[k]) + 1
    BY <1>5, <2>1, <2>8, <2>9, FS_AddElement
  <2>11. ASSUME NEW b \in Block
         PROVE  IsFiniteSet(replays'[b]) /\ Allowed(b)' >= Allowed(b) + New(b)
    <3>1. Cardinality(replays[b]) \in Nat BY <1>0, Counted DEF OnceInv
    <3>2. CASE b = k
      BY <1>4, <1>5, <2>7, <2>10, <3>1, <3>2 DEF Allowed, New
    <3>3. CASE b # k
      BY <1>4, <1>5, <2>2, <2>7, <2>9, <3>1, <3>3 DEF Allowed, New
    <3> QED BY <3>2, <3>3
  <2>12. FiniteTokens' /\ WithinAllowance'
    BY <1>0, <1>4, <2>2, <2>11, AllowingMore
  <2> QED BY <1>6, <2>5, <2>6, <2>12 DEF OnceInv
<1>8. CASE EmitPublished(c)
  <2> DEFINE k == BlockOf[c]
  <2>1. /\ tracked' = tracked \cup {k} /\ \A b \in Block : Settling(b)' = Settling(b)
    BY <1>0, <1>1, <1>8, TrackingTokens DEF EmitPublished
  <2>2. /\ pc[c] = "emit" /\ pc'[c] = "answered"
        /\ UNCHANGED <<ledger, replays>>
        /\ Range(published') = Range(published) \cup {k}
    BY <1>0, <1>1, <1>8, AppendRange DEF EmitPublished, Goes, TypeOK
  <2>3. /\ ledger[k] # "unknown"
        /\ \A d \in Call : Publishes(d) /\ BlockOf[d] = k => d = c
    BY <2>2 DEF OnceInv, OnePublisher, Publishes
  <2>4. /\ Publishes(c) /\ ~ Publishes(c)'
        /\ \A d \in Call \ {c} : Publishes(d)' <=> Publishes(d)
    BY <1>2, <2>2 DEF Publishes
  <2>5. OnePublisher' /\ PublishedIsAccepted'
    BY <1>1, <2>2, <2>3, <2>4 DEF OnceInv, OnePublisher, PublishedIsAccepted
  <2>6. ReplayedIsAnswered'
    BY <1>0, <1>2, <2>2 DEF OnceInv, ReplayedIsAnswered, TypeOK
  <2>7. Unannounced(k) /\ ~ Unannounced(k)'
    BY <2>2, <2>3, <2>4 DEF Unannounced
  <2>8. \A b \in Block : b # k => (Unannounced(b)' <=> Unannounced(b))
    BY <2>2, <2>4 DEF Unannounced
  <2> HIDE DEF k
  <2>9. ASSUME NEW b \in Block
        PROVE  IsFiniteSet(replays'[b]) /\ Allowed(b)' >= Allowed(b) + New(b)
    <3>1. Cardinality(replays[b]) \in Nat /\ replays'[b] = replays[b]
      BY <1>0, <2>2, Counted DEF OnceInv
    <3>2. CASE b = k BY <1>4, <1>5, <2>7, <3>1, <3>2 DEF Allowed, New
    <3>3. CASE b # k BY <1>4, <1>5, <2>1, <2>8, <3>1, <3>3 DEF Allowed, New
    <3> QED BY <3>2, <3>3
  <2>10. FiniteTokens' /\ WithinAllowance'
    BY <1>0, <1>4, <2>1, <2>9, AllowingMore
  <2> QED BY <1>6, <2>5, <2>6, <2>10 DEF OnceInv
<1>9. CASE \/ LookupKey(c) /\ ~ (Key[c] # None /\ scoped[Key[c]] # None)
           \/ Process(c) \/ PutKey(c) \/ CallFails(c)
  <2>1. /\ UNCHANGED <<tracked, loop, replays>>
        /\ \/ published' = published
           \/ pc[c] = "emit" /\ published' = Append(published, BlockOf[c])
    BY <1>9 DEF LookupKey, Process, PutKey, CallFails
  <2>2. /\ pc[c] # "answered"
        /\ \A b \in Block : ledger[b] # "unknown" => ledger'[b] # "unknown"
    BY <1>0, <1>9 DEF LookupKey, Process, PutKey, CallFails, TypeOK
  <2>3. Publishes(c)' =>
          \/ Publishes(c)
          \/ ledger[BlockOf[c]] = "unknown" /\ ledger'[BlockOf[c]] # "unknown"
    BY <1>0, <1>1, <1>9
    DEF LookupKey, Process, PutKey, CallFails, Goes, Publishes, TypeOK
  <2>4. ASSUME NEW b \in Block, Unannounced(b)' PROVE Unannounced(b)
    <3>1. ASSUME NEW d \in Call, Publishes(d)', BlockOf[d] = b
          PROVE  Unannounced(b)
      BY <1>2, <2>3, <3>1 DEF Unannounced, Publishes
    <3>2. ledger'[b] = "unknown" => ledger[b] = "unknown" BY <2>2
    <3> QED BY <2>4, <3>1, <3>2 DEF Unannounced
  <2>5. OnePublisher'
    <3> SUFFICES ASSUME NEW d \in Call, Publishes(d)'
                 PROVE  /\ ledger'[BlockOf[d]] # "unknown"
                        /\ \A e \in Call :
                              Publishes(e)' /\ BlockOf[e] = BlockOf[d] => e = d
      BY DEF OnePublisher
    <3>1. \A e \in Call : e # c => (Publishes(e)' <=> Publishes(e))
      BY <1>2 DEF Publishes
    <3>2. \A e \in Call : Publishes(e) => /\ ledger[BlockOf[e]] # "unknown"
                                          /\ BlockOf[e] \in Block
      BY CallAssumption DEF OnceInv, OnePublisher
    <3> QED BY <2>2, <2>3, <3>1, <3>2 DEF OnceInv, OnePublisher
  <2>6. PublishedIsAccepted'
    <3>1. published \in Seq(Block) /\ Range(published) \subseteq Block
      BY <1>0, ListedInLog DEF TypeOK
    <3>2. CASE published' = published
      BY <2>2, <3>1, <3>2 DEF OnceInv, PublishedIsAccepted
    <3>3. CASE pc[c] = "emit" /\ published' = Append(published, BlockOf[c])
      <4>1. ledger[BlockOf[c]] # "unknown"
        BY <3>3 DEF OnceInv, OnePublisher, Publishes
      <4>2. Range(published') = Range(published) \cup {BlockOf[c]}
        BY <1>1, <3>1, <3>3, AppendRange
      <4> QED BY <1>1, <2>2, <3>1, <4>1, <4>2 DEF OnceInv, PublishedIsAccepted
    <3> QED BY <2>1, <3>2, <3>3
  <2>7. ReplayedIsAnswered'
    BY <1>0, <1>2, <2>1, <2>2 DEF OnceInv, ReplayedIsAnswered, TypeOK
  <2>8. ASSUME NEW b \in Block
        PROVE  /\ Settling(b)' = Settling(b) /\ IsFiniteSet(replays'[b])
               /\ Allowed(b)' >= Allowed(b) + New(b)
    <3>1. Cardinality(replays[b]) \in Nat /\ replays'[b] = replays[b]
      BY <1>0, <2>1, Counted DEF OnceInv
    <3>2. Settling(b)' = Settling(b) BY <2>1 DEF Settling
    <3> QED BY <1>4, <1>5, <2>1, <2>4, <3>1, <3>2 DEF Allowed, New
  <2>9. FiniteTokens' /\ WithinAllowance'
    BY <1>0, <1>4, <2>1, <2>8, AllowingMore
  <2> QED BY <1>6, <2>5, <2>6, <2>7, <2>9 DEF OnceInv
<1> QED BY <1>7, <1>8, <1>9 DEF Publish

(* The network and the other sources have to do with no token.             *)
LEMMA OtherOnce ==
    ASSUME IInv, OnceInv, NEW k \in Block, Confirm(k) \/ Other(k)
    PROVE  OnceInv'
<1> USE DEF memory, events, bounds
<1>0. TypeOK /\ TypeOK' BY OtherTypes DEF IInv
<1>1. UNCHANGED <<published, confirmed, replays, pc, tracked, loop, recovering,
                  crashes, blockSetup>>
  BY <1>0, FaultCounts DEF Confirm, Other, OtherTakes, OtherIngests, OtherFails
<1>2. \A b \in Block : ledger[b] # "unknown" <=> ledger'[b] # "unknown"
  BY <1>0 DEF Confirm, Other, OtherTakes, OtherIngests, OtherFails, TypeOK
<1>3. \A b \in Block : /\ Times(b)' = Times(b) /\ Settling(b)' = Settling(b)
                       /\ Restarts(b)' = Restarts(b)
                       /\ (Unannounced(b)' <=> Unannounced(b))
  BY <1>1, <1>2
     DEF Times, Settling, Restarts, Beyond, Listed, Unannounced, Publishes
<1>4. \A b \in Block : Spent(b)' = Spent(b) /\ Allowed(b)' = Allowed(b)
  BY <1>1, <1>3 DEF Spent, Allowed
<1>5. Beyond' = Beyond /\ Beyond \subseteq Block
  BY <1>0, <1>1, ListedInLog DEF Beyond, Listed, TypeOK
<1>6. FiniteTokens' /\ WithinAllowance'
  BY <1>1, <1>3, <1>4 DEF OnceInv, FiniteTokens, WithinAllowance
<1>7. OnePublisher'
  <2>1. \A c \in Call : BlockOf[c] \in Block BY CallAssumption
  <2> QED BY <1>1, <1>2, <2>1 DEF OnceInv, OnePublisher, Publishes
<1>8. PublishedIsAccepted'
  <2>1. Range(published) \subseteq Block BY <1>0, ListedInLog DEF TypeOK
  <2> QED BY <1>1, <1>2, <2>1 DEF OnceInv, PublishedIsAccepted
<1>9. ReplayedIsAnswered' BY <1>1 DEF OnceInv, ReplayedIsAnswered
<1>10. RecoversAlone' BY <1>1, <1>3, <1>4, <1>5 DEF OnceInv, RecoversAlone
<1> QED BY <1>6, <1>7, <1>8, <1>9, <1>10 DEF OnceInv

(* The recovery brings a token to a block that was announced and has none, *)
(* or whose restart has brought one; a crash takes them all.               *)
LEMMA RestartOnce ==
    ASSUME IInv, OnceInv, Recover \/ RecoverFails \/ Crash
    PROVE  OnceInv'
<1> USE DEF memory, events, bounds
<1>0. TypeOK /\ TypeOK' BY RestartTypes DEF IInv
<1>1. UNCHANGED <<ledger, published, confirmed, replays, blockSetup>>
  BY <1>0, FaultCounts DEF Recover, RecoverFails, Crash
<1>3. \A c \in Call : /\ Publishes(c)' => Publishes(c)
                      /\ pc[c] = "answered" => pc'[c] = "answered"
  BY <1>0 DEF Recover, RecoverFails, Crash, Publishes, TypeOK
<1>4. OnePublisher' BY <1>1, <1>3 DEF OnceInv, OnePublisher
<1>5. PublishedIsAccepted' /\ ReplayedIsAnswered'
  BY <1>0, <1>1, <1>3 DEF OnceInv, PublishedIsAccepted, ReplayedIsAnswered, TypeOK
<1>6. \A b \in Block : Unannounced(b)' => Unannounced(b)
  BY <1>1, <1>3 DEF Unannounced
<1>7. \A b \in Block : /\ IsFiniteSet(replays'[b]) /\ Cardinality(replays'[b]) \in Nat
                       /\ Cardinality(Settling(b)) \in Nat /\ Times(b) \in Nat
                       /\ Restarts(b) \in Nat
                       /\ Allowed(b) \in Nat /\ Spent(b) <= Allowed(b)
  BY <1>0, <1>1, Counted DEF OnceInv, FiniteTokens, WithinAllowance
<1>8. /\ \A b \in Block : Times(b)' = Times(b)
      /\ Beyond' = Beyond /\ Beyond \subseteq Block
      /\ crashes \in Nat
  BY <1>0, <1>1, ListedInLog, SetupFacts DEF Times, Beyond, Listed, TypeOK
<1>9. CASE Recover \/ RecoverFails
  <2>1. crashes' = crashes /\ pc' = pc
    BY <1>0, <1>9, FaultCounts DEF Recover, RecoverFails
  <2>2. \A b \in Block : Restarts(b)' = Restarts(b)
    BY <1>8, <2>1 DEF Restarts
  <2>3. \A b \in Block : Allowed(b)' >= Allowed(b) /\ Allowed(b)' \in Nat
    BY <1>1, <1>6, <1>7, <2>2 DEF Allowed
  <2>4. /\ \A b \in Block : Settling(b) = {}
        /\ tracked = {}
        /\ \A c \in Call : ~ Publishes(c)
        /\ \A b \in Beyond : Times(b) + 1 <= Allowed(b)
    BY <1>9 DEF Recover, RecoverFails, OnceInv, RecoversAlone, Settling, Ended, Publishes
  <2>5. RecoversAlone' BY <1>9 DEF Recover, RecoverFails, RecoversAlone
  <2>6. /\ \A b \in Block : Settling(b)' = {}
        /\ tracked' \subseteq Unfinished
    <3>1. CASE Recover
      BY <1>0, <2>4, <3>1, UnfinishedType, TrackingTokens DEF Recover
    <3>2. CASE RecoverFails BY <2>4, <3>2 DEF RecoverFails, OnceInv, RecoversAlone, Settling
    <3> QED BY <1>9, <3>1, <3>2
  <2>7. FiniteTokens' BY <1>7, <2>6, FS_EmptySet DEF FiniteTokens
  <2>8. ASSUME NEW b \in Block PROVE Spent(b)' <= Allowed(b)'
    <3>1. Cardinality(Settling(b)') = 0 BY <2>6, FS_EmptySet
    <3>2. Spent(b)' = Times(b) + IF b \in tracked' THEN 1 ELSE 0
      BY <1>7, <1>8, <3>1 DEF Spent
    <3>3. CASE b \in tracked' /\ b \in Beyond
      BY <1>7, <2>3, <2>4, <3>2, <3>3
    <3>4. CASE b \in tracked' /\ b \notin Beyond
      <4>1. b \in Listed(published) /\ b \notin Listed(confirmed)
        BY <2>6, <3>4 DEF Unfinished
      <4>2. b \notin Range(confirmed) BY <3>4, <4>1 DEF Beyond
      <4>3. Times(b) = 0 BY <1>0, <4>2, TimesType DEF TypeOK
      <4>4. b \in Range(published) BY <1>0, <4>1, ListedInLog DEF TypeOK
      <4>5. ledger[b] # "unknown" BY <4>4 DEF OnceInv, PublishedIsAccepted
      <4>6. ~ Unannounced(b)' BY <1>6, <2>4, <4>5 DEF Unannounced
      <4> QED BY <1>1, <1>7, <2>2, <3>2, <3>4, <4>3, <4>6 DEF Allowed
    <3>5. CASE b \notin tracked'
      <4>1. Times(b) <= Spent(b) /\ Spent(b) \in Nat BY <1>7 DEF Spent
      <4> QED BY <1>7, <2>3, <3>2, <3>5, <4>1
    <3> QED BY <3>3, <3>4, <3>5
  <2> QED BY <1>4, <1>5, <2>5, <2>7, <2>8 DEF OnceInv, WithinAllowance
<1>10. CASE Crash
  <2>1. /\ tracked' = {} /\ \A l \in Loop : loop'[l] = Ended
        /\ crashes' = crashes + 1
    BY <1>10 DEF Crash
  <2>2. \A c \in Call : pc'[c] \in {"idle", "answered", "refused"} BY <1>10 DEF Crash
  <2>3. ASSUME NEW b \in Block
        PROVE  /\ Allowed(b)' >= Allowed(b) /\ Allowed(b)' \in Nat
               /\ b \in Beyond => Allowed(b)' >= Allowed(b) + 1
    <3>1. Restarts(b)' = Restarts(b) + IF b \in Beyond THEN 1 ELSE 0
      BY <1>7, <1>8, <2>1 DEF Restarts
    <3> QED BY <1>1, <1>6, <1>7, <3>1 DEF Allowed
  <2>4. \A b \in Block : Settling(b)' = {} BY <2>1 DEF Settling, Ended
  <2>5. FiniteTokens' BY <1>7, <2>4, FS_EmptySet DEF FiniteTokens
  <2>6. ASSUME NEW b \in Block PROVE Times(b) <= Allowed(b)
    BY <1>7 DEF Spent
  <2>7. RecoversAlone'
    <3>1. \A b \in Beyond' : Times(b)' + 1 <= Allowed(b)'
      BY <1>7, <1>8, <2>3, <2>6
    <3> QED BY <2>1, <2>2, <3>1 DEF RecoversAlone
  <2>8. ASSUME NEW b \in Block PROVE Spent(b)' <= Allowed(b)'
    <3>1. Cardinality(Settling(b)') = 0 BY <2>4, FS_EmptySet
    <3>2. Spent(b)' = Times(b) BY <1>7, <1>8, <2>1, <3>1 DEF Spent
    <3> QED BY <1>7, <2>3, <2>6, <3>2
  <2> QED BY <1>4, <1>5, <2>5, <2>7, <2>8 DEF OnceInv, WithinAllowance
<1> QED BY <1>9, <1>10

LEMMA OncePreserved == IInv /\ OnceInv /\ [Next]_vars => OnceInv'
<1> SUFFICES ASSUME IInv, OnceInv, [Next]_vars PROVE OnceInv' OBVIOUS
<1>1. CASE UNCHANGED vars
  BY <1>1 DEF vars, events, memory, bounds, OnceInv, FiniteTokens, OnePublisher,
              PublishedIsAccepted, ReplayedIsAnswered, RecoversAlone, WithinAllowance,
              Spent, Times, Allowed, Restarts, Beyond, Listed, Unannounced, Settling,
              Publishes
<1> QED BY <1>1, CallOnce, LoopOnce, OtherOnce, RestartOnce DEF Next

LEMMA WithinOnce == IInv /\ OnceInv => ConfirmedOnce
<1> SUFFICES ASSUME IInv, OnceInv, NEW b \in Block
             PROVE  Times(b) <= 1 + Cardinality(replays[b]) + Restarts(b)
  BY DEF ConfirmedOnce, Restarts, Beyond
<1>1. /\ Cardinality(Settling(b)) \in Nat /\ Cardinality(replays[b]) \in Nat
      /\ Times(b) \in Nat /\ Restarts(b) \in Nat
  BY Counted DEF IInv, OnceInv
<1>2. Spent(b) <= Allowed(b) BY DEF OnceInv, WithinAllowance
<1> QED BY <1>1, <1>2 DEF Spent, Allowed

-------------------------------------------------------------------------------
(* Theorems                                                                *)

(* The inductive invariant of the steps holds in every reachable state.    *)
THEOREM InvariantHolds == Spec => []IInv
BY Initially, Preserved, PTL DEF Spec

(* Type correctness for any number of blocks, calls, loops and crashes.    *)
THEOREM TypesHold == Spec => []TypeOK
BY InvariantHolds, PTL DEF IInv

(* Whatever polls, replays, restarts, other sources and failed ingestions  *)
(* do: a block is ingested and announced only when the network has         *)
(* confirmed it, and a payment is announced only after invoice matching    *)
(* has seen it, or while another source has it, or has had it and failed.  *)
THEOREM ConfirmationsAreTrue == Spec => [](ConfirmedIsFinal /\ IngestedBeforeConfirmed)
<1>1. IInv => ConfirmedIsFinal /\ IngestedBeforeConfirmed
  BY WithinAccounts DEF IInv
<1> QED BY <1>1, InvariantHolds, PTL

(* Over any number of crashes, failed ingestions and polling loops, a      *)
(* block is announced as confirmed at most once, once more for each call   *)
(* that was answered by its Idempotency-Key, and once more for each        *)
(* restart when the events that the recovery lists do not reach it.        *)
THEOREM AnnouncedOnce == Spec => []ConfirmedOnce
<1>1. Init => OnceInv BY InitiallyOnce
<1>2. Spec => []OnceInv BY <1>1, InvariantHolds, OncePreserved, PTL DEF Spec
<1> QED BY <1>2, InvariantHolds, WithinOnce, PTL

-------------------------------------------------------------------------------
(* The watcher that confirms the sends of others                           *)

(* What makes a source sure of a block: the sink has stored it, or is      *)
(* ingesting it for another caller, or was, and has failed.                *)
Trusted(b) == b \in stored \cup misled \cup relied

(* And what a pass leaves behind without looking at it.                    *)
Sure(b) == Trusted(b) \/ b \in skipped

PassRecord ==
    [at : {"idle", "read", "deliver", "await", "advance"}, next : Nat, last : Nat]

Shapes ==
    /\ cemented \subseteq SendBlock /\ history \in Seq(SendBlock)
    /\ cursor \in 0..Len(history)
    /\ stored \subseteq SendBlock /\ processed \subseteq stored
    /\ ingesting \in [SendBlock -> Caller \cup {None}]
    /\ running \in BOOLEAN /\ watched \in BOOLEAN /\ socket \in SocketState
    /\ requests \in Seq(BOOLEAN) /\ wire \in Seq(SendBlock \cup {Ack})
    /\ filter \in BOOLEAN /\ acknowledged \in BOOLEAN
    /\ page \subseteq SendBlock /\ asked \in SendBlock \cup {None}
    /\ seen \subseteq SendBlock
    /\ pass \in [Pass -> PassRecord]
    /\ relied \subseteq SendBlock /\ misled \subseteq SendBlock
    /\ skipped \subseteq SendBlock
    /\ setup \in Setup

(* The last subscription that was sent is what the watcher wants, and the  *)
(* node has it when none is on its way.                                    *)
SessionFits ==
    IF socket = "open"
    THEN IF requests = << >> THEN filter = watched
         ELSE ~ acknowledged /\ requests[Len(requests)] = watched
    ELSE requests = << >> /\ wire = << >> /\ ~ filter /\ ~ acknowledged

(* A pass that has called the sink waits, at the entry of its call.        *)
CallersFit ==
    \A b \in SendBlock :
        ingesting[b] \in Pass =>
            /\ pass[ingesting[b]].at = "await"
            /\ history[pass[ingesting[b]].next] = b

(* A block that is left to another caller is with the sink.                *)
ReliedFit == \A b \in relied : ingesting[b] # None

PassFits(q) ==
    /\ pass[q].at = "read" => pass[q].next <= Len(history)
    /\ pass[q].at \in {"deliver", "await", "advance"} =>
        /\ 1 <= pass[q].next /\ pass[q].next <= pass[q].last
        /\ pass[q].last <= Len(history)

PassesFit == \A q \in Pass : PassFits(q)

(* How far a pass has come.                                                *)
Behind(q) ==
    IF pass[q].at \in {"read", "advance"} THEN pass[q].next
    ELSE IF pass[q].at \in {"deliver", "await"} THEN pass[q].next - 1
    ELSE 0

(* The cursor, the passes and the poller have left only sure blocks behind.*)
Remembered ==
    /\ \A n \in 1..cursor : Sure(history[n])
    /\ \A b \in seen : Trusted(b)
    /\ \A q \in Pass : \A n \in 1..Behind(q) : Sure(history[n])

WatchIInv ==
    Shapes /\ SessionFits /\ CallersFit /\ ReliedFit /\ PassesFit /\ Remembered

-------------------------------------------------------------------------------
(* Facts about the history and what is known of it                         *)

LEMMA HistoryType ==
    ASSUME Shapes
    PROVE  /\ Len(history) \in Nat /\ DOMAIN history = 1..Len(history)
           /\ \A n \in 1..Len(history) : history[n] \in SendBlock
BY DEF Shapes

(* A history that only grows, and a block that a source may trust the sink *)
(* with stays so: an ingestion that fails leaves it among the misled.      *)
Grows ==
    /\ Len(history') \in Nat /\ Len(history) <= Len(history')
    /\ \A n \in 1..Len(history) : history'[n] = history[n]
    /\ \A b \in SendBlock : Trusted(b) => Trusted(b)'
    /\ skipped \subseteq skipped'

(* What was remembered is still true: a step has to show what it adds.     *)
LEMMA OldMemory ==
    ASSUME WatchIInv, Grows
    PROVE  /\ \A n \in 1..cursor : Sure(history[n])'
           /\ \A b \in seen : Trusted(b)'
           /\ \A q \in Pass : \A n \in 1..Behind(q) : Sure(history[n])'
<1>2. ASSUME NEW n \in 1..Len(history), Sure(history[n]) PROVE Sure(history[n])'
  <2>1. history[n] \in SendBlock /\ history'[n] = history[n]
    BY HistoryType DEF WatchIInv, Grows
  <2>2. PICK c \in SendBlock : c = history[n] /\ history'[n] = c BY <2>1
  <2>3. Sure(c)
    <3>1. Trusted(c) \/ c \in skipped BY <1>2, <2>2 DEF Sure
    <3> QED BY <3>1 DEF Sure
  <2>4. Trusted(c)' \/ c \in skipped' BY <2>3 DEF Grows, Sure
  <2>5. Trusted(history[n])' \/ history'[n] \in skipped'
    BY <2>2, <2>4 DEF Trusted
  <2> QED BY <2>5 DEF Sure
<1>3. cursor \in 0..Len(history) BY DEF WatchIInv, Shapes
<1>4. \A q \in Pass : Behind(q) \in 0..Len(history)
  <2> TAKE q \in Pass
  <2>1. pass[q] \in PassRecord /\ PassFits(q) /\ Len(history) \in Nat
    BY HistoryType DEF WatchIInv, Shapes, PassesFit
  <2>2. PICK p : p = pass[q] OBVIOUS
  <2>3. p.next \in Nat /\ p.last \in Nat BY <2>1, <2>2 DEF PassRecord
  <2> QED BY <2>1, <2>2, <2>3 DEF Behind, PassFits
<1>5. \A n \in 1..cursor : Sure(history[n])'
  BY <1>2, <1>3, HistoryType DEF WatchIInv, Remembered
<1>6. \A b \in seen : Trusted(b)' BY DEF Grows, WatchIInv, Remembered, Shapes
<1>7. \A q \in Pass : \A n \in 1..Behind(q) : Sure(history[n])'
  <2> TAKE q \in Pass
  <2> TAKE n \in 1..Behind(q)
  <2>1. n \in 1..Len(history) BY <1>4, HistoryType DEF WatchIInv
  <2> QED BY <1>2, <2>1 DEF WatchIInv, Remembered
<1> QED BY <1>5, <1>6, <1>7

(* Most steps add nothing.                                                 *)
LEMMA NothingLearnt ==
    ASSUME WatchIInv, Grows, cursor' = cursor,
           seen' \subseteq seen,
           \A q \in Pass : pass'[q] = pass[q] \/ pass'[q].at = "idle"
    PROVE  Remembered'
<1>1. ASSUME NEW q \in Pass, NEW n \in 1..Behind(q)' PROVE Sure(history[n])'
  <2>1. CASE pass'[q] = pass[q]
    <3>1. Behind(q)' = Behind(q) BY <2>1 DEF Behind
    <3> QED BY <1>1, <3>1, OldMemory
  <2>2. CASE pass'[q].at = "idle"
    <3>1. Behind(q)' = 0 BY <2>2 DEF Behind
    <3> QED BY <1>1, <3>1
  <2> QED BY <1>1, <2>1, <2>2
<1> QED BY <1>1, OldMemory DEF Remembered

(* A step that leaves alone what the properties speak of.                  *)
LEMMA PastStays ==
    ASSUME WatchIInv, UNCHANGED <<history, stored, relied, misled, skipped>>
    PROVE  Grows
BY HistoryType DEF Grows, Trusted, WatchIInv

-------------------------------------------------------------------------------
(* The network                                                             *)

LEMMA CementStep ==
    ASSUME WatchIInv, NEW b \in SendBlock, Cement(b)
    PROVE  WatchIInv'
<1>u. /\ UNCHANGED <<history, stored, cursor, ingesting, processed, running, watched>>
      /\ UNCHANGED <<socket, requests, filter, acknowledged, page, asked, seen, pass>>
      /\ UNCHANGED <<relied, misled, skipped, setup>>
  BY DEF Cement, database, sink, poller, past, watchBounds
<1>w. /\ cemented' = cemented \cup {b}
      /\ wire' = IF filter THEN Append(wire, b) ELSE wire
  BY DEF Cement
<1>1. Shapes'
  <2>1. wire' \in Seq(SendBlock \cup {Ack}) BY <1>w DEF WatchIInv, Shapes
  <2>2. cemented' \subseteq SendBlock BY <1>w DEF WatchIInv, Shapes
  <2> QED BY <1>u, <2>1, <2>2 DEF WatchIInv, Shapes
<1>2. SessionFits' BY <1>u, <1>w DEF WatchIInv, SessionFits
<1>3. CallersFit' /\ ReliedFit' BY <1>u DEF WatchIInv, CallersFit, ReliedFit
<1>4. PassesFit' BY <1>u DEF WatchIInv, PassesFit, PassFits
<1>5. Grows BY <1>u, PastStays
<1>6. Remembered' BY <1>u, <1>5, NothingLearnt
<1> QED BY <1>1, <1>2, <1>3, <1>4, <1>6 DEF WatchIInv

LEMMA ReceiveStep ==
    ASSUME WatchIInv, NEW b \in SendBlock, Receive(b)
    PROVE  WatchIInv'
<1>u. /\ UNCHANGED <<cemented, stored, cursor, ingesting, processed, running, watched>>
      /\ UNCHANGED <<socket, requests, filter, acknowledged, page, asked, seen, pass>>
      /\ UNCHANGED <<relied, misled, skipped, setup, wire>>
  BY DEF Receive, database, sink, listening, session, poller, past, watchBounds
<1>w. history' = Append(history, b)
  BY DEF Receive
<1>h. /\ Len(history) \in Nat /\ Len(history') = Len(history) + 1
      /\ history' \in Seq(SendBlock) /\ history'[Len(history) + 1] = b
      /\ \A n \in 1..Len(history) : history'[n] = history[n]
  BY <1>w DEF WatchIInv, Shapes
<1>1. Shapes' BY <1>u, <1>h DEF WatchIInv, Shapes
<1>2. SessionFits' BY <1>u DEF WatchIInv, SessionFits
<1>p. ASSUME NEW q \in Pass PROVE PassFits(q)'
  <2>1. pass[q] \in PassRecord /\ PassFits(q)
    BY DEF WatchIInv, Shapes, PassesFit
  <2>2. PICK p : p = pass[q] OBVIOUS
  <2>3. p.next \in Nat /\ p.last \in Nat BY <2>1, <2>2 DEF PassRecord
  <2> QED BY <1>u, <1>h, <2>1, <2>2, <2>3 DEF PassFits
<1>3. CallersFit' /\ ReliedFit'
  <2>1. ASSUME NEW c \in SendBlock, ingesting[c] \in Pass
        PROVE  /\ pass[ingesting[c]].at = "await"
               /\ history'[pass[ingesting[c]].next] = c
    <3>1. PICK q \in Pass : q = ingesting[c] BY <2>1
    <3>2. pass[q].at = "await" /\ history[pass[q].next] = c
      BY <2>1, <3>1 DEF WatchIInv, CallersFit
    <3>3. PassFits(q) /\ pass[q] \in PassRecord
      BY DEF WatchIInv, PassesFit, Shapes
    <3>4. PICK p : p = pass[q] OBVIOUS
    <3>5. p.next \in Nat /\ p.last \in Nat BY <3>3, <3>4 DEF PassRecord
    <3>6. pass[q].next \in 1..Len(history)
      BY <1>h, <3>2, <3>3, <3>4, <3>5 DEF PassFits
    <3> QED BY <1>h, <3>1, <3>2, <3>6
  <2> QED BY <1>u, <2>1 DEF WatchIInv, CallersFit, ReliedFit
<1>4. PassesFit' BY <1>p DEF PassesFit
<1>6. Grows BY <1>u, <1>h DEF Grows, Trusted
<1>7. Remembered' BY <1>u, <1>6, NothingLearnt
<1> QED BY <1>1, <1>2, <1>3, <1>4, <1>7 DEF WatchIInv

-------------------------------------------------------------------------------
(* The sink                                                                *)

LEMMA CommitStep ==
    ASSUME WatchIInv, NEW b \in SendBlock,
           IngestCommits(b)
    PROVE  WatchIInv'
<1>u. /\ UNCHANGED <<cemented, history, cursor, running, watched, socket, requests>>
      /\ UNCHANGED <<filter, wire, acknowledged, page, misled, skipped, setup>>
  BY DEF IngestCommits, Resume, network, listening, session, watchBounds
<1>w. /\ ingesting[b] # None
      /\ stored' = stored \cup {b} /\ processed' = processed \cup {b}
      /\ relied' = relied \ {b}
      /\ ingesting' = [ingesting EXCEPT ![b] = None]
      /\ IF ingesting[b] = "poller"
         THEN asked' = None /\ seen' = seen \cup {b}
         ELSE UNCHANGED <<asked, seen>>
      /\ pass' = IF ingesting[b] \in Pass
                 THEN [pass EXCEPT ![ingesting[b]].at = "advance"] ELSE pass
  BY DEF IngestCommits, Resume, Free
<1>t. /\ ingesting \in [SendBlock -> Caller \cup {None}]
      /\ pass \in [Pass -> PassRecord]
      /\ stored \subseteq SendBlock
  BY DEF WatchIInv, Shapes
<1>n. None \notin Pass BY WatcherAssumption
<1>i. \A c \in SendBlock : ingesting'[c] = IF c = b THEN None ELSE ingesting[c]
  BY <1>t, <1>w
(* The pass that called, if a pass did.                                    *)
<1>p. \A q \in Pass :
          pass'[q] = IF ingesting[b] = q THEN [pass[q] EXCEPT !.at = "advance"] ELSE pass[q]
  BY <1>t, <1>w
<1>q. \A q \in Pass : /\ pass'[q].next = pass[q].next /\ pass'[q].last = pass[q].last
                      /\ pass'[q].at = IF ingesting[b] = q THEN "advance" ELSE pass[q].at
                      /\ pass'[q] \in PassRecord
  <2> TAKE q \in Pass
  <2>1. PICK p \in PassRecord : p = pass[q] BY <1>t
  <2>2. pass'[q] = IF ingesting[b] = q THEN [p EXCEPT !.at = "advance"] ELSE p
    BY <1>p, <2>1
  <2> QED BY <2>1, <2>2 DEF PassRecord
<1>c. \A q \in Pass : ingesting[b] = q =>
                         pass[q].at = "await" /\ history[pass[q].next] = b
  BY DEF WatchIInv, CallersFit
<1>1. Shapes'
  <2>1. pass' \in [Pass -> PassRecord] BY <1>q, <1>w, <1>t
  <2> QED BY <1>u, <1>w, <2>1 DEF WatchIInv, Shapes
<1>2. SessionFits' BY <1>u DEF WatchIInv, SessionFits
<1>3. CallersFit'
  <2>1. ASSUME NEW c \in SendBlock, ingesting'[c] \in Pass
        PROVE  /\ pass'[ingesting'[c]].at = "await"
               /\ history[pass'[ingesting'[c]].next] = c
    <3>1. PICK q \in Pass : q = ingesting'[c] BY <2>1
    <3>2. c # b /\ ingesting[c] = q BY <1>i, <1>n, <3>1
    <3>3. pass[q].at = "await" /\ history[pass[q].next] = c
      BY <3>2 DEF WatchIInv, CallersFit
    <3>4. ingesting[b] # q BY <1>c, <3>2, <3>3
    <3> QED BY <1>q, <3>1, <3>3, <3>4
  <2> QED BY <1>u, <2>1 DEF CallersFit
<1>r. ReliedFit' BY <1>i, <1>w DEF WatchIInv, Shapes, ReliedFit
<1>4. PassesFit'
  <2> SUFFICES ASSUME NEW q \in Pass PROVE PassFits(q)' BY DEF PassesFit
  <2>1. PassFits(q) BY DEF WatchIInv, PassesFit
  <2> QED BY <1>u, <1>q, <1>c, <2>1 DEF PassFits
<1>6. Grows BY <1>u, <1>w, HistoryType DEF Grows, Trusted, WatchIInv
<1>7. Remembered'
  <2>b. Trusted(b)' BY <1>w DEF Trusted
  <2>1. ASSUME NEW c \in seen' PROVE Trusted(c)'
    <3>1. CASE c = b BY <2>b, <3>1
    <3>2. CASE c \in seen BY <3>2, <1>6, OldMemory
    <3> QED BY <1>w, <2>1, <3>1, <3>2
  <2>2. ASSUME NEW q \in Pass, NEW n \in 1..Behind(q)' PROVE Sure(history[n])'
    <3>1. CASE ingesting[b] # q
      <4>1. Behind(q)' = Behind(q) BY <3>1, <1>p DEF Behind
      <4> QED BY <2>2, <4>1, <1>6, OldMemory
    <3>2. CASE ingesting[b] = q
      <4>1. PICK p \in PassRecord : p = pass[q] BY <1>t
      <4>2. Behind(q)' = p.next /\ Behind(q) = p.next - 1 /\ p.next \in Nat
        BY <3>2, <1>q, <1>c, <4>1 DEF Behind, PassRecord
      <4>3. CASE n = p.next
        <5>1. history'[n] = b BY <4>1, <4>3, <1>c, <1>u, <3>2
        <5> QED BY <5>1, <1>w DEF Sure, Trusted
      <4>4. CASE n # p.next
        <5>1. n \in 1..Behind(q) BY <2>2, <4>2, <4>4
        <5> QED BY <5>1, <1>6, OldMemory
      <4> QED BY <4>3, <4>4
    <3> QED BY <3>1, <3>2
  <2> QED BY <1>u, <1>6, <2>1, <2>2, OldMemory DEF Remembered
<1> QED BY <1>1, <1>2, <1>3, <1>r, <1>4, <1>7 DEF WatchIInv

(* Who has relied on the ingestion is misled.                              *)
LEMMA FailStep ==
    ASSUME WatchIInv, NEW b \in SendBlock, IngestFails(b)
    PROVE  WatchIInv'
<1>u. /\ UNCHANGED <<cemented, history, cursor, running, watched, socket, requests>>
      /\ UNCHANGED <<filter, wire, acknowledged, page, seen, processed, skipped, setup>>
  BY DEF IngestFails, Throw, SinkFault, network, listening, session
<1>w. /\ ingesting[b] # None
      /\ stored' \in {stored, stored \cup {b}}
      /\ relied' = relied \ {b} /\ misled' = misled \cup (relied \cap {b})
      /\ ingesting' = [ingesting EXCEPT ![b] = None]
      /\ asked' = IF ingesting[b] = "poller" THEN None ELSE asked
      /\ pass' = IF ingesting[b] \in Pass THEN [pass EXCEPT ![ingesting[b]] = IdlePass]
                 ELSE pass
  BY DEF IngestFails, Throw, Free
<1>t. /\ ingesting \in [SendBlock -> Caller \cup {None}]
      /\ pass \in [Pass -> PassRecord]
      /\ stored \subseteq SendBlock
  BY DEF WatchIInv, Shapes
<1>n. None \notin Pass BY WatcherAssumption
<1>i. \A c \in SendBlock : ingesting'[c] = IF c = b THEN None ELSE ingesting[c]
  BY <1>t, <1>w
<1>p. \A q \in Pass : pass'[q] = IF ingesting[b] = q THEN IdlePass ELSE pass[q]
  BY <1>t, <1>w
<1>d. IdlePass \in PassRecord /\ IdlePass.at = "idle" BY DEF IdlePass, PassRecord
<1>c. \A q \in Pass : ingesting[b] = q =>
                         pass[q].at = "await" /\ history[pass[q].next] = b
  BY DEF WatchIInv, CallersFit
<1>1. Shapes'
  <2>1. pass' \in [Pass -> PassRecord] BY <1>p, <1>w, <1>t, <1>d
  <2>2. ingesting' \in [SendBlock -> Caller \cup {None}] BY <1>w, <1>t
  <2>3. asked' \in SendBlock \cup {None} BY <1>w DEF WatchIInv, Shapes
  <2>4. stored' \subseteq SendBlock /\ stored \subseteq stored' BY <1>w, <1>t
  <2>5. processed' \subseteq stored' BY <1>u, <2>4 DEF WatchIInv, Shapes
  <2>6. relied' \subseteq SendBlock /\ misled' \subseteq SendBlock
    BY <1>w DEF WatchIInv, Shapes
  <2> QED BY <1>u, <2>1, <2>2, <2>3, <2>4, <2>5, <2>6 DEF WatchIInv, Shapes
<1>2. SessionFits' BY <1>u DEF WatchIInv, SessionFits
<1>3. CallersFit'
  <2>1. ASSUME NEW c \in SendBlock, ingesting'[c] \in Pass
        PROVE  /\ pass'[ingesting'[c]].at = "await"
               /\ history[pass'[ingesting'[c]].next] = c
    <3>1. PICK q \in Pass : q = ingesting'[c] BY <2>1
    <3>2. c # b /\ ingesting[c] = q BY <1>i, <1>n, <3>1
    <3>3. pass[q].at = "await" /\ history[pass[q].next] = c
      BY <3>2 DEF WatchIInv, CallersFit
    <3>4. ingesting[b] # q BY <1>c, <3>2, <3>3
    <3> QED BY <1>p, <3>1, <3>3, <3>4
  <2> QED BY <1>u, <2>1 DEF CallersFit
<1>r. ReliedFit' BY <1>i, <1>w DEF WatchIInv, Shapes, ReliedFit
<1>4. PassesFit'
  BY <1>u, <1>p, <1>d DEF WatchIInv, PassesFit, PassFits
<1>6. Grows
  <2>1. \A c \in SendBlock : Trusted(c) => Trusted(c)' BY <1>w DEF Trusted
  <2> QED BY <1>u, <2>1, HistoryType DEF Grows, WatchIInv
<1>7. Remembered' BY <1>u, <1>p, <1>d, <1>6, NothingLearnt
<1> QED BY <1>1, <1>2, <1>3, <1>r, <1>4, <1>7 DEF WatchIInv

-------------------------------------------------------------------------------
(* The subscription                                                        *)

(* A step of the socket or of the watch list leaves the sink, the passes   *)
(* and the history alone.                                                  *)
Elsewhere ==
    /\ UNCHANGED <<cemented, history, stored, cursor, ingesting, processed>>
    /\ UNCHANGED <<running, page, asked, seen, pass, relied, misled, skipped, setup>>

LEMMA SocketOnly ==
    ASSUME WatchIInv, Elsewhere, SessionFits',
           watched' \in BOOLEAN, socket' \in SocketState,
           requests' \in Seq(BOOLEAN), wire' \in Seq(SendBlock \cup {Ack}),
           filter' \in BOOLEAN, acknowledged' \in BOOLEAN
    PROVE  WatchIInv'
<1>1. Shapes' BY DEF Elsewhere, WatchIInv, Shapes
<1>2. CallersFit' /\ ReliedFit' BY DEF Elsewhere, WatchIInv, CallersFit, ReliedFit
<1>3. PassesFit' BY DEF Elsewhere, WatchIInv, PassesFit, PassFits
<1>4. Grows BY PastStays DEF Elsewhere
<1>5. Remembered' BY <1>4, NothingLearnt DEF Elsewhere
<1> QED BY <1>1, <1>2, <1>3, <1>5 DEF WatchIInv

LEMMA SessionType ==
    ASSUME WatchIInv
    PROVE  /\ SessionFits /\ watched \in BOOLEAN /\ socket \in SocketState
           /\ requests \in Seq(BOOLEAN) /\ wire \in Seq(SendBlock \cup {Ack})
           /\ filter \in BOOLEAN /\ acknowledged \in BOOLEAN
BY DEF WatchIInv, Shapes

LEMMA SocketOpensStep ==
    ASSUME WatchIInv, SocketOpens PROVE WatchIInv'
<1>1. Elsewhere
  BY DEF SocketOpens, Elsewhere, network, database, sink, poller, past,
         watchBounds
<1>2. /\ socket' = "open" /\ requests' = <<watched>> /\ socket = "connecting"
      /\ UNCHANGED <<watched, filter, wire, acknowledged>>
  BY DEF SocketOpens
<1>3. ~ acknowledged BY <1>2 DEF WatchIInv, SessionFits
<1>4. SessionFits' BY <1>2, <1>3, SessionType DEF SessionFits
<1> QED BY <1>1, <1>2, <1>4, SessionType, SocketOnly DEF SocketState

LEMMA ConnectStep ==
    ASSUME WatchIInv,
           ConnectFails \/ Reconnects PROVE WatchIInv'
<1>1. Elsewhere
  BY DEF ConnectFails, Reconnects, Outage, Elsewhere, network, database, sink,
         poller, past, watchBounds
<1>2. /\ socket \in {"connecting", "waiting"}
      /\ socket' \in {"waiting", "given up", "connecting"}
      /\ UNCHANGED <<watched, requests, filter, wire, acknowledged>>
  BY DEF ConnectFails, Reconnects, session
<1>3. SessionFits' BY <1>2, SessionType DEF SessionFits
<1> QED BY <1>1, <1>2, <1>3, SessionType, SocketOnly DEF SocketState

LEMMA ClosesStep ==
    ASSUME WatchIInv, SocketCloses PROVE WatchIInv'
<1>1. Elsewhere
  BY DEF SocketCloses, Outage, Elsewhere, network, database, sink, poller, past,
         watchBounds
<1>2. /\ socket = "open" /\ socket' \in {"waiting", "given up"} /\ UNCHANGED watched
      /\ requests' = << >> /\ ~ filter' /\ wire' = << >> /\ ~ acknowledged'
      /\ filter' \in BOOLEAN /\ acknowledged' \in BOOLEAN
  BY DEF SocketCloses, NoSession
<1>3. SessionFits' BY <1>2 DEF SessionFits
<1>4. requests' \in Seq(BOOLEAN) /\ wire' \in Seq(SendBlock \cup {Ack})
  BY <1>2, EmptySeq
<1> QED BY <1>1, <1>2, <1>3, <1>4, SessionType, SocketOnly DEF SocketState

LEMMA SubscribesStep ==
    ASSUME WatchIInv, NodeSubscribes PROVE WatchIInv'
<1>1. Elsewhere
  BY DEF NodeSubscribes, Elsewhere, network, database, sink, poller, past,
         watchBounds
<1>2. /\ requests # << >> /\ filter' = Head(requests) /\ requests' = Tail(requests)
      /\ wire' = Append(wire, Ack) /\ UNCHANGED <<watched, socket, acknowledged>>
  BY DEF NodeSubscribes
<1>3. /\ filter' \in BOOLEAN /\ requests' \in Seq(BOOLEAN)
      /\ wire' \in Seq(SendBlock \cup {Ack})
  BY <1>2, SessionType
<1>4. SessionFits'
  <2>1. socket = "open" /\ ~ acknowledged /\ requests[Len(requests)] = watched
    BY <1>2, SessionType DEF SessionFits
  <2>2. CASE Len(requests) = 1
    BY <1>2, <2>1, <2>2, SessionType DEF SessionFits
  <2>3. CASE Len(requests) # 1
    <3>0. PICK n \in Nat : n = Len(requests) BY SessionType, LenProperties
    <3>1. n # 0 BY <1>2, <3>0, SessionType, EmptySeq
    <3>2. n > 1 BY <2>3, <3>0, <3>1
    <3>3. /\ Len(Tail(requests)) = n - 1
          /\ \A m \in 1..(n - 1) : Tail(requests)[m] = requests[m + 1]
      BY <1>2, <3>0, SessionType, HeadTailProperties
    <3>4. requests'[Len(requests')] = requests[Len(requests)]
      BY <1>2, <3>0, <3>2, <3>3
    <3>5. requests' # << >>
      <4>1. Len(requests') = n - 1 BY <1>2, <3>3
      <4> QED BY <3>2, <4>1, EmptySeq
    <3> QED BY <1>2, <2>1, <3>4, <3>5 DEF SessionFits
  <2> QED BY <2>2, <2>3
<1> QED BY <1>1, <1>2, <1>3, <1>4, SessionType, SocketOnly

(* An answer counts when no other subscription is outstanding.             *)
LEMMA AcknowledgedStep ==
    ASSUME WatchIInv, SocketAcknowledged PROVE WatchIInv'
<1>1. Elsewhere
  BY DEF SocketAcknowledged, Elsewhere, network, database, sink, poller, past,
         watchBounds
<1>2. /\ wire # << >> /\ Head(wire) = Ack /\ wire' = Tail(wire)
      /\ acknowledged' = (acknowledged \/ Outstanding = 1)
      /\ UNCHANGED <<watched, socket, requests, filter>>
  BY DEF SocketAcknowledged
<1>3. wire' \in Seq(SendBlock \cup {Ack}) /\ acknowledged' \in BOOLEAN
  BY <1>2, SessionType
<1>4. Outstanding = 1 => requests = << >>
  <2> DEFINE answers == {n \in DOMAIN wire : wire[n] = Ack}
  <2>1. 1 \in answers BY <1>2, SessionType
  <2>2. IsFiniteSet(answers) /\ Cardinality(answers) \in Nat
    <3>1. IsFiniteSet(1..Len(wire)) BY SessionType, FS_Interval
    <3>2. answers \subseteq 1..Len(wire) BY SessionType
    <3> QED BY <3>1, <3>2, FS_Subset, FS_CardinalityType
  <2>3. Cardinality(answers) # 0 BY <2>1, <2>2, FS_EmptySet
  <2>4. Len(requests) \in Nat BY SessionType
  <2>5. Outstanding = Len(requests) + Cardinality(answers)
    BY DEF Outstanding
  <2> HIDE DEF answers
  <2>6. Outstanding = 1 => Len(requests) = 0 BY <2>2, <2>3, <2>4, <2>5
  <2> QED BY <2>6, SessionType
<1>5. SessionFits' BY <1>2, <1>4, SessionType DEF SessionFits
<1> QED BY <1>1, <1>2, <1>3, <1>5, SessionType, SocketOnly

LEMMA WatchListStep ==
    ASSUME WatchIInv, NEW new \in BOOLEAN, WatchList(new)
    PROVE  WatchIInv'
<1>1. Elsewhere
  BY DEF WatchList, Change, Elsewhere, network, database, sink, poller, past,
         watchBounds
<1>2. /\ watched' = new /\ UNCHANGED <<socket, filter, wire>>
      /\ IF socket = "open"
         THEN requests' = Append(requests, new) /\ acknowledged' = FALSE
         ELSE UNCHANGED <<requests, acknowledged>>
  BY DEF WatchList, SendSubscription
<1>3. requests' \in Seq(BOOLEAN) /\ acknowledged' \in BOOLEAN
  <2>1. Append(requests, new) \in Seq(BOOLEAN) BY SessionType
  <2>2. CASE socket = "open" BY <1>2, <2>1, <2>2
  <2>3. CASE socket # "open" BY <1>2, <2>3, SessionType
  <2> QED BY <2>2, <2>3
<1>4. SessionFits'
  <2>1. CASE socket = "open"
    <3>1. requests' # << >> /\ requests'[Len(requests')] = new
      BY <1>2, <2>1, SessionType
    <3> QED BY <1>2, <2>1, <3>1 DEF SessionFits
  <2>2. CASE socket # "open" BY <1>2, <2>2, SessionType DEF SessionFits
  <2> QED BY <2>1, <2>2
<1> QED BY <1>1, <1>2, <1>3, <1>4, SessionType, SocketOnly

(* A block reaches the sink over the socket.                               *)
LEMMA SocketDeliversStep ==
    ASSUME WatchIInv, NEW b \in SendBlock,
           SocketDelivers(b)
    PROVE  WatchIInv'
<1>u. /\ UNCHANGED <<cemented, history, stored, cursor, processed, running, watched>>
      /\ UNCHANGED <<socket, requests, filter, acknowledged, page, asked, seen, pass>>
      /\ UNCHANGED <<relied, misled, skipped, setup>>
  BY DEF SocketDelivers, network, database, poller, past, watchBounds
<1>w. /\ wire # << >> /\ wire' = Tail(wire)
      /\ \/ UNCHANGED ingesting
         \/ ingesting[b] = None /\ ingesting' = [ingesting EXCEPT ![b] = "socket"]
  BY DEF SocketDelivers, Taken, Take
<1>t. ingesting \in [SendBlock -> Caller \cup {None}] BY DEF WatchIInv, Shapes
<1>s. "socket" \in Caller /\ "socket" \notin Pass /\ "socket" # None
  BY WatcherAssumption DEF Caller
<1>o. wire' \in Seq(SendBlock \cup {Ack}) BY <1>w, SessionType, HeadTailProperties
<1>i. \A c \in SendBlock : \/ ingesting'[c] = ingesting[c]
                           \/ ingesting[c] = None /\ ingesting'[c] = "socket"
  BY <1>w, <1>t
<1>1. Shapes'
  <2>1. ingesting' \in [SendBlock -> Caller \cup {None}] BY <1>w, <1>t, <1>s
  <2> QED BY <1>u, <1>o, <2>1 DEF WatchIInv, Shapes
<1>2. SessionFits' BY <1>u, <1>w DEF WatchIInv, SessionFits
<1>3. CallersFit'
  <2>1. \A c \in SendBlock : ingesting'[c] \in Pass => ingesting'[c] = ingesting[c]
    BY <1>i, <1>s
  <2> QED BY <1>u, <2>1 DEF WatchIInv, CallersFit
<1>r. ReliedFit' BY <1>u, <1>i, <1>s DEF WatchIInv, Shapes, ReliedFit
<1>4. PassesFit' BY <1>u DEF WatchIInv, PassesFit, PassFits
<1>5. Grows BY <1>u, PastStays
<1>6. Remembered' BY <1>u, <1>5, NothingLearnt
<1> QED BY <1>1, <1>2, <1>3, <1>r, <1>4, <1>6 DEF WatchIInv

(* The sources end, and what they remember; the database is left.          *)
LEMMA StopStep ==
    ASSUME WatchIInv, Stop PROVE WatchIInv'
<1>u. /\ UNCHANGED <<cemented, history, stored, cursor, ingesting, processed, watched>>
      /\ UNCHANGED <<pass, relied, misled, skipped, setup>>
      /\ running' = FALSE /\ page' = {} /\ asked' = None /\ seen' = {}
  BY DEF Stop, Change, network, database, sink, past
<1>w. \/ /\ socket \in {"open", "waiting"} /\ socket' = "given up"
         /\ requests' = << >> /\ wire' = << >> /\ filter' = FALSE /\ acknowledged' = FALSE
      \/ UNCHANGED <<socket, requests, filter, wire, acknowledged>>
  BY DEF Stop, NoSession, session
<1>s. /\ socket' \in SocketState
      /\ requests' \in Seq(BOOLEAN) /\ wire' \in Seq(SendBlock \cup {Ack})
      /\ filter' \in BOOLEAN /\ acknowledged' \in BOOLEAN
  BY <1>w, SessionType, EmptySeq DEF SocketState
<1>1. Shapes' BY <1>u, <1>s DEF WatchIInv, Shapes
<1>2. SessionFits'
  <2>1. CASE UNCHANGED <<socket, requests, filter, wire, acknowledged>>
    BY <1>u, <2>1, SessionType DEF SessionFits
  <2>2. CASE ~ UNCHANGED <<socket, requests, filter, wire, acknowledged>>
    <3>1. /\ socket' # "open" /\ requests' = << >> /\ wire' = << >>
          /\ ~ filter' /\ ~ acknowledged'
      BY <1>w, <2>2
    <3> QED BY <3>1 DEF SessionFits
  <2> QED BY <2>1, <2>2
<1>3. CallersFit' /\ ReliedFit' BY <1>u DEF WatchIInv, CallersFit, ReliedFit
<1>4. PassesFit' BY <1>u DEF WatchIInv, PassesFit, PassFits
<1>5. Grows BY <1>u, PastStays
<1>6. Remembered' BY <1>u, <1>5, NothingLearnt
<1> QED BY <1>1, <1>2, <1>3, <1>4, <1>6 DEF WatchIInv

LEMMA CrashStep ==
    ASSUME WatchIInv, WatchCrash PROVE WatchIInv'
<1>u. /\ UNCHANGED <<cemented, history, stored, cursor, watched, skipped, setup>>
      /\ ingesting' = [b \in SendBlock |-> None] /\ processed' = {}
      /\ running' = TRUE /\ page' = {} /\ asked' = None /\ seen' = {}
      /\ pass' = [q \in Pass |-> IdlePass]
      /\ relied' = {} /\ misled' = misled \cup relied
  BY DEF WatchCrash, SinkFault, network, database
<1>w. /\ socket' = (IF setup.hasSocket THEN "connecting" ELSE "absent")
      /\ requests' = << >> /\ wire' = << >> /\ filter' = FALSE /\ acknowledged' = FALSE
  BY DEF WatchCrash, NoSession
<1>d. IdlePass \in PassRecord /\ IdlePass.at = "idle" BY DEF IdlePass, PassRecord
<1>s. requests' \in Seq(BOOLEAN) /\ wire' \in Seq(SendBlock \cup {Ack})
  BY <1>w, EmptySeq
<1>p. \A q \in Pass : pass'[q] = IdlePass BY <1>u
<1>i. \A b \in SendBlock : ingesting'[b] = None BY <1>u
<1>1. Shapes'
  <2>1. pass' \in [Pass -> PassRecord] BY <1>u, <1>d
  <2>2. ingesting' \in [SendBlock -> Caller \cup {None}] BY <1>u
  <2>3. socket' \in SocketState BY <1>w DEF SocketState
  <2>4. running' \in BOOLEAN /\ filter' \in BOOLEAN /\ acknowledged' \in BOOLEAN
    BY <1>u, <1>w
  <2>5. /\ page' \subseteq SendBlock /\ seen' \subseteq SendBlock
        /\ processed' \subseteq stored
        /\ asked' \in SendBlock \cup {None} /\ relied' \subseteq SendBlock
    BY <1>u
  <2>6. /\ cemented' \subseteq SendBlock /\ history' \in Seq(SendBlock)
        /\ cursor' \in 0..Len(history') /\ stored' \subseteq SendBlock
        /\ watched' \in BOOLEAN /\ setup' \in Setup /\ stored' = stored
    BY <1>u DEF WatchIInv, Shapes
  <2>7. misled' \subseteq SendBlock /\ skipped' \subseteq SendBlock
    BY <1>u DEF WatchIInv, Shapes
  <2> QED BY <1>s, <2>1, <2>2, <2>3, <2>4, <2>5, <2>6, <2>7 DEF Shapes
<1>2. SessionFits' BY <1>w DEF SessionFits
<1>3. CallersFit' /\ ReliedFit'
  BY WatcherAssumption, <1>u, <1>i DEF CallersFit, ReliedFit
<1>4. PassesFit'
  <2> SUFFICES ASSUME NEW q \in Pass PROVE PassFits(q)' BY DEF PassesFit
  <2>1. pass'[q].at = "idle" BY <1>p, <1>d
  <2> QED BY <2>1 DEF PassFits
<1>6. Grows
  <2>1. \A c \in SendBlock : Trusted(c) => Trusted(c)' BY <1>u DEF Trusted
  <2> QED BY <1>u, <2>1, HistoryType DEF Grows, WatchIInv
<1>7. Remembered' BY <1>u, <1>p, <1>d, <1>6, NothingLearnt
<1> QED BY <1>1, <1>2, <1>3, <1>4, <1>7 DEF WatchIInv

-------------------------------------------------------------------------------
(* The poller and the passes                                               *)

(* A step that leaves the network, the socket and the sink's work alone.   *)
SameOutside ==
    /\ UNCHANGED <<cemented, history, stored, processed, running, watched>>
    /\ UNCHANGED <<socket, requests, filter, wire, acknowledged, misled, setup>>

(* It may rely on what the sink is ingesting, or skip a stretch.           *)
MoreKnown ==
    /\ relied \subseteq relied' /\ relied' \subseteq SendBlock
    /\ \A b \in relied' : ingesting[b] # None
    /\ skipped \subseteq skipped' /\ skipped' \subseteq SendBlock

LEMMA StillKnown ==
    ASSUME WatchIInv, UNCHANGED <<relied, skipped>>
    PROVE  MoreKnown
BY DEF MoreKnown, WatchIInv, Shapes, ReliedFit

LEMMA OutsideGrows ==
    ASSUME WatchIInv, SameOutside, MoreKnown
    PROVE  Grows
BY HistoryType DEF SameOutside, MoreKnown, Grows, Trusted, WatchIInv

LEMMA OutsideStays ==
    ASSUME WatchIInv, SameOutside
    PROVE  SessionFits'
BY DEF SameOutside, WatchIInv, SessionFits

(* A source that is told that b has been ingested may trust the sink.      *)
LEMMA BelieversTrust ==
    ASSUME WatchIInv, NEW b \in SendBlock, Taken(b), Believes(b), SameOutside,
           UNCHANGED skipped
    PROVE  MoreKnown /\ Trusted(b)'
<1>1. relied' = IF ingesting[b] = None THEN relied ELSE relied \cup {b}
  BY DEF Believes
<1>2. MoreKnown BY <1>1 DEF MoreKnown, WatchIInv, Shapes, ReliedFit
<1>3. CASE ingesting[b] # None BY <1>1, <1>2, <1>3 DEF Trusted
<1>4. CASE b \in processed BY <1>2, <1>4 DEF WatchIInv, Shapes, SameOutside, Trusted
<1> QED BY <1>2, <1>3, <1>4 DEF Taken

(* The poller moves over its page.                                         *)
LEMMA PageStep ==
    ASSUME WatchIInv,
           \/ PollBegins
           \/ \E b \in SendBlock : PollSkips(b) \/ PollFails(b)
    PROVE  WatchIInv'
<1>u. SameOutside /\ UNCHANGED <<cursor, ingesting, asked, seen, pass, relied, skipped>>
  BY DEF PollBegins, PollSkips, PollFails, Outage, SameOutside, network, database,
         sink, listening, session, past, watchBounds
<1>w. page' = Page \/ page' \subseteq page
  BY DEF PollBegins, PollSkips, PollFails
<1>1. page' \subseteq SendBlock BY <1>w DEF Page, Receivable, WatchIInv, Shapes
<1>2. Shapes' BY <1>u, <1>1 DEF SameOutside, WatchIInv, Shapes
<1>3. CallersFit' /\ ReliedFit'
  BY <1>u DEF SameOutside, WatchIInv, CallersFit, ReliedFit
<1>4. PassesFit' BY <1>u DEF SameOutside, WatchIInv, PassesFit, PassFits
<1>5. Grows BY <1>u, StillKnown, OutsideGrows
<1>6. Remembered' BY <1>u, <1>5, NothingLearnt
<1> QED BY <1>u, <1>2, <1>3, <1>4, <1>6, OutsideStays DEF WatchIInv

LEMMA PollDeliversStep ==
    ASSUME WatchIInv, NEW b \in SendBlock,
           PollDelivers(b)
    PROVE  WatchIInv'
<1>u. SameOutside /\ UNCHANGED <<cursor, pass, skipped>>
  BY DEF PollDelivers, SameOutside, network, database, listening, session, watchBounds
<1>w. /\ page' = page \ {b}
      /\ \/ /\ Taken(b) /\ seen' = seen \cup {b} /\ Believes(b)
            /\ UNCHANGED <<asked, ingesting>>
         \/ /\ ingesting[b] = None /\ ingesting' = [ingesting EXCEPT ![b] = "poller"]
            /\ asked' = b /\ seen' = seen /\ relied' = relied
  BY DEF PollDelivers, Take, Taken
<1>t. ingesting \in [SendBlock -> Caller \cup {None}] BY DEF WatchIInv, Shapes
<1>s. "poller" \in Caller /\ "poller" \notin Pass /\ "poller" # None
  BY WatcherAssumption DEF Caller
<1>i. \A c \in SendBlock : \/ ingesting'[c] = ingesting[c]
                           \/ ingesting[c] = None /\ ingesting'[c] = "poller"
  BY <1>w, <1>t
<1>k. MoreKnown /\ (seen' = seen \/ (seen' = seen \cup {b} /\ Trusted(b)'))
  <2>1. CASE Taken(b) /\ seen' = seen \cup {b} /\ Believes(b)
    BY <1>u, <2>1, BelieversTrust
  <2>2. CASE seen' = seen /\ relied' = relied BY <1>u, <2>2, StillKnown
  <2> QED BY <1>w, <2>1, <2>2
<1>g. Grows BY <1>u, <1>k, OutsideGrows
<1>1. Shapes'
  <2>1. ingesting' \in [SendBlock -> Caller \cup {None}] BY <1>w, <1>t, <1>s
  <2>2. /\ page' \subseteq SendBlock /\ seen' \subseteq SendBlock
        /\ asked' \in SendBlock \cup {None}
    BY <1>w DEF WatchIInv, Shapes
  <2>3. relied' \subseteq SendBlock /\ skipped' \subseteq SendBlock
    BY <1>k DEF MoreKnown
  <2> QED BY <1>u, <2>1, <2>2, <2>3 DEF SameOutside, WatchIInv, Shapes
<1>3. CallersFit'
  <2>1. \A c \in SendBlock : ingesting'[c] \in Pass => ingesting'[c] = ingesting[c]
    BY <1>i, <1>s
  <2> QED BY <1>u, <2>1 DEF SameOutside, WatchIInv, CallersFit
<1>r. ReliedFit' BY <1>i, <1>k, <1>s DEF MoreKnown, ReliedFit
<1>4. PassesFit' BY <1>u DEF SameOutside, WatchIInv, PassesFit, PassFits
<1>5. Remembered'
  <2>1. \A c \in seen' : Trusted(c)' BY <1>k, <1>g, OldMemory
  <2>2. \A q \in Pass : Behind(q)' = Behind(q) BY <1>u DEF Behind
  <2> QED BY <1>u, <1>g, <2>1, <2>2, OldMemory DEF Remembered
<1> QED BY <1>u, <1>1, <1>3, <1>r, <1>4, <1>5, OutsideStays DEF WatchIInv

(* A pass that waits for no call moves: it has to be sure of what it puts  *)
(* behind the cursor, and behind itself.                                   *)
LEMMA PassMoves ==
    ASSUME WatchIInv, NEW q \in Pass, NEW p \in PassRecord,
           SameOutside, MoreKnown, UNCHANGED <<ingesting, page, asked, seen>>,
           pass[q].at # "await", pass' = [pass EXCEPT ![q] = p],
           PassFits(q)', cursor' \in 0..Len(history),
           \A n \in 1..cursor' : Sure(history[n])',
           \A n \in 1..Behind(q)' : Sure(history[n])'
    PROVE  WatchIInv'
<1>t. pass \in [Pass -> PassRecord] BY DEF WatchIInv, Shapes
<1>p. \A r \in Pass : r # q => pass'[r] = pass[r] BY <1>t
<1>1. Shapes'
  <2>1. pass' \in [Pass -> PassRecord] BY <1>t
  <2>2. relied' \subseteq SendBlock /\ skipped' \subseteq SendBlock BY DEF MoreKnown
  <2> QED BY <2>1, <2>2 DEF SameOutside, WatchIInv, Shapes
<1>2. CallersFit'
  <2>1. ASSUME NEW b \in SendBlock, ingesting[b] \in Pass
        PROVE  /\ pass'[ingesting[b]].at = "await"
               /\ history[pass'[ingesting[b]].next] = b
    <3>1. PICK r \in Pass : r = ingesting[b] BY <2>1
    <3>2. pass[r].at = "await" /\ history[pass[r].next] = b
      BY <3>1 DEF WatchIInv, CallersFit
    <3> QED BY <1>p, <3>1, <3>2
  <2> QED BY <2>1 DEF SameOutside, CallersFit
<1>r. ReliedFit' BY DEF MoreKnown, ReliedFit
<1>3. PassesFit'
  <2> SUFFICES ASSUME NEW r \in Pass, r # q PROVE PassFits(r)' BY DEF PassesFit
  <2> QED BY <1>p DEF SameOutside, WatchIInv, PassesFit, PassFits
<1>4. Grows BY OutsideGrows
<1>5. Remembered'
  <2>1. ASSUME NEW r \in Pass, NEW n \in 1..Behind(r)' PROVE Sure(history[n])'
    <3>1. CASE r = q BY <2>1, <3>1
    <3>2. CASE r # q
      <4>1. Behind(r)' = Behind(r) BY <1>p, <3>2 DEF Behind
      <4> QED BY <1>4, <2>1, <4>1, OldMemory
    <3> QED BY <3>1, <3>2
  <2>2. \A b \in seen' : Trusted(b)' BY <1>4, OldMemory
  <2> QED BY <2>1, <2>2 DEF Remembered
<1> QED BY <1>1, <1>2, <1>r, <1>3, <1>5, OutsideStays DEF WatchIInv

(* What is known of a pass, as a record that does not change.              *)
LEMMA PassType ==
    ASSUME WatchIInv, NEW q \in Pass, NEW p, p = pass[q]
    PROVE  /\ p \in PassRecord /\ p.next \in Nat /\ p.last \in Nat
           /\ p.at = "read" => p.next <= Len(history)
           /\ p.at \in {"deliver", "await", "advance"} =>
                  1 <= p.next /\ p.next <= p.last /\ p.last <= Len(history)
<1>1. p \in PassRecord /\ PassFits(q) BY DEF WatchIInv, Shapes, PassesFit
<1>2. p.next \in Nat /\ p.last \in Nat BY <1>1 DEF PassRecord
<1> QED BY <1>1, <1>2 DEF PassFits

(* A pass starts on a stretch: what comes before it is sure.               *)
LEMMA PassStarts ==
    ASSUME WatchIInv, NEW q \in Pass,
           NEW first \in Nat, NEW last \in Nat, 1 <= first, last <= Len(history),
           SameOutside, MoreKnown, UNCHANGED <<ingesting, page, asked, seen>>,
           pass[q].at \in {"read", "advance"},
           pass' = [pass EXCEPT ![q] = Work(first, last)],
           cursor' \in 0..Len(history),
           \A n \in 1..cursor' : Sure(history[n])',
           \A n \in 1..(first - 1) : Sure(history[n])'
    PROVE  WatchIInv'
<1>1. PICK p : p = Work(first, last) OBVIOUS
<1>2. /\ p \in PassRecord
      /\ p.at = "idle" \/ (p.at = "deliver" /\ p.next = first /\ p.last = last
                           /\ first <= last)
  BY <1>1 DEF Work, IdlePass, PassRecord
<1>3. pass'[q] = p BY <1>1 DEF WatchIInv, Shapes
<1>4. PassFits(q)'
  <2>1. history' = history BY DEF SameOutside
  <2> QED BY <1>2, <1>3, <2>1 DEF PassFits
<1>5. Behind(q)' = 0 \/ Behind(q)' = first - 1 BY <1>2, <1>3 DEF Behind
<1>6. \A n \in 1..Behind(q)' : Sure(history[n])'
  <2>1. CASE Behind(q)' = 0 BY <2>1
  <2>2. CASE Behind(q)' = first - 1 BY <2>2
  <2> QED BY <1>5, <2>1, <2>2
<1>7. pass[q].at # "await" OBVIOUS
<1> QED BY <1>1, <1>2, <1>4, <1>6, <1>7, PassMoves

LEMMA Reads ==
    ASSUME NEW a \in Nat, NEW c \in Int
    PROVE  /\ Min({a, c}) \in {a, c} /\ Min({a, c}) <= a
           /\ Max({1, c}) \in {1, c} /\ Max({1, c}) >= 1
<1>1. \E x \in {a, c} : \A y \in {a, c} : x <= y
  BY DEF Min
<1>2. \E x \in {1, c} : \A y \in {1, c} : x >= y
  BY DEF Max
<1>3. Min({a, c}) \in {a, c} /\ \A y \in {a, c} : Min({a, c}) <= y
  BY <1>1 DEF Min
<1>4. Max({1, c}) \in {1, c} /\ \A y \in {1, c} : Max({1, c}) >= y
  BY <1>2 DEF Max
<1> QED BY <1>3, <1>4

LEMMA PassBeginsStep ==
    ASSUME WatchIInv, NEW q \in Pass,
           PassBegins(q) PROVE WatchIInv'
<1>u. SameOutside /\ UNCHANGED <<ingesting, page, asked, seen, cursor, relied, skipped>>
  BY DEF PassBegins, SameOutside, network, database, sink, listening, session,
         poller, past, watchBounds
<1>1. PICK p : p = [at |-> "read", next |-> cursor, last |-> 0] OBVIOUS
<1>2. /\ pass[q].at = "idle" /\ cursor < Len(history)
      /\ pass' = [pass EXCEPT ![q] = p]
  BY <1>1 DEF PassBegins
<1>3. cursor \in 0..Len(history) /\ pass \in [Pass -> PassRecord]
  BY DEF WatchIInv, Shapes
<1>4. p \in PassRecord /\ p.at = "read" /\ p.next = cursor
  BY <1>1, <1>3 DEF PassRecord
<1>5. pass'[q] = p BY <1>2, <1>3
<1>6. PassFits(q)' BY <1>u, <1>2, <1>3, <1>4, <1>5 DEF PassFits, SameOutside
<1>7. Behind(q)' = cursor' BY <1>u, <1>4, <1>5 DEF Behind
<1>k. MoreKnown BY <1>u, StillKnown
<1>8. \A n \in 1..cursor' : Sure(history[n])'
  BY <1>u, <1>k, OutsideGrows, OldMemory
<1> QED BY <1>u, <1>k, <1>2, <1>3, <1>4, <1>6, <1>7, <1>8, PassMoves

LEMMA ReadForwardStep ==
    ASSUME WatchIInv, NEW q \in Pass,
           ReadForward(q) PROVE WatchIInv'
<1>u. SameOutside /\ UNCHANGED <<ingesting, page, asked, seen, cursor, relied, skipped>>
  BY DEF ReadForward, SameOutside, network, database, sink, listening, session,
         poller, past, watchBounds
<1>p. PICK p : p = pass[q] OBVIOUS
<1>l. PICK last : last = Min({Len(history), p.next + setup.batchSize - 1}) OBVIOUS
<1>f. PICK first : first = p.next + 1 OBVIOUS
<1>1. p.at = "read" /\ pass' = [pass EXCEPT ![q] = Work(first, last)]
  BY <1>p, <1>l, <1>f DEF ReadForward
<1>2. setup.batchSize \in Nat /\ setup.batchSize > 1
  BY WatcherAssumption DEF WatchIInv, Shapes
<1>3. Len(history) \in Nat /\ p.next \in Nat
  BY <1>p, PassType, HistoryType DEF WatchIInv
<1>4. last \in Nat /\ last <= Len(history)
  <2>1. PICK a \in Nat : a = Len(history) BY <1>3
  <2>n. PICK n \in Nat : n = setup.batchSize /\ n > 1 BY <1>2
  <2>k. PICK k \in Nat : k = p.next BY <1>3
  <2>c. PICK c \in Int : c = k + n - 1 /\ c \in Nat BY <2>n
  <2>3. Min({a, c}) \in {a, c} /\ Min({a, c}) <= a BY Reads
  <2> QED BY <1>l, <2>n, <2>k, <2>1, <2>c, <2>3
<1>5. cursor \in 0..Len(history) BY DEF WatchIInv, Shapes
<1>6. Behind(q) = p.next BY <1>p, <1>1 DEF Behind
<1>k. MoreKnown BY <1>u, StillKnown
<1>7. /\ \A n \in 1..cursor' : Sure(history[n])'
      /\ \A n \in 1..(first - 1) : Sure(history[n])'
  <2>1. first - 1 = Behind(q) BY <1>f, <1>3, <1>6
  <2> QED BY <1>u, <1>k, <2>1, OutsideGrows, OldMemory
<1>8. first \in Nat /\ 1 <= first /\ pass[q].at \in {"read", "advance"}
      /\ cursor' \in 0..Len(history)
  BY <1>u, <1>p, <1>f, <1>1, <1>3, <1>5
<1> QED BY <1>u, <1>k, <1>1, <1>4, <1>5, <1>7, <1>8, PassStarts

(* Without a cursor what lies before the stretch is skipped.               *)
LEMMA ReadRecentStep ==
    ASSUME WatchIInv, NEW q \in Pass,
           ReadRecent(q) PROVE WatchIInv'
<1>u. SameOutside /\ UNCHANGED <<ingesting, page, asked, seen, cursor, relied>>
  BY DEF ReadRecent, Outage, SameOutside, network, database, sink, listening,
         session, poller, watchBounds
<1>f. PICK first : first = Max({1, Len(history) - setup.batchSize + 1}) OBVIOUS
<1>1. /\ pass[q].at = "read" /\ pass' = [pass EXCEPT ![q] = Work(first, Len(history))]
      /\ skipped' = skipped \cup {history[n] : n \in 1..(first - 1)}
  BY <1>f DEF ReadRecent
<1>2. setup.batchSize \in Nat \ {0} BY WatcherAssumption DEF WatchIInv, Shapes
<1>3. Len(history) \in Nat BY HistoryType DEF WatchIInv
<1>4. first \in Nat /\ 1 <= first /\ first - 1 <= Len(history)
  <2>1. PICK c \in Int : c = Len(history) - setup.batchSize + 1 BY <1>2, <1>3
  <2>2. Max({1, c}) \in {1, c} /\ Max({1, c}) >= 1 BY Reads
  <2>3. first = Max({1, c}) BY <1>f, <2>1
  <2> QED BY <1>2, <1>3, <2>1, <2>2, <2>3
<1>5. cursor' \in 0..Len(history) BY <1>u DEF WatchIInv, Shapes
<1>k. MoreKnown
  <2>1. \A n \in 1..(first - 1) : history[n] \in SendBlock
    BY <1>3, <1>4, HistoryType DEF WatchIInv
  <2> QED BY <1>u, <1>1, <2>1 DEF MoreKnown, WatchIInv, Shapes, ReliedFit
<1>6. ASSUME NEW n \in 1..(first - 1) PROVE Sure(history[n])'
  <2>1. history' = history BY <1>u DEF SameOutside
  <2> QED BY <1>1, <2>1 DEF Sure
<1>7. \A n \in 1..cursor' : Sure(history[n])'
  BY <1>u, <1>k, OutsideGrows, OldMemory
<1>8. pass[q].at \in {"read", "advance"} BY <1>1
<1>9. PICK last \in Nat : last = Len(history) /\ last <= Len(history) BY <1>3
<1>10. pass' = [pass EXCEPT ![q] = Work(first, last)] BY <1>1, <1>9
<1> QED BY <1>u, <1>k, <1>4, <1>5, <1>6, <1>7, <1>8, <1>9, <1>10, PassStarts

LEMMA AdvanceStep ==
    ASSUME WatchIInv, NEW q \in Pass,
           Advance(q) PROVE WatchIInv'
<1>u. SameOutside /\ UNCHANGED <<ingesting, page, asked, seen, relied, skipped>>
  BY DEF Advance, SameOutside, network, sink, listening, session, poller, past,
         watchBounds
<1>p. PICK p : p = pass[q] OBVIOUS
<1>3. /\ p.next \in Nat /\ p.last \in Nat
      /\ p.at = "advance" => 1 <= p.next /\ p.next <= p.last /\ p.last <= Len(history)
  BY <1>p, PassType
<1>f. PICK first \in Nat : first = p.next + 1 /\ first - 1 = p.next /\ 1 <= first
  BY <1>3
<1>l. PICK last \in Nat : last = p.last BY <1>3
<1>1. /\ p.at = "advance" /\ cursor' = p.next
      /\ pass' = [pass EXCEPT ![q] = Work(first, last)]
  BY <1>p, <1>f, <1>l DEF Advance, WatchIInv, Shapes
<1>4. cursor' \in 0..Len(history) /\ last <= Len(history)
  BY <1>1, <1>3, <1>l, HistoryType DEF WatchIInv
<1>5. Behind(q) = p.next BY <1>p, <1>1 DEF Behind
<1>k. MoreKnown BY <1>u, StillKnown
<1>6. \A n \in 1..p.next : Sure(history[n])'
  BY <1>u, <1>k, <1>5, OutsideGrows, OldMemory
<1> QED BY <1>u, <1>k, <1>f, <1>p, <1>1, <1>4, <1>6, PassStarts

LEMMA PassFailsStep ==
    ASSUME WatchIInv, NEW q \in Pass,
           PassFails(q) PROVE WatchIInv'
<1>u. SameOutside /\ UNCHANGED <<ingesting, page, asked, seen, cursor, relied, skipped>>
  BY DEF PassFails, Outage, SameOutside, network, database, sink, listening,
         session, poller, past, watchBounds
<1>1. PICK p : p = IdlePass OBVIOUS
<1>2. p \in PassRecord /\ p.at = "idle" BY <1>1 DEF IdlePass, PassRecord
<1>3. pass[q].at # "await" /\ pass' = [pass EXCEPT ![q] = p]
  BY <1>1 DEF PassFails
<1>4. pass'[q] = p BY <1>3 DEF WatchIInv, Shapes
<1>5. PassFits(q)' /\ Behind(q)' = 0 BY <1>2, <1>4 DEF PassFits, Behind
<1>6. cursor' \in 0..Len(history) BY <1>u DEF WatchIInv, Shapes
<1>k. MoreKnown BY <1>u, StillKnown
<1>7. \A n \in 1..cursor' : Sure(history[n])'
  BY <1>u, <1>k, OutsideGrows, OldMemory
<1>8. \A n \in 1..Behind(q)' : Sure(history[n])' BY <1>5
<1> QED BY <1>u, <1>k, <1>2, <1>3, <1>5, <1>6, <1>7, <1>8, PassMoves

(* The sink refuses the entry of a pass, or takes it.                      *)
LEMMA PassDeliversStep ==
    ASSUME WatchIInv, NEW q \in Pass,
           PassDelivers(q) PROVE WatchIInv'
<1>u. SameOutside /\ UNCHANGED <<page, asked, seen, cursor, skipped>>
  BY DEF PassDelivers, SameOutside, network, database, listening, session, poller,
         watchBounds
<1>t. /\ ingesting \in [SendBlock -> Caller \cup {None}]
      /\ pass \in [Pass -> PassRecord]
      /\ cursor \in 0..Len(history)
  BY DEF WatchIInv, Shapes
<1>p. PICK p \in PassRecord : p = pass[q] BY <1>t
<1>n. /\ p.next \in Nat /\ p.last \in Nat /\ p.at = "deliver"
      /\ 1 <= p.next /\ p.next <= p.last /\ p.last <= Len(history)
  <2>1. p.at = "deliver" BY <1>p DEF PassDelivers
  <2> QED BY <1>p, <2>1, PassType
<1>h. p.next \in 1..Len(history) BY <1>n, HistoryType DEF WatchIInv
<1>b. PICK b \in SendBlock : b = history[p.next] BY <1>h, HistoryType DEF WatchIInv
<1>v. Behind(q) = p.next - 1 BY <1>p, <1>n DEF Behind
<1>1. CASE Taken(b)
  <2>1. PICK r : r = [p EXCEPT !.at = "advance"] OBVIOUS
  <2>2. /\ r \in PassRecord /\ r.at = "advance" /\ r.next = p.next /\ r.last = p.last
    BY <2>1, <1>n DEF PassRecord
  <2>3. pass' = [pass EXCEPT ![q] = r] /\ UNCHANGED ingesting /\ Believes(b)
    BY <1>1, <1>p, <1>b, <2>1 DEF PassDelivers, PassGoes
  <2>4. pass'[q] = r BY <2>3, <1>t
  <2>5. PassFits(q)' BY <1>u, <1>n, <2>2, <2>4 DEF PassFits, SameOutside
  <2>6. Behind(q)' = p.next BY <2>2, <2>4 DEF Behind
  <2>k. MoreKnown /\ Trusted(b)' BY <1>1, <1>u, <2>3, BelieversTrust
  <2>7. ASSUME NEW n \in 1..Behind(q)' PROVE Sure(history[n])'
    <3>1. CASE n = p.next
      <4>1. history'[n] = b BY <1>u, <1>b, <3>1 DEF SameOutside
      <4> QED BY <4>1, <2>k DEF Sure, Trusted
    <3>2. CASE n # p.next
      <4>1. n \in 1..Behind(q) BY <1>n, <1>v, <2>6, <2>7, <3>2
      <4> QED BY <1>u, <2>k, <4>1, OutsideGrows, OldMemory
    <3> QED BY <3>1, <3>2
  <2>8. \A n \in 1..cursor' : Sure(history[n])'
    BY <1>u, <2>k, OutsideGrows, OldMemory
  <2>9. pass[q].at # "await" /\ cursor' \in 0..Len(history) BY <1>u, <1>t, <1>p, <1>n
  <2>10. UNCHANGED <<ingesting, page, asked, seen>> BY <1>u, <2>3
  <2> QED BY <1>u, <2>2, <2>3, <2>k, <2>5, <2>7, <2>8, <2>9, <2>10, PassMoves
<1>2. CASE ~ Taken(b)
  <2>1. PICK r : r = [p EXCEPT !.at = "await"] OBVIOUS
  <2>2. /\ r \in PassRecord /\ r.at = "await" /\ r.next = p.next /\ r.last = p.last
    BY <2>1, <1>n DEF PassRecord
  <2>3. /\ pass' = [pass EXCEPT ![q] = r] /\ UNCHANGED relied
        /\ ingesting' = [ingesting EXCEPT ![b] = q] /\ ingesting[b] = None
    BY <1>2, <1>p, <1>b, <2>1 DEF PassDelivers, PassGoes, Take, Taken
  <2>p. \A s \in Pass : pass'[s] = IF s = q THEN r ELSE pass[s] BY <2>3, <1>t
  <2>i. \A c \in SendBlock : ingesting'[c] = IF c = b THEN q ELSE ingesting[c]
    BY <2>3, <1>t
  <2>q. q # None /\ q \in Caller BY WatcherAssumption DEF Caller
  <2>k. MoreKnown BY <1>u, <2>3, StillKnown
  <2>4. Shapes'
    <3>1. /\ pass' \in [Pass -> PassRecord]
          /\ ingesting' \in [SendBlock -> Caller \cup {None}]
      BY <2>2, <2>3, <2>q, <1>t
    <3> QED BY <1>u, <2>3, <3>1 DEF SameOutside, WatchIInv, Shapes
  <2>5. CallersFit'
    <3>1. ASSUME NEW c \in SendBlock, ingesting'[c] \in Pass
          PROVE  /\ pass'[ingesting'[c]].at = "await"
                 /\ history[pass'[ingesting'[c]].next] = c
      <4>1. CASE c = b BY <4>1, <2>2, <2>p, <2>i, <1>b
      <4>2. CASE c # b
        <5>1. ingesting'[c] = ingesting[c] BY <4>2, <2>i
        <5>2. PICK s \in Pass : s = ingesting[c] BY <3>1, <5>1
        <5>3. pass[s].at = "await" /\ history[pass[s].next] = c
          BY <5>2 DEF WatchIInv, CallersFit
        <5>4. s # q BY <5>3, <1>p, <1>n
        <5> QED BY <5>1, <5>2, <5>3, <5>4, <2>p
      <4> QED BY <4>1, <4>2
    <3> QED BY <1>u, <3>1 DEF SameOutside, CallersFit
  <2>r. ReliedFit' BY <2>3, <2>i, <2>q DEF WatchIInv, Shapes, ReliedFit
  <2>6. PassesFit'
    <3> SUFFICES ASSUME NEW s \in Pass PROVE PassFits(s)' BY DEF PassesFit
    <3>1. CASE s = q
      BY <3>1, <1>u, <1>n, <2>2, <2>p DEF PassFits, SameOutside
    <3>2. CASE s # q
      BY <3>2, <1>u, <2>p DEF SameOutside, WatchIInv, PassesFit, PassFits
    <3> QED BY <3>1, <3>2
  <2>7. Grows BY <1>u, <2>k, OutsideGrows
  <2>8. Remembered'
    <3>1. \A s \in Pass : Behind(s)' = Behind(s)
      <4> TAKE s \in Pass
      <4>1. CASE s = q BY <4>1, <1>v, <2>2, <2>p DEF Behind
      <4>2. CASE s # q BY <4>2, <2>p DEF Behind
      <4> QED BY <4>1, <4>2
    <3> QED BY <1>u, <2>7, <3>1, OldMemory DEF Remembered
  <2> QED BY <1>u, <2>4, <2>5, <2>r, <2>6, <2>8, OutsideStays DEF WatchIInv
<1> QED BY <1>1, <1>2

-------------------------------------------------------------------------------
(* The theorems                                                            *)

LEMMA WatchInitially ==
    ASSUME WatchInit PROVE WatchIInv
<1>d. IdlePass \in PassRecord /\ IdlePass.at = "idle" BY DEF IdlePass, PassRecord
<1>p. pass = [q \in Pass |-> IdlePass] /\ \A q \in Pass : pass[q] = IdlePass
  BY DEF WatchInit
<1>i. /\ ingesting = [b \in SendBlock |-> None]
      /\ \A b \in SendBlock : ingesting[b] = None
  BY DEF WatchInit
<1>e. /\ history = << >> /\ Len(history) = 0
      /\ requests = << >> /\ wire = << >> /\ history \in Seq(SendBlock)
      /\ requests \in Seq(BOOLEAN) /\ wire \in Seq(SendBlock \cup {Ack})
  BY EmptySeq DEF WatchInit
<1>w. /\ cemented = {} /\ stored = {} /\ cursor = 0 /\ processed = {} /\ setup \in Setup
      /\ running = TRUE /\ watched = ~ setup.late
      /\ filter = FALSE /\ acknowledged = FALSE
      /\ page = {} /\ asked = None /\ seen = {}
      /\ relied = {} /\ misled = {} /\ skipped = {}
      /\ socket = IF setup.hasSocket THEN "connecting" ELSE "absent"
  BY DEF WatchInit
<1>1. Shapes
  <2>1. pass \in [Pass -> PassRecord] BY <1>d, <1>p
  <2>2. ingesting \in [SendBlock -> Caller \cup {None}] BY <1>i
  <2>3. socket \in SocketState BY <1>w DEF SocketState
  <2>4. /\ running \in BOOLEAN /\ watched \in BOOLEAN /\ filter \in BOOLEAN
        /\ acknowledged \in BOOLEAN
    BY <1>w
  <2>5. cursor \in 0..Len(history) BY <1>w, <1>e
  <2> QED BY <1>e, <1>w, <2>1, <2>2, <2>3, <2>4, <2>5 DEF Shapes
<1>2. SessionFits BY <1>e, <1>w DEF SessionFits
<1>3. CallersFit /\ ReliedFit BY WatcherAssumption, <1>i, <1>w DEF CallersFit, ReliedFit
<1>4. PassesFit
  <2> SUFFICES ASSUME NEW q \in Pass PROVE PassFits(q) BY DEF PassesFit
  <2>1. pass[q].at = "idle" BY <1>d, <1>p
  <2> QED BY <2>1 DEF PassFits
<1>6. Remembered
  <2>1. ASSUME NEW q \in Pass PROVE Behind(q) = 0
    <3>1. pass[q].at = "idle" BY <1>d, <1>p
    <3> QED BY <3>1 DEF Behind
  <2> QED BY <1>w, <2>1 DEF Remembered
<1> QED BY <1>1, <1>2, <1>3, <1>4, <1>6 DEF WatchIInv

LEMMA WatchStep ==
    ASSUME WatchIInv, [WatchNext]_watchvars PROVE WatchIInv'
<1>1. ASSUME NEW b \in SendBlock,
             \/ Cement(b) \/ Receive(b) \/ SocketDelivers(b)
             \/ IngestCommits(b) \/ IngestFails(b)
      PROVE  WatchIInv'
  BY <1>1, CementStep, ReceiveStep, SocketDeliversStep, CommitStep, FailStep
<1>2. ASSUME PollStep \/ \E b \in SendBlock : PollFails(b) PROVE WatchIInv'
  BY <1>2, PageStep, PollDeliversStep DEF PollStep
<1>3. CASE \/ SocketOpens \/ ConnectFails
           \/ SocketCloses \/ Reconnects
           \/ NodeSubscribes \/ SocketAcknowledged
  BY <1>3, SocketOpensStep, ConnectStep, ClosesStep, SubscribesStep, AcknowledgedStep
<1>4. CASE AddAccount \/ RemoveAccount \/ OtherAccount
  <2>1. PICK new \in BOOLEAN : WatchList(new)
    BY <1>4, SessionType DEF AddAccount, RemoveAccount, OtherAccount
  <2> QED BY <2>1, WatchListStep
<1>5. CASE Stop \/ WatchCrash BY <1>5, StopStep, CrashStep
<1>6. ASSUME NEW q \in Pass, Reconcile(q) \/ PassFails(q) PROVE WatchIInv'
  BY <1>6, PassBeginsStep, ReadForwardStep, ReadRecentStep, PassDeliversStep,
     AdvanceStep, PassFailsStep DEF Reconcile
<1>7. CASE UNCHANGED watchvars
  <2>1. /\ SameOutside
        /\ UNCHANGED <<ingesting, page, asked, seen, cursor, pass, relied, skipped>>
    BY <1>7 DEF watchvars, network, database, sink, listening, session, poller, past,
                watchBounds, SameOutside
  <2>2. Shapes' BY <2>1 DEF SameOutside, WatchIInv, Shapes
  <2>3. CallersFit' /\ ReliedFit'
    BY <2>1 DEF SameOutside, WatchIInv, CallersFit, ReliedFit
  <2>4. PassesFit' BY <2>1 DEF SameOutside, WatchIInv, PassesFit, PassFits
  <2>5. Grows BY <2>1, StillKnown, OutsideGrows
  <2>6. Remembered' BY <2>1, <2>5, NothingLearnt
  <2> QED BY <2>1, <2>2, <2>3, <2>4, <2>6, OutsideStays DEF WatchIInv
<1> QED BY <1>1, <1>2, <1>3, <1>4, <1>5, <1>6, <1>7 DEF WatchNext

(* The watcher keeps the invariant, whatever the environment does.         *)
THEOREM WatchInvariantHolds == WatchSpec => []WatchIInv
BY WatchInitially, WatchStep, PTL DEF WatchSpec

(* While a subscription counts as acknowledged the node has the one that   *)
(* the watcher wants (websocket.ts, the id of the last subscription): in   *)
(* every set-up, and whatever fails.                                       *)
THEOREM AnswersMatch == WatchSpec => []SubscriptionIsCurrent
<1>1. WatchIInv => SubscriptionIsCurrent
  BY DEF WatchIInv, SessionFits, SubscriptionIsCurrent
<1> QED BY <1>1, WatchInvariantHolds, PTL

(* What the cursor, the poller and the socket remember is true in every    *)
(* set-up, with all the sources at work and ingestions that fail: a send   *)
(* behind the cursor or among the seen hashes is stored, or is being       *)
(* stored, or was left to an ingestion of another source, which failed; or *)
(* a pass has skipped it (recovery.ts, poller.ts).                         *)
THEOREM SourcesAreHonest == WatchSpec => []MemoryIsHonest
<1>1. ASSUME WatchIInv PROVE MemoryIsHonest
  <2>1. \A b \in SendBlock : Trusted(b) => b \in stored \cup misled \/ ingesting[b] # None
    BY <1>1 DEF Trusted, WatchIInv, ReliedFit
  <2>2. CursorIsHonest
    <3> SUFFICES ASSUME NEW n \in 1..cursor
                 PROVE  \/ history[n] \in stored \cup misled \cup skipped
                        \/ ingesting[history[n]] # None
      BY DEF CursorIsHonest
    <3>1. n \in 1..Len(history)
      <4>1. cursor \in 0..Len(history) BY <1>1 DEF WatchIInv, Shapes
      <4> QED BY <1>1, <4>1, HistoryType DEF WatchIInv
    <3>2. history[n] \in SendBlock BY <1>1, <3>1, HistoryType DEF WatchIInv
    <3>3. Sure(history[n]) BY <1>1 DEF WatchIInv, Remembered
    <3> QED BY <2>1, <3>2, <3>3 DEF Sure
  <2>3. SeenIsHonest
    BY <1>1, <2>1 DEF SeenIsHonest, WatchIInv, Remembered, Shapes
  <2>4. SubscriptionIsCurrent
    BY <1>1 DEF WatchIInv, SessionFits, SubscriptionIsCurrent
  <2> QED BY <2>2, <2>3, <2>4 DEF MemoryIsHonest
<1> QED BY <1>1, WatchInvariantHolds, PTL
===============================================================================
