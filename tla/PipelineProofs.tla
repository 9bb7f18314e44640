--------------------------- MODULE PipelineProofs ---------------------------
(***************************************************************************)
(* Theorems about the two-stage pipeline, for every ring size, number of   *)
(* slots and choice of readers, when stage 1 is complete before stage 2    *)
(* and the first publish (SpecRegistered).                                 *)
(*                                                                         *)
(* The argument: while stage 2 has readers or the writer publishes, stage  *)
(* 1 only loses readers and their cursors only grow.  So a call of its     *)
(* barrier, however it interleaves, accounts for every reader that is      *)
(* still there when it returns (ScanInv), which orders the stages, and     *)
(* does not fall back behind what was true when it began (PollInv).  The   *)
(* writer's Load of stage 2 starts its minimum from such a call, and so    *)
(* answers for stage 1 (FirstInv), whatever joins stage 2 meanwhile.  When *)
(* nothing does (SpecOrdered), it answers for stage 2 too (LoadInv).       *)
(***************************************************************************)
EXTENDS Pipeline, TLAPS

LEMMA Constants ==
  /\ Leaf!Slots = Slots /\ Up!Slots = Slots
  /\ Writer \in Callers /\ Writer \notin Slots /\ Callers = Slots \cup {Writer}
  /\ BufferSize \in Nat /\ WordSize \in Nat /\ Slots \subseteq Nat /\ 0 \in Slots
  BY PipelineAssumption DEF Leaf!Slots, Up!Slots, Slots, Callers, Writer

(* What the proofs expand everywhere. *)
USE DEF Joining, Pending

LEMMA InitPipelineInv == Init => PipelineInv
  BY Constants, PipelineAssumption
  DEF Init, ForAll, Up!BarrierInit, Slots,
      PipelineInv, StagesInv, TypeOK, Leaf!BarrierTypeOK, Up!BarrierTypeOK, CallsInv,
      LifeInv, JoinInv, InJoin, BoundInv, HasRoom, ScanInv, StageOrder, PollInv,
      FirstInv, AnswerInv, LeafJoinInv, RoomInv,
      Member, Position, BehindInv, AtLeast, GateInv, LoadInv, Stages,
      NeedsUpstream, Leaf!Paths

-----------------------------------------------------------------------------
(* StagesInv, one lemma for each part of Next.                             *)

(* The writer, outside the calls it makes. *)
LEMMA WriterStages ==
  ASSUME StagesInv, Registered,
         Publish \/ StartLoad \/ AskUpstream \/ RefreshGate \/ WriteSlot \/ Commit
  PROVE  StagesInv'
  <1> USE Constants
      DEF writerVars, readerVars, leafVars, upVars, others,
          StagesInv, TypeOK, Leaf!BarrierTypeOK, Up!BarrierTypeOK, CallsInv,
          LifeInv, JoinInv, InJoin, Registered, BoundInv, HasRoom, ScanInv, StageOrder,
          Member, Position, PollInv, AtLeast, FirstInv, AnswerInv, Stages,
          NeedsUpstream, Leaf!Paths
  <1>1. CASE Publish
    BY <1>1 DEF Publish
  <1>2. CASE StartLoad
    BY <1>2 DEF StartLoad, Leaf!LoadBitmap0, Leaf!scanVars, Leaf!cacheVars, Leaf!Word
  <1>3. CASE AskUpstream
    BY <1>3 DEF AskUpstream, Up!LoadWord0, Up!Step, Up!InWord
  <1>4. CASE WriteSlot
    BY <1>4 DEF WriteSlot
  <1>5. CASE Commit
    <2>1. BoundInv'
      BY <1>5 DEF Commit
    <2> HIDE DEF BoundInv, HasRoom
    <2> QED
      BY <1>5, <2>1 DEF Commit
  <1>6. CASE RefreshGate
    BY <1>6 DEF RefreshGate, Leaf!LoadReturn, Leaf!cacheVars
  <1> QED
    BY <1>1, <1>2, <1>3, <1>4, <1>5, <1>6

(* A call of stage 1's barrier, the writer's or another. *)
LEMMA BarrierStages ==
  ASSUME StagesInv, Registered, NEW c \in Callers,
         Up!LoadStep(c), UNCHANGED <<writerVars, readerVars, leafVars>>
  PROVE  StagesInv'
  <1> USE Constants
      DEF writerVars, readerVars, leafVars, upVars, others,
          StagesInv, TypeOK, Leaf!BarrierTypeOK, Up!BarrierTypeOK, CallsInv,
          LifeInv, JoinInv, InJoin, Registered, BoundInv, HasRoom, ScanInv, StageOrder,
          Member, Position, PollInv, AtLeast, FirstInv, AnswerInv, Stages,
          NeedsUpstream, Leaf!Paths
  <1>1. CASE Up!LoadWord1(c)
    BY <1>1 DEF Up!LoadWord1, Up!Step, Up!InWord
  <1>2. CASE Up!LoadUpstream(c)
    BY <1>2 DEF Up!LoadUpstream, Up!Step
  <1>3. CASE Up!ScanSlot(c)
    BY <1>3 DEF Up!ScanSlot, Up!Step
  <1> QED
    BY <1>1, <1>2, <1>3 DEF Up!LoadStep

(* The beginning of a reader's or an AddReader's call. *)
LEMMA CallStages ==
  ASSUME StagesInv, Registered, NEW s \in Slots,
         jpc[2][s] = "ask" \/ rpc[2][s] = "load", Up!LoadWord0(s),
         UNCHANGED <<others, readerVars>>
  PROVE  StagesInv'
  <1> USE Constants
      DEF writerVars, readerVars, leafVars, upVars, others,
          StagesInv, TypeOK, Leaf!BarrierTypeOK, Up!BarrierTypeOK, CallsInv,
          LifeInv, JoinInv, InJoin, Registered, BoundInv, HasRoom, ScanInv, StageOrder,
          Member, Position, PollInv, AtLeast, FirstInv, AnswerInv, Stages,
          NeedsUpstream, Leaf!Paths
  <1> QED
    BY DEF Up!LoadWord0, Up!Step, Up!InWord

(* The end of a call: the other calls go on as they are. *)
Same(c) ==
  bpc'[c] = bpc[c] /\ bits'[c] = bits[c] /\ left'[c] = left[c] /\ least'[c] = least[c]

LEMMA ReturnFrame ==
  ASSUME TypeOK, NEW c \in Callers, Up!Return(c)
  PROVE  /\ Up!BarrierTypeOK'
         /\ bpc[c] = "done" /\ bpc'[c] = "idle" /\ least'[c] = 0
         /\ \A d \in Callers \ {c} : Same(d)
  BY DEF Same, Up!Return, Up!Step, TypeOK, Up!BarrierTypeOK, Up!Slots

(* A step of the writer's Load disturbs nothing but the Load, and its call *)
(* of stage 1's barrier, which it ends.                                    *)
LEMMA LoadFrame ==
  ASSUME StagesInv, Registered, RunLoad
  PROVE  /\ UNCHANGED <<writerVars, readerVars>>
         /\ Up!BarrierTypeOK'
         /\ bpc'[Writer] = "idle" /\ \A s \in Slots : Same(s)
         /\ \A c \in Callers : least'[c] <= writeCursor
         /\ wpc = "load" /\ CallsInv' /\ LifeInv' /\ JoinInv' /\ ScanInv'
         /\ StageOrder' /\ PollInv'
  <1> USE Constants DEF StagesInv, writerVars, readerVars, Same, NeedsUpstream
  <1>1. UNCHANGED <<writerVars, readerVars>> /\ lpc # "idle" /\ wpc = "load"
    BY DEF RunLoad, CallsInv, Leaf!LoadStep, Leaf!LoadBitmap1, Leaf!LoadUpstream,
           Leaf!GateHit, Leaf!GateMiss, Leaf!ScanMax, Leaf!ScanSlot, Leaf!ScanDone
  <1>2. /\ Up!BarrierTypeOK'
        /\ bpc'[Writer] = "idle" /\ least'[Writer] \in {0, least[Writer]}
        /\ \A s \in Slots : Same(s)
    <2>1. CASE NeedsUpstream
      BY <2>1, ReturnFrame DEF RunLoad
    <2>2. CASE ~NeedsUpstream
      <3>1. UNCHANGED <<bpc, bits, left, least>> /\ bpc[Writer] = "idle"
        BY <2>2 DEF RunLoad, upVars, CallsInv, TypeOK, Up!BarrierTypeOK
      <3> QED
        BY <3>1 DEF TypeOK, Up!BarrierTypeOK
    <2> QED
      BY <2>1, <2>2
  <1>3. CallsInv' /\ LifeInv' /\ StageOrder'
    <2>1. CallsInv'
      BY <1>1, <1>2 DEF CallsInv
    <2>2. LifeInv' /\ StageOrder'
      BY <1>1 DEF LifeInv, StageOrder, Member, Position
    <2> QED
      BY <2>1, <2>2
  <1>4. JoinInv'
    BY <1>1 DEF JoinInv, InJoin
  <1>5. \A c \in Callers : least'[c] <= writeCursor
    BY <1>1, <1>2 DEF BoundInv, TypeOK
  <1>6. ScanInv'
    BY <1>1, <1>2 DEF ScanInv, TypeOK, Up!BarrierTypeOK, Stages
  <1>7. PollInv'
    BY <1>1, <1>2 DEF PollInv, Member, AtLeast, TypeOK, Stages
  <1> QED
    BY <1>1, <1>2, <1>3, <1>4, <1>5, <1>6, <1>7

(* What a step of the Load finds, and what it has to leave of StagesInv. *)
LEMMA LoadFacts ==
  ASSUME StagesInv, Registered, RunLoad
  PROVE  /\ writeCursor \in Nat /\ cachedSlowestReader \in Nat
         /\ least[Writer] \in Nat /\ lastMinimum \in Nat /\ loaded \in Nat
         /\ \A p \in Leaf!Paths : minimum[p] \in Nat
         /\ \A u \in active[1] : cursor[1][u] \in Nat
         /\ \A s \in active[2] : s \in Nat /\ cursor[2][s] \in Nat
         /\ \A u \in active[1] :
              cachedSlowestReader <= cursor[1][u] /\ lastMinimum <= cursor[1][u]
         /\ NeedsUpstream =>
              /\ bpc[Writer] = "done" /\ least[Writer] <= writeCursor
              /\ \A u \in active[1] : least[Writer] <= cursor[1][u]
         /\ lpc = "scan" =>
              \A p \in Leaf!Paths : /\ minimum[p] <= writeCursor
                                    /\ \A u \in active[1] : minimum[p] <= cursor[1][u]
  <1>1. /\ TypeOK /\ LifeInv /\ FirstInv /\ ScanInv /\ BoundInv /\ AnswerInv
        /\ active[1] \subseteq Slots
    BY DEF StagesInv, TypeOK, Stages
  <1>2. \A u \in active[1] : Member(1, u) /\ Position(1, u) = cursor[1][u]
    BY <1>1 DEF Member, Position, LifeInv, Stages
  <1>3. /\ writeCursor \in Nat /\ cachedSlowestReader \in Nat
        /\ least[Writer] \in Nat /\ lastMinimum \in Nat /\ loaded \in Nat
        /\ \A p \in Leaf!Paths : minimum[p] \in Nat
        /\ \A u \in active[1] : cursor[1][u] \in Nat
        /\ \A s \in active[2] : s \in Nat /\ cursor[2][s] \in Nat
    BY <1>1, Constants DEF TypeOK, Leaf!BarrierTypeOK, Up!BarrierTypeOK, Stages
  <1>4. NeedsUpstream =>
          /\ bpc[Writer] = "done" /\ least[Writer] <= writeCursor
          /\ \A u \in active[1] : least[Writer] <= cursor[1][u]
    BY <1>1, Constants, ReturnFrame DEF RunLoad, ScanInv, BoundInv
  <1> QED
    BY <1>1, <1>2, <1>3, <1>4 DEF FirstInv, AnswerInv

LEMMA LoadKept ==
  ASSUME StagesInv, Registered, RunLoad, Leaf!BarrierTypeOK',
         lastMinimum' <= writeCursor, AnswerInv',
         \A u \in active[1] :
           /\ lastMinimum' <= cursor[1][u]
           /\ lpc' = "scan" => \A p \in Leaf!Paths : minimum'[p] <= cursor[1][u]
           /\ lpc' = "done" => loaded' <= cursor[1][u]
  PROVE  StagesInv'
  <1>1. /\ UNCHANGED <<writeCursor, cachedSlowestReader, wpc>>
        /\ UNCHANGED <<jpc, late, rpc, upto, active, cursor>>
        /\ Up!BarrierTypeOK' /\ wpc = "load"
        /\ \A c \in Callers : least'[c] <= writeCursor
        /\ CallsInv' /\ LifeInv' /\ JoinInv' /\ ScanInv' /\ StageOrder' /\ PollInv'
    BY LoadFrame DEF writerVars, readerVars
  <1>2. TypeOK'
    BY <1>1 DEF StagesInv, TypeOK
  <1>3. BoundInv'
    BY <1>1 DEF StagesInv, BoundInv
  <1>4. \A u \in Slots :
          Member(1, u) => u \in active[1] /\ Position(1, u) = cursor[1][u]
    BY <1>1, Constants DEF StagesInv, JoinInv, InJoin, Member, Position, TypeOK, Stages
  <1>5. FirstInv'
    BY <1>1, <1>4 DEF StagesInv, FirstInv, Member, Position
  <1> QED
    BY <1>1, <1>2, <1>3, <1>5 DEF StagesInv

(* One iteration of the scan: no accumulator grows, and the slot's is not  *)
(* left above its cursor.                                                  *)
LEMMA ScanStep ==
  ASSUME StagesInv, Leaf!ScanSlot
  PROVE  \E s \in todo, p \in Leaf!Paths :
           /\ s \in Slots /\ todo' = todo \ {s}
           /\ minimum' \in [Leaf!Paths -> Nat] /\ gating' \in [Leaf!Paths -> Slots]
           /\ minimum'[p] <= cursor[2][s]
           /\ \A q \in Leaf!Paths :
                /\ minimum'[q] <= minimum[q]
                /\ minimum'[q] \in {minimum[q], cursor[2][s]}
  <1>1. /\ minimum \in [Leaf!Paths -> Nat] /\ gating \in [Leaf!Paths -> Slots]
        /\ todo \subseteq Slots /\ cursor[2] \in [Slots -> Nat]
    BY Constants DEF StagesInv, TypeOK, Leaf!BarrierTypeOK, Stages
  <1>2. PICK s \in todo, p \in Leaf!Paths :
          /\ todo' = todo \ {s}
          /\ IF cursor[2][s] < minimum[p]
             THEN /\ minimum' = [minimum EXCEPT ![p] = cursor[2][s]]
                  /\ gating' = [gating EXCEPT ![p] = s]
             ELSE UNCHANGED <<minimum, gating>>
    BY DEF Leaf!ScanSlot, Leaf!Path, Leaf!Paths
  <1>3. s \in Slots /\ cursor[2][s] \in Nat
    BY <1>1
  <1>4. CASE cursor[2][s] < minimum[p]
    BY <1>1, <1>2, <1>3, <1>4
  <1>5. CASE ~(cursor[2][s] < minimum[p])
    BY <1>1, <1>2, <1>3, <1>5
  <1> QED
    BY <1>4, <1>5

(* The writer's Load of stage 2. *)
LEMMA LoadStages ==
  ASSUME StagesInv, Registered, RunLoad
  PROVE  StagesInv'
  <1>1. /\ writeCursor \in Nat /\ lastMinimum \in Nat /\ loaded \in Nat
        /\ \A p \in Leaf!Paths : minimum[p] \in Nat
        /\ \A u \in active[1] : cursor[1][u] \in Nat
        /\ least[Writer] \in Nat
        /\ \A u \in active[1] : lastMinimum <= cursor[1][u]
        /\ NeedsUpstream =>
             /\ bpc[Writer] = "done" /\ least[Writer] <= writeCursor
             /\ \A u \in active[1] : least[Writer] <= cursor[1][u]
        /\ lpc = "scan" =>
             \A p \in Leaf!Paths : /\ minimum[p] <= writeCursor
                                   /\ \A u \in active[1] : minimum[p] <= cursor[1][u]
    BY LoadFacts
  <1>2. /\ UNCHANGED <<writeCursor, active, cursor>>
        /\ least'[Writer] \in Nat
    BY LoadFrame, Constants DEF writerVars, readerVars, Up!BarrierTypeOK
  <1>3. Leaf!BarrierTypeOK /\ lastMinimum <= writeCursor /\ AnswerInv
    BY DEF StagesInv, TypeOK, BoundInv
  <1>4. CASE Leaf!LoadBitmap1
    <2>1. Leaf!BarrierTypeOK'
      BY <1>2, <1>3, <1>4, Constants
      DEF Leaf!LoadBitmap1, Leaf!cacheVars, Leaf!scanVars, Leaf!BarrierTypeOK
    <2> QED
      BY <1>1, <1>2, <1>3, <1>4, <2>1, LoadKept
      DEF Leaf!LoadBitmap1, Leaf!cacheVars, AnswerInv
  <1>5. CASE Leaf!LoadUpstream
    <2>1. Leaf!BarrierTypeOK'
      BY <1>1, <1>2, <1>3, <1>5, Constants
      DEF Leaf!LoadUpstream, Leaf!cacheVars, Leaf!scanVars, Leaf!BarrierTypeOK
    <2> QED
      BY <1>1, <1>2, <1>3, <1>5, <2>1, LoadKept
      DEF Leaf!LoadUpstream, Leaf!cacheVars, AnswerInv, NeedsUpstream
  <1>6. CASE Leaf!GateHit
    <2>1. Leaf!BarrierTypeOK'
      BY <1>1, <1>2, <1>3, <1>6, Constants
      DEF Leaf!GateHit, Leaf!cacheVars, Leaf!scanVars, Leaf!BarrierTypeOK
    <2> QED
      BY <1>1, <1>2, <1>3, <1>6, <2>1, LoadKept
      DEF Leaf!GateHit, Leaf!cacheVars, AnswerInv
  <1>7. CASE Leaf!GateMiss
    <2>1. Leaf!BarrierTypeOK'
      BY <1>1, <1>2, <1>3, <1>7, Constants
      DEF Leaf!GateMiss, Leaf!cacheVars, Leaf!scanVars, Leaf!BarrierTypeOK
    <2> QED
      BY <1>1, <1>2, <1>3, <1>7, <2>1, LoadKept
      DEF Leaf!GateMiss, Leaf!cacheVars, AnswerInv
  <1>8. CASE Leaf!ScanMax
    <2>1. Leaf!BarrierTypeOK'
      BY <1>1, <1>2, <1>3, <1>8, Constants
      DEF Leaf!ScanMax, Leaf!cacheVars, Leaf!BarrierTypeOK
    <2> QED
      BY <1>1, <1>2, <1>3, <1>8, <2>1, LoadKept
      DEF Leaf!ScanMax, Leaf!cacheVars, AnswerInv, NeedsUpstream
  <1>9. CASE Leaf!ScanSlot
    <2>1. PICK s \in todo, p \in Leaf!Paths :
            /\ s \in Slots /\ todo' = todo \ {s}
            /\ minimum' \in [Leaf!Paths -> Nat] /\ gating' \in [Leaf!Paths -> Slots]
            /\ minimum'[p] <= cursor[2][s]
            /\ \A q \in Leaf!Paths :
                 /\ minimum'[q] <= minimum[q]
                 /\ minimum'[q] \in {minimum[q], cursor[2][s]}
      BY <1>9, ScanStep
    <2>2. lpc = "scan" /\ UNCHANGED <<lastMinimum, lastBitmap, gatingSlot, lpc, bitmap, loaded>>
      BY <1>9 DEF Leaf!ScanSlot, Leaf!cacheVars
    <2>3. Leaf!BarrierTypeOK'
      BY <1>2, <1>3, <2>1, <2>2, Constants DEF Leaf!BarrierTypeOK
    <2>4. \A q \in Leaf!Paths :
            /\ minimum'[q] <= writeCursor
            /\ \A u \in active[1] : minimum'[q] <= cursor[1][u]
      BY <1>1, <2>1, <2>2
    <2>5. AnswerInv'
      BY <1>2, <2>2, <2>4 DEF AnswerInv
    <2> QED
      BY <1>1, <1>3, <2>2, <2>3, <2>4, <2>5, LoadKept
  <1>10. CASE Leaf!ScanDone
    <2> DEFINE best == IF minimum["B"] < minimum["A"] THEN "B" ELSE "A"
    <2>1. /\ lpc = "scan" /\ lpc' = "done" /\ best \in Leaf!Paths
          /\ lastMinimum' = minimum[best] /\ loaded' = minimum[best]
      BY <1>10 DEF Leaf!ScanDone, Leaf!Paths
    <2>2. Leaf!BarrierTypeOK'
      BY <1>1, <1>2, <1>3, <1>10, <2>1, Constants
      DEF Leaf!ScanDone, Leaf!scanVars, Leaf!BarrierTypeOK
    <2> HIDE DEF best
    <2>3. AnswerInv'
      BY <1>1, <1>2, <2>1 DEF AnswerInv
    <2> QED
      BY <1>1, <2>1, <2>2, <2>3, LoadKept
  <1> QED
    BY <1>4, <1>5, <1>6, <1>7, <1>8, <1>9, <1>10 DEF RunLoad, Leaf!LoadStep

-----------------------------------------------------------------------------
(* What an assignment to one reader's variables does. *)
RpcSet == {"free", "wait", "poll", "load", "read"}

LEMMA UpdatePc ==
  ASSUME NEW f \in [Stages -> [Slots -> RpcSet]], NEW k \in Stages, NEW s \in Slots,
         NEW v \in RpcSet, NEW g, g = [f EXCEPT ![k][s] = v]
  PROVE  /\ g \in [Stages -> [Slots -> RpcSet]]
         /\ g[k][s] = v
         /\ \A j \in Stages, t \in Slots : j # k \/ t # s => g[j][t] = f[j][t]
  OBVIOUS

LEMMA UpdateNat ==
  ASSUME NEW f \in [Stages -> [Slots -> Nat]], NEW k \in Stages, NEW s \in Slots,
         NEW v \in Nat, NEW g, g = [f EXCEPT ![k][s] = v]
  PROVE  /\ g \in [Stages -> [Slots -> Nat]]
         /\ g[k][s] = v
         /\ \A j \in Stages, t \in Slots : j # k \/ t # s => g[j][t] = f[j][t]
  OBVIOUS

(* AtLeast of a position in the next state. *)
AtLeastNext(c, position) ==
  /\ bpc'[c] \in {"word1", "max"} => \A t \in bits'[c] : position <= cursor'[1][t]
  /\ bpc'[c] = "scan" =>
       position <= least'[c] /\ \A t \in left'[c] : position <= cursor'[1][t]
  /\ bpc'[c] = "done" => position <= least'[c]

(* A call goes on undisturbed while the cursors it reads grow. *)
LEMMA AtLeastKept ==
  ASSUME TypeOK, NEW c \in Callers, Same(c), NEW position \in Nat, AtLeast(c, position),
         \A u \in Slots : cursor'[1][u] \in Nat /\ cursor[1][u] <= cursor'[1][u]
  PROVE  AtLeastNext(c, position)
  <1>1. /\ bits[c] \subseteq Slots /\ left[c] \subseteq Slots
        /\ \A u \in Slots : cursor[1][u] \in Nat
    BY Constants DEF TypeOK, Up!BarrierTypeOK, Stages
  <1>2. ASSUME NEW u \in Slots, position <= cursor[1][u] PROVE position <= cursor'[1][u]
    BY <1>1, <1>2
  <1> QED
    BY <1>1, <1>2 DEF AtLeast, AtLeastNext, Same

(* What a reader or an AddReader is given as its upstream position. *)
LEMMA UpstreamGives ==
  ASSUME StagesInv, NEW k \in Stages, NEW s \in Slots, NEW position \in Positions,
         Upstream(k, s, position)
  PROVE  /\ position \in Nat /\ position <= writeCursor
         /\ k = 2 => \A u \in active[1] : position <= cursor[1][u]
         /\ Up!BarrierTypeOK'
         /\ k = 2 => /\ bpc[s] = "done" /\ position = least[s]
                     /\ bpc'[s] = "idle" /\ least'[s] = 0
         /\ \A c \in Callers : k = 1 \/ c # s => Same(c)
  <1> USE Constants DEF StagesInv, Stages, Same
  <1>1. CASE k = 1
    BY <1>1 DEF Upstream, upVars, TypeOK, Up!BarrierTypeOK, BoundInv
  <1>2. CASE k = 2
    <2>1. Up!Return(s) /\ position = least[s]
      BY <1>2 DEF Upstream
    <2>2. /\ position \in Nat /\ position <= writeCursor
          /\ \A u \in active[1] : position <= cursor[1][u]
      BY <2>1, ReturnFrame DEF TypeOK, Up!BarrierTypeOK, BoundInv, ScanInv
    <2> QED
      BY <1>2, <2>1, <2>2, ReturnFrame
  <1> QED
    BY <1>1, <1>2

(* The load of a position by an AddReader. *)
LEMMA JoinLoadFrame ==
  ASSUME StagesInv, NEW k \in Stages, NEW s \in Slots, JoinLoad(k, s)
  PROVE  \E position \in Nat :
           /\ position <= writeCursor
           /\ k = 2 => \A u \in active[1] : position <= cursor[1][u]
           /\ k = 2 => /\ bpc[s] = "done" /\ position = least[s]
                       /\ bpc'[s] = "idle" /\ least'[s] = 0
           /\ \A c \in Callers : k = 1 \/ c # s => Same(c)
           /\ UNCHANGED <<others, late, rpc, active, cursor>>
           /\ TypeOK'
           /\ jpc[k][s] = "ask" /\ jpc'[k][s] = "loaded" /\ upto'[k][s] = position
           /\ \A j \in Stages, t \in Slots : j # k \/ t # s =>
                jpc'[j][t] = jpc[j][t] /\ upto'[j][t] = upto[j][t]
  <1> USE DEF StagesInv
  <1>1. PICK position \in Positions :
          /\ Upstream(k, s, position)
          /\ jpc[k][s] = "ask" /\ jpc' = [jpc EXCEPT ![k][s] = "loaded"]
          /\ upto' = [upto EXCEPT ![k][s] = position]
          /\ UNCHANGED <<others, late, rpc, active, cursor>>
    BY DEF JoinLoad, SetJoin
  <1>2. /\ position \in Nat /\ position <= writeCursor
        /\ k = 2 => \A u \in active[1] : position <= cursor[1][u]
        /\ Up!BarrierTypeOK'
        /\ k = 2 => /\ bpc[s] = "done" /\ position = least[s]
                    /\ bpc'[s] = "idle" /\ least'[s] = 0
        /\ \A c \in Callers : k = 1 \/ c # s => Same(c)
    BY <1>1, UpstreamGives
  <1>3. least'[Writer] \in Nat
    BY <1>2, Constants DEF Up!BarrierTypeOK
  <1>4. TypeOK'
    BY <1>1, <1>2, <1>3, Constants
    DEF TypeOK, Leaf!BarrierTypeOK, others, writerVars, leafVars
  <1>5. /\ jpc'[k][s] = "loaded" /\ upto'[k][s] = position
        /\ \A j \in Stages, t \in Slots :
             j # k \/ t # s => jpc'[j][t] = jpc[j][t] /\ upto'[j][t] = upto[j][t]
    BY <1>1, <1>2 DEF TypeOK
  <1> QED
    BY <1>1, <1>2, <1>4, <1>5

(* The load of a position by a reader. *)
LEMMA ReaderLoadFrame ==
  ASSUME StagesInv, NEW k \in Stages, NEW s \in Slots, ReaderLoad(k, s)
  PROVE  \E position \in Nat :
           /\ position <= writeCursor
           /\ k = 2 => \A u \in active[1] : position <= cursor[1][u]
           /\ k = 2 => /\ bpc[s] = "done" /\ position = least[s]
                       /\ bpc'[s] = "idle" /\ least'[s] = 0
           /\ \A c \in Callers : k = 1 \/ c # s => Same(c)
           /\ UNCHANGED <<others, jpc, late, active, cursor>>
           /\ TypeOK'
           /\ rpc[k][s] = "load"
           /\ \/ rpc'[k][s] = "read" /\ upto'[k][s] = position
              \/ rpc'[k][s] = "poll" /\ upto'[k][s] = upto[k][s]
           /\ \A j \in Stages, t \in Slots : j # k \/ t # s =>
                rpc'[j][t] = rpc[j][t] /\ upto'[j][t] = upto[j][t]
  <1> USE DEF StagesInv
  <1>1. PICK position \in Positions :
          /\ Upstream(k, s, position)
          /\ rpc[k][s] = "load"
          /\ IF cursor[k][s] < position
             THEN /\ rpc' = [rpc EXCEPT ![k][s] = "read"]
                  /\ upto' = [upto EXCEPT ![k][s] = position]
             ELSE rpc' = [rpc EXCEPT ![k][s] = "poll"] /\ UNCHANGED upto
          /\ UNCHANGED <<others, jpc, late, active, cursor>>
    BY DEF ReaderLoad
  <1>2. /\ position \in Nat /\ position <= writeCursor
        /\ k = 2 => \A u \in active[1] : position <= cursor[1][u]
        /\ Up!BarrierTypeOK'
        /\ k = 2 => /\ bpc[s] = "done" /\ position = least[s]
                    /\ bpc'[s] = "idle" /\ least'[s] = 0
        /\ \A c \in Callers : k = 1 \/ c # s => Same(c)
    BY <1>1, UpstreamGives
  <1>3. least'[Writer] \in Nat
    BY <1>2, Constants DEF Up!BarrierTypeOK
  <1>4. /\ rpc' \in [Stages -> [Slots -> RpcSet]]
        /\ upto' \in [Stages -> [Slots -> Nat]]
        /\ \/ rpc'[k][s] = "read" /\ upto'[k][s] = position
           \/ rpc'[k][s] = "poll" /\ upto'[k][s] = upto[k][s]
        /\ \A j \in Stages, t \in Slots :
             j # k \/ t # s => rpc'[j][t] = rpc[j][t] /\ upto'[j][t] = upto[j][t]
    <2>1. /\ rpc \in [Stages -> [Slots -> RpcSet]]
          /\ upto \in [Stages -> [Slots -> Nat]]
      BY DEF TypeOK, RpcSet
    <2>2. CASE cursor[k][s] < position
      <3>1. rpc' = [rpc EXCEPT ![k][s] = "read"] /\ upto' = [upto EXCEPT ![k][s] = position]
        BY <1>1, <2>2
      <3> QED
        BY <1>2, <2>1, <3>1, UpdatePc, UpdateNat DEF RpcSet
    <2>3. CASE ~(cursor[k][s] < position)
      <3>1. rpc' = [rpc EXCEPT ![k][s] = "poll"] /\ upto' = upto
        BY <1>1, <2>3
      <3> QED
        BY <2>1, <3>1, UpdatePc DEF RpcSet
    <2> QED
      BY <2>2, <2>3
  <1>5. TypeOK'
    BY <1>1, <1>2, <1>3, <1>4, Constants
    DEF TypeOK, RpcSet, Leaf!BarrierTypeOK, others, writerVars, leafVars
  <1> QED
    BY <1>1, <1>2, <1>4, <1>5

(* The store of a cursor by a reader. *)
LEMMA ReaderAdvanceFrame ==
  ASSUME StagesInv, NEW k \in Stages, NEW s \in Slots, ReaderAdvance(k, s)
  PROVE  /\ rpc[k][s] = "read" /\ UNCHANGED <<others, jpc, late, active, upVars>>
         /\ TypeOK'
         /\ cursor'[k][s] <= upto[k][s]
         /\ \/ rpc'[k][s] = "read" /\ upto'[k][s] = upto[k][s]
            \/ rpc'[k][s] = "poll" /\ upto'[k][s] = 0
         /\ \A j \in Stages, t \in Slots : j # k \/ t # s =>
              /\ rpc'[j][t] = rpc[j][t] /\ upto'[j][t] = upto[j][t]
              /\ cursor'[j][t] = cursor[j][t]
         /\ \A j \in Stages, t \in Slots :
              /\ cursor[j][t] \in Nat /\ cursor'[j][t] \in Nat
              /\ cursor[j][t] <= cursor'[j][t]
  <1> USE DEF StagesInv
  <1>1. PICK q \in cursor[k][s] + 1 .. upto[k][s] :
          /\ cursor' = [cursor EXCEPT ![k][s] = q]
          /\ IF q = upto[k][s]
             THEN /\ rpc' = [rpc EXCEPT ![k][s] = "poll"]
                  /\ upto' = [upto EXCEPT ![k][s] = 0]
             ELSE UNCHANGED <<rpc, upto>>
    BY DEF ReaderAdvance
  <1>2. rpc[k][s] = "read" /\ UNCHANGED <<others, jpc, late, active, upVars>>
    BY DEF ReaderAdvance
  <1>3. /\ cursor[k][s] \in Nat /\ upto[k][s] \in Nat /\ q \in Nat
        /\ cursor[k][s] <= q /\ q <= upto[k][s]
    BY <1>1 DEF TypeOK
  <1>4. /\ rpc' \in [Stages -> [Slots -> RpcSet]]
        /\ upto' \in [Stages -> [Slots -> Nat]]
        /\ cursor' \in [Stages -> [Slots -> Nat]]
        /\ cursor'[k][s] = q
        /\ \/ rpc'[k][s] = "read" /\ upto'[k][s] = upto[k][s]
           \/ rpc'[k][s] = "poll" /\ upto'[k][s] = 0
        /\ \A j \in Stages, t \in Slots : j # k \/ t # s =>
             /\ rpc'[j][t] = rpc[j][t] /\ upto'[j][t] = upto[j][t]
             /\ cursor'[j][t] = cursor[j][t]
    <2>1. /\ rpc \in [Stages -> [Slots -> RpcSet]]
          /\ upto \in [Stages -> [Slots -> Nat]]
          /\ cursor \in [Stages -> [Slots -> Nat]]
      BY DEF TypeOK, RpcSet
    <2>2. CASE q = upto[k][s]
      <3>1. rpc' = [rpc EXCEPT ![k][s] = "poll"] /\ upto' = [upto EXCEPT ![k][s] = 0]
        BY <1>1, <2>2
      <3> QED
        BY <1>1, <1>3, <2>1, <3>1, UpdatePc, UpdateNat DEF RpcSet
    <2>3. CASE q # upto[k][s]
      <3>1. rpc' = rpc /\ upto' = upto
        BY <1>1, <2>3
      <3> QED
        BY <1>1, <1>2, <1>3, <2>1, <3>1, UpdateNat
    <2> QED
      BY <2>2, <2>3
  <1>5. TypeOK'
    BY <1>2, <1>4, Constants
    DEF TypeOK, RpcSet, Leaf!BarrierTypeOK, Up!BarrierTypeOK, Stages,
        others, writerVars, leafVars, upVars
  <1>6. \A j \in Stages, t \in Slots :
          /\ cursor[j][t] \in Nat /\ cursor'[j][t] \in Nat
          /\ cursor[j][t] <= cursor'[j][t]
    <2> TAKE j \in Stages, t \in Slots
    <2>1. cursor[j][t] \in Nat /\ cursor'[j][t] \in Nat
      BY <1>5 DEF TypeOK
    <2>2. \/ cursor'[j][t] = cursor[j][t]
          \/ j = k /\ t = s /\ cursor[j][t] = cursor[k][s] /\ cursor'[j][t] = q
      BY <1>4
    <2> QED
      BY <1>3, <2>1, <2>2
  <1> QED
    BY <1>2, <1>3, <1>4, <1>5, <1>6

(* RemoveReader, and the end of the reader function.                       *)
LEMMA LeaveFrame ==
  ASSUME StagesInv, NEW k \in Stages, NEW s \in Slots, Remove(k, s) \/ ReaderReturn(k, s)
  PROVE  /\ UNCHANGED <<others, upto, cursor, upVars>> /\ TypeOK'
         /\ \A j \in Stages : active'[j] \subseteq active[j]
         /\ \A j \in Stages, t \in Slots : j # k \/ t # s =>
              /\ rpc'[j][t] = rpc[j][t] /\ jpc'[j][t] = jpc[j][t]
              /\ late'[j][t] = late[j][t]
              /\ t \in active'[j] <=> t \in active[j]
         /\ jpc[k][s] \notin {"ask", "loaded"} /\ jpc'[k][s] \in {"none", "removed"}
         /\ jpc[k][s] # "stored" => late'[k][s] = late[k][s]
         /\ rpc'[k][s] = rpc[k][s] \/ (rpc[k][s] = "poll" /\ rpc'[k][s] = "free")
         /\ rpc'[k][s] = "free" => jpc'[k][s] = "none"
  <1> USE Constants
      DEF StagesInv, TypeOK, Leaf!BarrierTypeOK, Up!BarrierTypeOK, Stages,
          writerVars, leafVars, upVars, others
  <1>1. CASE Remove(k, s)
    <2>1. TypeOK'
      BY <1>1 DEF Remove
    <2> QED
      BY <1>1, <2>1 DEF Remove
  <1>2. CASE ReaderReturn(k, s)
    <2>1. TypeOK'
      <3>1. late' \in [Stages -> [Slots -> Nat]]
        <4>1. late' = late \/ late' = [late EXCEPT ![k][s] = late[k][s] + 1]
          BY <1>2 DEF ReaderReturn
        <4>2. late \in [Stages -> [Slots -> Nat]] /\ late[k][s] + 1 \in Nat
          OBVIOUS
        <4> HIDE DEF StagesInv, Stages
        <4> QED
          BY <4>1, <4>2, UpdateNat
      <3>2. /\ jpc' \in [Stages -> [Slots -> {"none", "removed"} \cup Joining]]
            /\ rpc' \in [Stages -> [Slots -> {"free", "wait", "poll", "load", "read"}]]
        BY <1>2 DEF ReaderReturn, SetPc
      <3>3. active' \in [Stages -> SUBSET Slots]
        BY <1>2 DEF ReaderReturn
      <3> QED
        BY <1>2, <3>1, <3>2, <3>3 DEF ReaderReturn
    <2>2. jpc[k][s] \notin {"ask", "loaded"}
      BY <1>2 DEF ReaderReturn, SetPc, LifeInv
    <2> QED
      BY <1>2, <2>1, <2>2 DEF ReaderReturn, SetPc
  <1> QED
    BY <1>1, <1>2

LEMMA LeaveStages ==
  ASSUME StagesInv, Registered, NEW k \in Stages, NEW s \in Slots,
         Remove(k, s) \/ ReaderReturn(k, s)
  PROVE  StagesInv'
  <1>1. /\ UNCHANGED <<others, upto, cursor, upVars>> /\ TypeOK'
        /\ \A j \in Stages : active'[j] \subseteq active[j]
        /\ \A j \in Stages, t \in Slots : j # k \/ t # s =>
             /\ rpc'[j][t] = rpc[j][t] /\ jpc'[j][t] = jpc[j][t]
             /\ late'[j][t] = late[j][t]
             /\ t \in active'[j] <=> t \in active[j]
        /\ jpc[k][s] \notin {"ask", "loaded"} /\ jpc'[k][s] \in {"none", "removed"}
        /\ jpc[k][s] # "stored" => late'[k][s] = late[k][s]
        /\ rpc'[k][s] = rpc[k][s] \/ (rpc[k][s] = "poll" /\ rpc'[k][s] = "free")
        /\ rpc'[k][s] = "free" => jpc'[k][s] = "none"
    BY LeaveFrame
  <1> USE DEF StagesInv, others, writerVars, leafVars, upVars
  <1>2. ASSUME NEW j \in Stages, NEW t \in Slots, Member(j, t)'
        PROVE  Member(j, t) /\ Position(j, t)' = Position(j, t)
    <2>1. CASE j = k /\ t = s
      BY <1>1, <1>2, <2>1 DEF Member, Position
    <2>2. CASE j # k \/ t # s
      <3>1. jpc'[j][t] = jpc[j][t] /\ (Pending(j, t)' <=> Pending(j, t))
        BY <1>1, <2>2
      <3> QED
        BY <1>1, <1>2, <3>1 DEF Member, Position
    <2> QED
      BY <2>1, <2>2
  <1>3. CallsInv'
    BY <1>1 DEF CallsInv, NeedsUpstream, Stages
  <1>4. LifeInv'
    <2> SUFFICES ASSUME NEW j \in Stages, NEW t \in Slots
                 PROVE  /\ jpc'[j][t] \in {"ask", "loaded"} => rpc'[j][t] = "wait"
                        /\ rpc'[j][t] = "free" => jpc'[j][t] = "none"
                        /\ jpc'[j][t] = "loaded" /\ Pending(j, t)' => cursor[j][t] <= upto[j][t]
      BY <1>1 DEF LifeInv
    <2>1. CASE j = k /\ t = s
      BY <1>1, <2>1
    <2>2. CASE j # k \/ t # s
      BY <1>1, <2>2 DEF LifeInv
    <2> QED
      BY <2>1, <2>2
  <1>5. JoinInv'
    BY DEF JoinInv, Registered
  <1>6. BoundInv' /\ AnswerInv'
    BY <1>1 DEF BoundInv, AnswerInv
  <1>7. ScanInv'
    BY <1>1 DEF ScanInv, Stages
  <1>8. StageOrder'
    <2>1. \A d \in Slots :
            /\ rpc'[2][d] = "read" => rpc[2][d] = "read"
            /\ jpc'[2][d] = "loaded" => jpc[2][d] = "loaded"
      BY <1>1 DEF Stages
    <2> QED
      BY <1>1, <1>2, <2>1 DEF StageOrder, Stages
  <1>9. PollInv'
    <2>1. \A t \in Slots :
            /\ rpc'[2][t] = "load" => rpc[2][t] = "load"
            /\ jpc'[2][t] = "ask" => jpc[2][t] = "ask"
      BY <1>1 DEF Stages
    <2> QED
      BY <1>1, <1>2, <2>1 DEF PollInv, AtLeast, Stages
  <1>10. FirstInv'
    BY <1>1, <1>2 DEF FirstInv, Stages
  <1> QED
    BY <1>1, <1>3, <1>4, <1>5, <1>6, <1>7, <1>8, <1>9, <1>10

(* The late store of AddReader makes no member and moves none; in stage 1  *)
(* it is over before there is anything to read.                            *)
LEMMA LateActivateStages ==
  ASSUME StagesInv, Registered, NEW k \in Stages, NEW s \in Slots, LateActivate(k, s)
  PROVE  StagesInv'
  <1>1. /\ UNCHANGED <<others, jpc, rpc, upto, cursor, upVars>>
        /\ late' = [late EXCEPT ![k][s] = @ - 1] /\ late[k][s] > 0
        /\ active' = [active EXCEPT ![k] = @ \cup {s}]
    BY DEF LateActivate
  <1> USE DEF StagesInv, others, writerVars, leafVars, upVars
  <1>2. TypeOK'
    BY <1>1 DEF TypeOK, Leaf!BarrierTypeOK, Up!BarrierTypeOK, Stages
  <1>3. ASSUME NEW j \in Stages, NEW t \in Slots
        PROVE  /\ Pending(j, t)' => Pending(j, t)
               /\ Member(j, t)' => Member(j, t) /\ Position(j, t)' = Position(j, t)
    <2>1. CASE j = k /\ t = s
      BY <1>1, <2>1 DEF TypeOK, Member, Position
    <2>2. CASE j # k \/ t # s
      <3>1. late'[j][t] = late[j][t] /\ (t \in active'[j] <=> t \in active[j])
        BY <1>1, <2>2 DEF TypeOK
      <3> QED
        BY <1>1, <3>1 DEF Member, Position
    <2> QED
      BY <2>1, <2>2
  <1>4. CallsInv' /\ JoinInv' /\ BoundInv' /\ AnswerInv'
    BY <1>1 DEF CallsInv, NeedsUpstream, JoinInv, Registered, BoundInv, AnswerInv
  <1>5. LifeInv'
    BY <1>1, <1>3 DEF LifeInv
  <1>6. PollInv'
    BY <1>1, <1>3 DEF PollInv, AtLeast, Stages
  <1>7. FirstInv'
    BY <1>1, <1>3 DEF FirstInv, Stages
  <1>8. CASE k = 1
    <2>1. writeCursor = 0 /\ wpc = "idle" /\ \A t \in Slots : rpc[2][t] = "free"
      BY <1>1, <1>8 DEF JoinInv, InJoin
    <2>2. \A c \in Callers : bpc'[c] = "idle"
      BY <1>1, <2>1, Constants DEF CallsInv, LifeInv, NeedsUpstream, Stages
    <2>3. ScanInv'
      BY <2>2 DEF ScanInv
    <2>4. \A j \in Stages, t \in Slots : /\ cursor'[j][t] = 0 /\ upto'[j][t] = 0
      BY <1>1, <2>1 DEF BoundInv, TypeOK
    <2>5. \A j \in Stages, t \in Slots : Position(j, t)' = 0
      BY <2>4 DEF Position
    <2>6. active'[1] \subseteq Slots
      BY <1>2 DEF TypeOK, Stages
    <2>7. StageOrder'
      BY <2>4, <2>5, <2>6 DEF StageOrder, Stages
    <2> QED
      BY <1>2, <1>4, <1>5, <1>6, <1>7, <2>3, <2>7
  <1>9. CASE k = 2
    <2>1. active'[1] = active[1]
      BY <1>1, <1>9 DEF TypeOK, Stages
    <2>2. ScanInv'
      BY <1>1, <2>1 DEF ScanInv
    <2>3. StageOrder'
      BY <1>1, <1>3, <2>1 DEF StageOrder, Stages
    <2> QED
      BY <1>2, <1>4, <1>5, <1>6, <1>7, <2>2, <2>3
  <1> QED
    BY <1>8, <1>9 DEF Stages

(* AddReader takes a slot, which may still be a member by the bit of its   *)
(* last reader.                                                            *)
LEMMA JoinClaimStages ==
  ASSUME StagesInv, Registered, NEW k \in Stages, NEW s \in Slots, JoinClaim(k, s)
  PROVE  StagesInv'
  <1>1. /\ UNCHANGED <<others, late, upto, active, cursor, upVars>>
        /\ rpc[k][s] = "free" /\ rpc' = [rpc EXCEPT ![k][s] = "wait"]
        /\ jpc[k][s] = "none" /\ jpc' = [jpc EXCEPT ![k][s] = "ask"]
    BY DEF JoinClaim, SetJoin, SetPc
  <1> USE DEF StagesInv, others, writerVars, leafVars, upVars
  <1>2. TypeOK'
    BY <1>1 DEF TypeOK, Leaf!BarrierTypeOK, Up!BarrierTypeOK, Stages
  <1>3. /\ rpc'[k][s] = "wait" /\ jpc'[k][s] = "ask"
        /\ \A j \in Stages, t \in Slots :
             j # k \/ t # s => rpc'[j][t] = rpc[j][t] /\ jpc'[j][t] = jpc[j][t]
    BY <1>1 DEF TypeOK
  <1>4. ASSUME NEW j \in Stages, NEW t \in Slots
        PROVE  (Member(j, t)' <=> Member(j, t)) /\ Position(j, t)' = Position(j, t)
    <2>1. CASE j = k /\ t = s
      BY <1>1, <1>3, <2>1 DEF Member, Position
    <2>2. CASE j # k \/ t # s
      <3>1. jpc'[j][t] = jpc[j][t]
        BY <1>3, <2>2
      <3> QED
        BY <1>1, <3>1 DEF Member, Position
    <2> QED
      BY <2>1, <2>2
  <1>5. CallsInv'
    <2>1. \A t \in Slots : /\ jpc[2][t] = "ask" => jpc'[2][t] = "ask"
                           /\ rpc[2][t] = "load" => rpc'[2][t] = "load"
      BY <1>1, <1>3 DEF Stages
    <2> QED
      BY <1>1, <2>1 DEF CallsInv, NeedsUpstream
  <1>6. LifeInv'
    <2> SUFFICES ASSUME NEW j \in Stages, NEW t \in Slots
                 PROVE  /\ jpc'[j][t] \in {"ask", "loaded"} => rpc'[j][t] = "wait"
                        /\ rpc'[j][t] = "free" => jpc'[j][t] = "none"
                        /\ jpc'[j][t] = "loaded" /\ Pending(j, t) => cursor[j][t] <= upto[j][t]
      BY <1>1 DEF LifeInv
    <2>1. CASE j = k /\ t = s
      BY <1>3, <2>1
    <2>2. CASE j # k \/ t # s
      BY <1>3, <2>2 DEF LifeInv
    <2> QED
      BY <2>1, <2>2
  <1>7. JoinInv'
    BY DEF JoinInv, Registered
  <1>8. BoundInv' /\ ScanInv' /\ AnswerInv'
    BY <1>1 DEF BoundInv, ScanInv, AnswerInv
  <1>9. StageOrder'
    <2>1. \A d \in Slots : /\ rpc'[2][d] = "read" => rpc[2][d] = "read"
                           /\ jpc'[2][d] = "loaded" => jpc[2][d] = "loaded"
      BY <1>3 DEF Stages
    <2> QED
      BY <1>1, <1>4, <2>1 DEF StageOrder, Stages
  <1>10. PollInv'
    <2> SUFFICES ASSUME NEW t \in Slots, Member(2, t)',
                        rpc'[2][t] = "load" \/ jpc'[2][t] = "ask"
                 PROVE  AtLeast(t, cursor[2][t])'
      BY <1>1 DEF PollInv
    <2>1. CASE k = 2 /\ t = s
      <3>1. bpc[t] = "idle"
        BY <1>1, <2>1 DEF CallsInv
      <3> QED
        BY <1>1, <3>1 DEF AtLeast
    <2>2. CASE k # 2 \/ t # s
      <3>1. Member(2, t) /\ (rpc[2][t] = "load" \/ jpc[2][t] = "ask")
        BY <1>3, <1>4, <2>2 DEF Stages
      <3> QED
        BY <1>1, <3>1 DEF PollInv, AtLeast
    <2> QED
      BY <2>1, <2>2
  <1>11. FirstInv'
    BY <1>1, <1>4 DEF FirstInv, Stages
  <1> QED
    BY <1>2, <1>5, <1>6, <1>7, <1>8, <1>9, <1>10, <1>11

(* The steps of AddReader and the readers that load no position and move   *)
(* no reader on.                                                           *)
LEMMA ReaderStages ==
  ASSUME StagesInv, Registered, NEW k \in Stages, NEW s \in Slots,
         JoinActivate(k, s) \/ ReaderStart(k, s) \/ ReaderPoll(k, s)
  PROVE  StagesInv'
  <1> USE Constants
      DEF writerVars, readerVars, leafVars, upVars, others,
          StagesInv, TypeOK, Leaf!BarrierTypeOK, Up!BarrierTypeOK, CallsInv,
          LifeInv, JoinInv, InJoin, Registered, BoundInv, HasRoom, ScanInv, StageOrder,
          Member, Position, PollInv, AtLeast, FirstInv, AnswerInv, Stages,
          NeedsUpstream, Leaf!Paths
  <1>1. CASE JoinActivate(k, s)
    <2>1. CASE k = 1
      BY <1>1, <2>1 DEF JoinActivate, SetJoin
    <2>2. CASE k = 2
      BY <1>1, <2>2 DEF JoinActivate, SetJoin
    <2> QED
      BY <2>1, <2>2
  <1>2. CASE ReaderStart(k, s)
    <2>1. CASE k = 1
      BY <1>2, <2>1 DEF ReaderStart, SetPc
    <2>2. CASE k = 2
      BY <1>2, <2>2 DEF ReaderStart, SetPc
    <2> QED
      BY <2>1, <2>2
  <1>3. CASE ReaderPoll(k, s)
    BY <1>3 DEF ReaderPoll, SetPc
  <1> QED
    BY <1>1, <1>2, <1>3

(* The store of the position by AddReader: in stage 1 it stores 0, in      *)
(* stage 2 what the barrier has answered.                                  *)
LEMMA JoinStoreStages ==
  ASSUME StagesInv, Registered, NEW k \in Stages, NEW s \in Slots, JoinStore(k, s)
  PROVE  StagesInv'
  <1>1. /\ UNCHANGED <<others, late, rpc, active, upVars>>
        /\ jpc[k][s] = "loaded" /\ jpc' = [jpc EXCEPT ![k][s] = "stored"]
        /\ cursor' = [cursor EXCEPT ![k][s] = upto[k][s]]
        /\ upto' = [upto EXCEPT ![k][s] = 0]
    BY DEF JoinStore, SetJoin
  <1> USE DEF StagesInv, others, writerVars, leafVars, upVars
  <1>2. TypeOK'
    BY <1>1 DEF TypeOK, Leaf!BarrierTypeOK, Up!BarrierTypeOK, Stages
  <1>3. /\ jpc'[k][s] = "stored" /\ cursor'[k][s] = upto[k][s] /\ upto'[k][s] = 0
        /\ \A j \in Stages, t \in Slots : j # k \/ t # s =>
             /\ jpc'[j][t] = jpc[j][t] /\ cursor'[j][t] = cursor[j][t]
             /\ upto'[j][t] = upto[j][t]
    BY <1>1 DEF TypeOK
  <1>4. CallsInv' /\ JoinInv' /\ AnswerInv'
    <2>1. \A t \in Slots : jpc[2][t] = "ask" => jpc'[2][t] = "ask"
      BY <1>1, <1>3 DEF Stages
    <2> QED
      BY <1>1, <2>1 DEF CallsInv, NeedsUpstream, JoinInv, Registered, AnswerInv
  <1>5. LifeInv'
    <2> SUFFICES ASSUME NEW j \in Stages, NEW t \in Slots
                 PROVE  /\ jpc'[j][t] \in {"ask", "loaded"} => rpc[j][t] = "wait"
                        /\ rpc[j][t] = "free" => jpc'[j][t] = "none"
                        /\ jpc'[j][t] = "loaded" /\ Pending(j, t) => cursor'[j][t] <= upto'[j][t]
      BY <1>1 DEF LifeInv
    <2>1. CASE j = k /\ t = s
      BY <1>1, <1>3, <2>1 DEF LifeInv
    <2>2. CASE j # k \/ t # s
      BY <1>3, <2>2 DEF LifeInv
    <2> QED
      BY <2>1, <2>2
  <1>6. BoundInv'
    <2>1. \A j \in Stages, t \in Slots :
            cursor'[j][t] <= writeCursor /\ upto'[j][t] <= writeCursor
      <3> TAKE j \in Stages, t \in Slots
      <3>1. 0 <= writeCursor /\ cursor[j][t] <= writeCursor /\ upto[j][t] <= writeCursor
        BY DEF BoundInv, TypeOK
      <3> QED
        BY <1>3, <3>1
    <2> QED
      BY <1>1, <2>1 DEF BoundInv
  <1>7. CASE k = 1
    <2>1. /\ writeCursor = 0 /\ wpc = "idle" /\ lpc = "idle"
          /\ \A t \in Slots : rpc[2][t] = "free"
      BY <1>1, <1>7 DEF JoinInv, InJoin, CallsInv
    <2>2. \A c \in Callers : bpc[c] = "idle"
      BY <2>1, Constants DEF CallsInv, LifeInv, NeedsUpstream, Stages
    <2>3. ScanInv'
      BY <1>1, <2>2 DEF ScanInv
    <2>4. PollInv'
      <3>1. \A t \in Slots : bpc'[t] = "idle"
        BY <1>1, <2>2, Constants
      <3> QED
        BY <3>1 DEF PollInv, AtLeast
    <2>5. \A j \in Stages, t \in Slots : cursor'[j][t] = 0 /\ upto'[j][t] = 0
      BY <1>1, <1>2, <1>6, <2>1 DEF BoundInv, TypeOK
    <2>6. \A j \in Stages, t \in Slots : Position(j, t)' = 0
      BY <2>5 DEF Position
    <2>7. active'[1] \subseteq Slots
      BY <1>2 DEF TypeOK, Stages
    <2>8. StageOrder'
      BY <2>5, <2>6, <2>7 DEF StageOrder, Stages
    <2>9. FirstInv'
      <3>1. cachedSlowestReader <= 0 /\ lastMinimum <= 0
        BY <2>1 DEF BoundInv
      <3> QED
        BY <1>1, <2>1, <2>6, <3>1 DEF FirstInv, Stages
    <2> QED
      BY <1>2, <1>4, <1>5, <1>6, <2>3, <2>4, <2>8, <2>9
  <1>8. CASE k = 2
    <2>1. \A t \in Slots : /\ jpc'[1][t] = jpc[1][t] /\ cursor'[1][t] = cursor[1][t]
                           /\ upto'[1][t] = upto[1][t]
      BY <1>3, <1>8 DEF Stages
    <2>2. ScanInv'
      BY <1>1, <2>1 DEF ScanInv, TypeOK, Up!BarrierTypeOK, Stages
    <2>3. PollInv'
      <3> SUFFICES ASSUME NEW t \in Slots, Member(2, t)',
                          rpc[2][t] = "load" \/ jpc'[2][t] = "ask"
                   PROVE  AtLeast(t, cursor[2][t])'
        BY <1>1 DEF PollInv
      <3>1. t # s
        BY <1>1, <1>3, <1>8 DEF LifeInv
      <3>2. /\ jpc'[2][t] = jpc[2][t] /\ cursor'[2][t] = cursor[2][t]
            /\ cursor[2][t] \in Nat
        BY <1>3, <3>1 DEF TypeOK, Stages
      <3>3. AtLeast(t, cursor[2][t])
        BY <1>1, <3>2 DEF PollInv, Member
      <3>4. /\ Same(t)
            /\ \A u \in Slots : cursor'[1][u] \in Nat /\ cursor[1][u] <= cursor'[1][u]
        BY <1>1, <2>1 DEF Same, TypeOK, Stages
      <3>5. AtLeastNext(t, cursor[2][t])
        BY <3>2, <3>3, <3>4, Constants, AtLeastKept
      <3> QED
        BY <3>2, <3>5 DEF AtLeast, AtLeastNext
    <2>4. StageOrder'
      <3> SUFFICES ASSUME NEW d \in Slots, NEW u \in active[1]
                   PROVE  /\ Member(2, d)' => Position(2, d)' <= cursor[1][u]
                          /\ rpc[2][d] = "read" \/ jpc'[2][d] = "loaded" =>
                               upto'[2][d] <= cursor[1][u]
        BY <1>1, <2>1 DEF StageOrder, TypeOK, Stages
      <3>1. CASE d = s
        <4>1. upto[2][s] <= cursor[1][u] /\ rpc[2][s] = "wait"
          BY <1>1, <1>8, <3>1 DEF StageOrder, LifeInv
        <4> QED
          BY <1>3, <1>8, <3>1, <4>1 DEF Position
      <3>2. CASE d # s
        <4>1. /\ jpc'[2][d] = jpc[2][d] /\ cursor'[2][d] = cursor[2][d]
              /\ upto'[2][d] = upto[2][d]
          BY <1>3, <3>2 DEF Stages
        <4> QED
          BY <1>1, <4>1 DEF StageOrder, Member, Position
      <3> QED
        BY <3>1, <3>2
    <2>5. FirstInv'
      BY <1>1, <2>1 DEF FirstInv, Member, Position
    <2> QED
      BY <1>2, <1>4, <1>5, <1>6, <2>2, <2>3, <2>4, <2>5
  <1> QED
    BY <1>7, <1>8 DEF Stages

LEMMA JoinLoadStages ==
  ASSUME StagesInv, Registered, NEW k \in Stages, NEW s \in Slots, JoinLoad(k, s)
  PROVE  StagesInv'
  <1>1. PICK position \in Nat :
          /\ position <= writeCursor
          /\ k = 2 => \A u \in active[1] : position <= cursor[1][u]
          /\ k = 2 => /\ bpc[s] = "done" /\ position = least[s]
                      /\ bpc'[s] = "idle" /\ least'[s] = 0
          /\ \A c \in Callers : k = 1 \/ c # s => Same(c)
          /\ UNCHANGED <<others, late, rpc, active, cursor>>
          /\ TypeOK'
          /\ jpc[k][s] = "ask" /\ jpc'[k][s] = "loaded" /\ upto'[k][s] = position
          /\ \A j \in Stages, t \in Slots : j # k \/ t # s =>
               jpc'[j][t] = jpc[j][t] /\ upto'[j][t] = upto[j][t]
    BY JoinLoadFrame
  <1> USE Constants DEF StagesInv, others, writerVars, leafVars
  <1>2. CallsInv'
    <2>1. UNCHANGED <<lpc, wpc, rpc>> /\ bpc'[Writer] = bpc[Writer]
      BY <1>1 DEF Same, Callers, Slots
    <2>2. ASSUME NEW t \in Slots, bpc'[t] # "idle"
          PROVE  jpc'[2][t] = "ask" \/ rpc'[2][t] = "load"
      <3>1. bpc[t] # "idle" /\ (k = 1 \/ t # s)
        BY <1>1, <2>2 DEF Same, Stages, Callers, Slots
      <3> QED
        BY <1>1, <2>1, <3>1 DEF CallsInv, Stages
    <2> QED
      BY <2>1, <2>2 DEF CallsInv, NeedsUpstream
  <1>3. LifeInv'
    <2>1. Pending(k, s) => cursor[k][s] <= position
      <3>1. CASE k = 1
        <4>1. writeCursor = 0
          BY <1>1, <3>1 DEF JoinInv, InJoin
        <4>2. cursor[k][s] \in Nat /\ cursor[k][s] <= writeCursor
          BY DEF TypeOK, BoundInv
        <4> QED
          BY <4>1, <4>2
      <3>2. CASE k = 2
        <4>1. ASSUME Pending(k, s) PROVE AtLeast(s, cursor[2][s])
          BY <1>1, <3>2, <4>1 DEF PollInv, Member
        <4> QED
          BY <1>1, <3>2, <4>1 DEF AtLeast
      <3> QED
        BY <3>1, <3>2 DEF Stages
    <2> SUFFICES ASSUME NEW j \in Stages, NEW t \in Slots
                 PROVE  /\ jpc'[j][t] \in {"ask", "loaded"} => rpc[j][t] = "wait"
                        /\ rpc[j][t] = "free" => jpc'[j][t] = "none"
                        /\ jpc'[j][t] = "loaded" /\ Pending(j, t) => cursor[j][t] <= upto'[j][t]
      BY <1>1 DEF LifeInv
    <2>2. CASE j = k /\ t = s
      BY <1>1, <2>1, <2>2 DEF LifeInv
    <2>3. CASE j # k \/ t # s
      <3>1. jpc'[j][t] = jpc[j][t] /\ upto'[j][t] = upto[j][t]
        BY <1>1, <2>3
      <3> QED
        BY <3>1 DEF LifeInv
    <2> QED
      BY <2>2, <2>3
  <1>4. JoinInv'
    BY DEF JoinInv, Registered
  <1>5. BoundInv'
    <2>1. \A c \in Callers : least'[c] = 0 \/ least'[c] = least[c]
      BY <1>1 DEF Same, Stages
    <2>2. \A j \in Stages, t \in Slots : upto'[j][t] <= writeCursor
      BY <1>1 DEF BoundInv
    <2>3. \A c \in Callers : least'[c] <= writeCursor
      <3>1. 0 <= writeCursor
        BY DEF TypeOK
      <3> QED
        BY <2>1, <3>1 DEF BoundInv
    <2>4. UNCHANGED <<writeCursor, cachedSlowestReader, lastMinimum, cursor>>
      BY <1>1
    <2> QED
      BY <2>2, <2>3, <2>4 DEF BoundInv
  <1>6. ScanInv'
    BY <1>1 DEF ScanInv, Same, Stages
  <1>7. StageOrder'
    <2> SUFFICES ASSUME NEW d \in Slots, NEW u \in active[1]
                 PROVE  /\ Member(2, d)' => Position(2, d)' <= cursor[1][u]
                        /\ rpc[2][d] = "read" \/ jpc'[2][d] = "loaded" =>
                             upto'[2][d] <= cursor[1][u]
      BY <1>1 DEF StageOrder
    <2>1. CASE k = 2 /\ d = s
      <3>1. rpc[2][d] = "wait" /\ upto'[2][d] <= cursor[1][u]
        BY <1>1, <2>1 DEF LifeInv
      <3>2. Pending(2, d) => cursor[2][d] <= cursor[1][u]
        BY <1>1, <2>1 DEF StageOrder, Member, Position
      <3> QED
        BY <1>1, <2>1, <3>1, <3>2 DEF Member, Position
    <2>2. CASE k # 2 \/ d # s
      <3>1. jpc'[2][d] = jpc[2][d] /\ upto'[2][d] = upto[2][d]
        BY <1>1, <2>2 DEF Stages
      <3> QED
        BY <1>1, <3>1 DEF StageOrder, Member, Position
    <2> QED
      BY <2>1, <2>2
  <1>8. PollInv'
    <2> SUFFICES ASSUME NEW t \in Slots, Member(2, t)',
                        rpc'[2][t] = "load" \/ jpc'[2][t] = "ask"
                 PROVE  AtLeast(t, cursor[2][t])'
      BY DEF PollInv
    <2>1. k = 1 \/ t # s
      BY <1>1 DEF LifeInv, Stages
    <2>2. /\ Same(t) /\ jpc'[2][t] = jpc[2][t] /\ Member(2, t)
          /\ rpc[2][t] = "load" \/ jpc[2][t] = "ask"
      BY <1>1, <2>1 DEF Member, Stages
    <2>3. AtLeast(t, cursor[2][t])
      BY <2>2 DEF PollInv
    <2> QED
      BY <1>1, <2>2, <2>3 DEF AtLeast, Same
  <1>9. FirstInv'
    <2>1. CASE k = 1
      <3>1. wpc = "idle" /\ lpc = "idle" /\ writeCursor = 0
        BY <1>1, <2>1 DEF Registered, InJoin, CallsInv
      <3>2. /\ cachedSlowestReader <= 0 /\ lastMinimum <= 0
            /\ UNCHANGED <<wpc, lpc, cachedSlowestReader, lastMinimum>>
        BY <1>1, <3>1 DEF BoundInv
      <3>3. \A u \in Slots : Position(1, u)' \in Nat
        BY <1>1 DEF TypeOK, Position, Stages
      <3>4. cachedSlowestReader \in Nat /\ lastMinimum \in Nat
        BY DEF TypeOK, Leaf!BarrierTypeOK
      <3>5. \A u \in Slots :
              cachedSlowestReader <= Position(1, u)' /\ lastMinimum <= Position(1, u)'
        BY <3>2, <3>3, <3>4
      <3> QED
        BY <3>1, <3>2, <3>5 DEF FirstInv
    <2>2. CASE k = 2
      <3>1. ASSUME NEW u \in Slots
            PROVE  (Member(1, u)' <=> Member(1, u)) /\ Position(1, u)' = Position(1, u)
        <4>1. jpc'[1][u] = jpc[1][u] /\ upto'[1][u] = upto[1][u]
          BY <1>1, <2>2 DEF Stages
        <4> QED
          BY <1>1, <4>1 DEF Member, Position
      <3>2. UNCHANGED <<writeCursor, cachedSlowestReader, wpc, lastMinimum, lpc, minimum, loaded>>
        BY <1>1
      <3> QED
        BY <3>1, <3>2 DEF FirstInv
    <2> QED
      BY <2>1, <2>2 DEF Stages
  <1>10. AnswerInv'
    BY <1>1 DEF AnswerInv
  <1> QED
    BY <1>1, <1>2, <1>3, <1>4, <1>5, <1>6, <1>7, <1>8, <1>9, <1>10

LEMMA ReaderLoadStages ==
  ASSUME StagesInv, Registered, NEW k \in Stages, NEW s \in Slots, ReaderLoad(k, s)
  PROVE  StagesInv'
  <1>1. PICK position \in Nat :
          /\ position <= writeCursor
          /\ k = 2 => \A u \in active[1] : position <= cursor[1][u]
          /\ k = 2 => bpc'[s] = "idle" /\ least'[s] = 0
          /\ \A c \in Callers : k = 1 \/ c # s => Same(c)
          /\ UNCHANGED <<others, jpc, late, active, cursor>>
          /\ TypeOK'
          /\ rpc[k][s] = "load"
          /\ \/ rpc'[k][s] = "read" /\ upto'[k][s] = position
             \/ rpc'[k][s] = "poll" /\ upto'[k][s] = upto[k][s]
          /\ \A j \in Stages, t \in Slots : j # k \/ t # s =>
               rpc'[j][t] = rpc[j][t] /\ upto'[j][t] = upto[j][t]
    BY ReaderLoadFrame
  <1> USE Constants DEF StagesInv, others, writerVars, leafVars
  <1>2. CallsInv'
    <2>1. \A t \in Slots : bpc'[t] # "idle" => bpc[t] # "idle" /\ (k = 1 \/ t # s)
      BY <1>1 DEF Same, Stages
    <2>2. \A t \in Slots : k = 1 \/ t # s => rpc'[2][t] = rpc[2][t]
      BY <1>1 DEF Stages
    <2>3. bpc'[Writer] = bpc[Writer] /\ UNCHANGED <<lpc, wpc, jpc>>
      BY <1>1 DEF Same
    <2> QED
      BY <2>1, <2>2, <2>3 DEF CallsInv, NeedsUpstream
  <1>3. LifeInv'
    <2> SUFFICES ASSUME NEW j \in Stages, NEW t \in Slots
                 PROVE  /\ jpc[j][t] \in {"ask", "loaded"} => rpc'[j][t] = "wait"
                        /\ rpc'[j][t] = "free" => jpc[j][t] = "none"
                        /\ jpc[j][t] = "loaded" /\ Pending(j, t) => cursor[j][t] <= upto'[j][t]
      BY <1>1 DEF LifeInv
    <2>1. CASE j = k /\ t = s
      BY <1>1, <2>1 DEF LifeInv
    <2>2. CASE j # k \/ t # s
      <3>1. rpc'[j][t] = rpc[j][t] /\ upto'[j][t] = upto[j][t]
        BY <1>1, <2>2
      <3> QED
        BY <3>1 DEF LifeInv
    <2> QED
      BY <2>1, <2>2
  <1>4. JoinInv'
    BY DEF JoinInv, Registered
  <1>5. BoundInv'
    <2>1. \A c \in Callers : least'[c] = 0 \/ least'[c] = least[c]
      BY <1>1 DEF Same, Stages
    <2>2. \A j \in Stages, t \in Slots : upto'[j][t] <= writeCursor
      BY <1>1 DEF BoundInv
    <2>3. \A c \in Callers : least'[c] <= writeCursor
      <3>1. 0 <= writeCursor
        BY DEF TypeOK
      <3> QED
        BY <2>1, <3>1 DEF BoundInv
    <2>4. UNCHANGED <<writeCursor, cachedSlowestReader, lastMinimum, cursor>>
      BY <1>1
    <2> QED
      BY <2>2, <2>3, <2>4 DEF BoundInv
  <1>6. ScanInv'
    BY <1>1 DEF ScanInv, Same, Stages
  <1>7. StageOrder'
    BY <1>1 DEF StageOrder, Member, Position, LifeInv, Stages
  <1>8. PollInv'
    <2> SUFFICES ASSUME NEW t \in Slots, Member(2, t)',
                        rpc'[2][t] = "load" \/ jpc[2][t] = "ask"
                 PROVE  AtLeast(t, cursor[2][t])'
      BY <1>1 DEF PollInv
    <2>1. k = 1 \/ t # s
      BY <1>1 DEF LifeInv, Stages
    <2>2. /\ Same(t) /\ Member(2, t)
          /\ rpc[2][t] = "load" \/ jpc[2][t] = "ask"
          /\ AtLeast(t, cursor[2][t])
      BY <1>1, <2>1 DEF PollInv, Member, Stages
    <2> QED
      BY <1>1, <2>1, <2>2 DEF AtLeast, Same
  <1>9. FirstInv'
    <2>1. \A u \in Slots : Member(1, u)' =>
            Member(1, u) /\ (jpc[1][u] = "loaded" => upto'[1][u] = upto[1][u])
      BY <1>1 DEF Member, LifeInv, Stages
    <2> QED
      BY <1>1, <2>1 DEF FirstInv, Position
  <1>10. AnswerInv'
    BY <1>1 DEF AnswerInv
  <1> QED
    BY <1>1, <1>2, <1>3, <1>4, <1>5, <1>6, <1>7, <1>8, <1>9, <1>10

LEMMA ReaderAdvanceStages ==
  ASSUME StagesInv, Registered, NEW k \in Stages, NEW s \in Slots, ReaderAdvance(k, s)
  PROVE  StagesInv'
  <1>1. /\ rpc[k][s] = "read" /\ UNCHANGED <<others, jpc, late, active, upVars>>
        /\ TypeOK'
        /\ cursor'[k][s] <= upto[k][s]
        /\ \/ rpc'[k][s] = "read" /\ upto'[k][s] = upto[k][s]
           \/ rpc'[k][s] = "poll" /\ upto'[k][s] = 0
        /\ \A j \in Stages, t \in Slots : j # k \/ t # s =>
             /\ rpc'[j][t] = rpc[j][t] /\ upto'[j][t] = upto[j][t]
             /\ cursor'[j][t] = cursor[j][t]
        /\ \A j \in Stages, t \in Slots :
             /\ cursor[j][t] \in Nat /\ cursor'[j][t] \in Nat
             /\ cursor[j][t] <= cursor'[j][t]
    BY ReaderAdvanceFrame
  <1> USE Constants DEF StagesInv, others, writerVars, leafVars, upVars
  <1>2. CallsInv'
    BY <1>1 DEF CallsInv, NeedsUpstream, Stages
  <1>3. LifeInv'
    <2> SUFFICES ASSUME NEW j \in Stages, NEW t \in Slots
                 PROVE  /\ jpc[j][t] \in {"ask", "loaded"} => rpc'[j][t] = "wait"
                        /\ rpc'[j][t] = "free" => jpc[j][t] = "none"
                        /\ jpc[j][t] = "loaded" /\ Pending(j, t) => cursor'[j][t] <= upto'[j][t]
      BY <1>1 DEF LifeInv
    <2>1. CASE j = k /\ t = s
      BY <1>1, <2>1 DEF LifeInv
    <2>2. CASE j # k \/ t # s
      <3>1. /\ rpc'[j][t] = rpc[j][t] /\ upto'[j][t] = upto[j][t]
            /\ cursor'[j][t] = cursor[j][t]
        BY <1>1, <2>2
      <3> QED
        BY <3>1 DEF LifeInv
    <2> QED
      BY <2>1, <2>2
  <1>4. JoinInv'
    BY DEF JoinInv, Registered
  <1>5. BoundInv'
    <2>1. \A j \in Stages, t \in Slots : upto[j][t] \in Nat /\ writeCursor \in Nat
      BY DEF TypeOK
    <2>2. \A j \in Stages, t \in Slots :
            cursor'[j][t] <= writeCursor /\ upto'[j][t] <= writeCursor
      BY <1>1, <2>1 DEF BoundInv
    <2> QED
      BY <1>1, <2>2 DEF BoundInv
  <1>6. ScanInv'
    BY <1>1 DEF ScanInv, TypeOK, Up!BarrierTypeOK, Stages
  <1>7. StageOrder'
    BY <1>1 DEF StageOrder, Member, Position, LifeInv, TypeOK, Stages
  <1>8. PollInv'
    <2> SUFFICES ASSUME NEW t \in Slots, Member(2, t)',
                        rpc'[2][t] = "load" \/ jpc[2][t] = "ask"
                 PROVE  AtLeast(t, cursor[2][t])'
      BY <1>1 DEF PollInv
    <2>1. /\ Same(t) /\ Member(2, t)
          /\ rpc[2][t] = "load" \/ jpc[2][t] = "ask"
          /\ cursor'[2][t] = cursor[2][t] /\ cursor[2][t] \in Nat
      <3>1. k = 1 \/ t # s
        BY <1>1 DEF LifeInv, Stages
      <3>2. cursor'[2][t] = cursor[2][t] /\ cursor[2][t] \in Nat
        BY <1>1, <3>1 DEF Stages
      <3>3. Member(2, t)
        BY <1>1 DEF Member
      <3>4. rpc[2][t] = "load" \/ jpc[2][t] = "ask"
        BY <1>1, <3>1 DEF Stages
      <3> QED
        BY <1>1, <3>2, <3>3, <3>4 DEF Same
    <2>2. AtLeast(t, cursor[2][t])
      BY <2>1 DEF PollInv
    <2>3. AtLeastNext(t, cursor[2][t])
      BY <1>1, <2>1, <2>2, AtLeastKept DEF Stages
    <2> QED
      BY <2>1, <2>3 DEF AtLeast, AtLeastNext
  <1>9. FirstInv'
    <2> SUFFICES ASSUME NEW u \in Slots, Member(1, u)
                 PROVE  /\ wpc \in {"fill", "commit"} => HasRoom(writeCursor + 1, Position(1, u)')
                        /\ cachedSlowestReader <= Position(1, u)'
                        /\ lastMinimum <= Position(1, u)'
                        /\ lpc = "scan" => \A p \in Leaf!Paths : minimum[p] <= Position(1, u)'
                        /\ lpc = "done" => loaded <= Position(1, u)'
      BY <1>1 DEF FirstInv, Member, HasRoom
    <2>1. /\ Position(1, u) \in Nat /\ Position(1, u)' \in Nat
          /\ Position(1, u) <= Position(1, u)'
      <3>1. jpc[1][u] = "loaded" => upto'[1][u] = upto[1][u]
        BY <1>1 DEF LifeInv, Stages
      <3>2. upto[1][u] \in Nat
        BY DEF TypeOK, Stages
      <3>3. CASE jpc[1][u] = "loaded" /\ ~Pending(1, u)
        BY <1>1, <3>1, <3>2, <3>3 DEF Position
      <3>4. CASE ~(jpc[1][u] = "loaded" /\ ~Pending(1, u))
        BY <1>1, <3>4 DEF Position, Stages
      <3> QED
        BY <3>3, <3>4
    <2>2. /\ writeCursor \in Nat /\ cachedSlowestReader \in Nat /\ lastMinimum \in Nat
          /\ loaded \in Nat /\ \A p \in Leaf!Paths : minimum[p] \in Nat
      BY DEF TypeOK, Leaf!BarrierTypeOK
    <2>3. /\ wpc \in {"fill", "commit"} => HasRoom(writeCursor + 1, Position(1, u))
          /\ cachedSlowestReader <= Position(1, u)
          /\ lastMinimum <= Position(1, u)
          /\ lpc = "scan" => \A p \in Leaf!Paths : minimum[p] <= Position(1, u)
          /\ lpc = "done" => loaded <= Position(1, u)
      BY DEF FirstInv
    <2> QED
      BY <2>1, <2>2, <2>3 DEF HasRoom
  <1>10. AnswerInv'
    BY <1>1 DEF AnswerInv
  <1> QED
    BY <1>1, <1>2, <1>3, <1>4, <1>5, <1>6, <1>7, <1>8, <1>9, <1>10

LEMMA NextStagesInv == StagesInv /\ [Next /\ Registered]_vars => StagesInv'
  <1> SUFFICES ASSUME StagesInv, [Next /\ Registered]_vars PROVE StagesInv'
    OBVIOUS
  <1>1. CASE UNCHANGED vars
    BY <1>1
    DEF vars, writerVars, readerVars, leafVars, upVars,
      StagesInv, TypeOK, Leaf!BarrierTypeOK, Up!BarrierTypeOK, CallsInv,
      LifeInv, JoinInv, InJoin, BoundInv, HasRoom, ScanInv, StageOrder,
      Member, Position, PollInv, AtLeast, FirstInv, AnswerInv, Stages,
      NeedsUpstream, Leaf!Paths
  <1>2. CASE Next /\ Registered
    <2>1. CASE Publish \/ WriterStep
      BY <1>2, <2>1, Constants, WriterStages, BarrierStages, LoadStages DEF WriterStep
    <2>2. ASSUME NEW k \in Stages, NEW s \in Slots,
                 JoinClaim(k, s) \/ JoinStep(k, s) \/ LateActivate(k, s)
          PROVE  StagesInv'
      BY <1>2, <2>2, JoinClaimStages, JoinLoadStages, JoinStoreStages, ReaderStages,
         LateActivateStages DEF JoinStep
    <2>3. ASSUME NEW k \in Stages, NEW s \in Slots,
                 Remove(k, s) \/ ReaderStep(k, s) \/ ReaderReturn(k, s)
          PROVE  StagesInv'
      BY <1>2, <2>3, ReaderStages, LeaveStages, ReaderLoadStages, ReaderAdvanceStages
      DEF ReaderStep
    <2>4. ASSUME NEW s \in Slots, UpstreamCall(s) PROVE StagesInv'
      BY <1>2, <2>4, Constants, CallStages, BarrierStages DEF UpstreamCall, others
    <2> QED
      BY <1>2, <2>1, <2>2, <2>3, <2>4 DEF Next
  <1> QED
    BY <1>1, <1>2

-----------------------------------------------------------------------------
(* PipelineInv: what SpecOrdered adds to StagesInv.                        *)

(* The writer, outside the calls it makes. *)
LEMMA WriterKeeps ==
  ASSUME PipelineInv, StagesInv', Ordered,
         Publish \/ StartLoad \/ AskUpstream \/ RefreshGate \/ WriteSlot \/ Commit
  PROVE  PipelineInv'
  <1> USE Constants
      DEF writerVars, readerVars, leafVars, upVars, PipelineInv, LeafJoinInv, Ordered,
          RoomInv, BehindInv, GateInv, LoadInv, Member, Position, NeedsUpstream
  <1>1. /\ TypeOK /\ CallsInv /\ LifeInv /\ FirstInv
        /\ \A u \in active[1] : u \in Slots /\ cachedSlowestReader <= cursor[1][u]
    BY DEF StagesInv, FirstInv, LifeInv, TypeOK, Stages
  <1>2. CASE Publish
    BY <1>1, <1>2 DEF Publish, AtLeast
  <1>3. CASE StartLoad
    <2>1. /\ lpc = "idle" /\ lpc' = "bitmap1"
          /\ bitmap' = {s \in active[2] : Leaf!Word(s) = 0}
          /\ UNCHANGED <<writerVars, readerVars, upVars, lastMinimum, lastBitmap>>
      BY <1>3 DEF StartLoad, Leaf!LoadBitmap0, Leaf!cacheVars
    <2>2. \A s \in active[2] : s \in bitmap' \/ s >= WordSize
      <3>1. WordSize \in Nat /\ \A s \in active[2] : s \in Nat
        BY <1>1 DEF TypeOK, Stages, Slots
      <3> QED
        BY <2>1, <3>1 DEF Leaf!Word
    <2>3. \A s \in bitmap' : cachedSlowestReader <= cursor[2][s]
      <3>1. \A s \in active[2] :
              s \in Slots /\ Member(2, s) /\ Position(2, s) = cursor[2][s]
        BY <1>1 DEF TypeOK, Stages
      <3>2. bitmap' \subseteq active[2]
        BY <2>1
      <3> QED
        BY <3>1, <3>2
    <2>4. RoomInv' /\ BehindInv' /\ GateInv'
      BY <2>1 DEF AtLeast
    <2>5. LeafJoinInv'
      OBVIOUS
    <2>6. LoadInv'
      BY <2>1, <2>2, <2>3
    <2> QED
      BY <2>4, <2>5, <2>6
  <1>4. CASE AskUpstream
    BY <1>1, <1>4
    DEF AskUpstream, AtLeast, Up!LoadWord0, Up!Step, Up!InWord, TypeOK, Up!BarrierTypeOK
  <1>5. CASE WriteSlot
    BY <1>1, <1>5 DEF WriteSlot, AtLeast
  <1>6. CASE Commit
    BY <1>1, <1>6 DEF Commit, AtLeast, CallsInv
  <1>7. CASE RefreshGate
    <2>1. /\ lpc = "done" /\ lpc' = "idle" /\ cachedSlowestReader' = loaded
          /\ bitmap' = {} /\ UNCHANGED <<lastMinimum, lastBitmap, upVars, jpc, cursor>>
          /\ UNCHANGED <<active, upto, writeCursor>>
          /\ wpc' = IF HasRoom(writeCursor + 1, loaded) THEN "fill" ELSE "load"
      BY <1>7 DEF RefreshGate, Leaf!LoadReturn, Leaf!cacheVars
    <2>2. ~InJoin(2) /\ bpc[Writer] = "idle" /\ UNCHANGED late
      BY <1>1, <1>7, <2>1 DEF CallsInv, TypeOK, Up!BarrierTypeOK, RefreshGate
    <2>3. \A s \in Slots : /\ Member(2, s)' => s \in active[2]
                           /\ Position(2, s)' = cursor[2][s]
      <3>1. \A s \in Slots : jpc[2][s] \notin {"ask", "loaded", "stored"} /\ ~(late[2][s] > 0)
        BY <2>2 DEF InJoin
      <3> QED
        BY <2>1, <2>2, <3>1
    <2>4. GateInv'
      BY <2>1, <2>3
    <2>5. RoomInv' /\ LeafJoinInv' /\ LoadInv'
      BY <2>1
    <2>6. BehindInv'
      BY <2>1, <2>2 DEF InJoin, AtLeast
    <2> QED
      BY <2>4, <2>5, <2>6
  <1> QED
    BY <1>2, <1>3, <1>4, <1>5, <1>6, <1>7

(* A call of stage 1's barrier, the writer's or another. *)
LEMMA BarrierKeeps ==
  ASSUME PipelineInv, StagesInv', Ordered, NEW c \in Callers,
         Up!LoadStep(c), UNCHANGED <<writerVars, readerVars, leafVars>>
  PROVE  PipelineInv'
  <1> USE Constants
      DEF writerVars, readerVars, leafVars, PipelineInv, LeafJoinInv, Ordered,
          RoomInv, BehindInv, GateInv, LoadInv, Member, Position
  <1>1. /\ TypeOK /\ BoundInv
        /\ \A u \in active[1] : u \in Slots /\ cachedSlowestReader <= cursor[1][u]
    BY DEF StagesInv, FirstInv, LifeInv, TypeOK, Stages
  <1>2. ASSUME NEW d \in Callers, AtLeast(d, cachedSlowestReader)
        PROVE  AtLeastNext(d, cachedSlowestReader)
    <2> USE <1>1, <1>2 DEF AtLeast, AtLeastNext, TypeOK, Up!BarrierTypeOK
    <2>1. CASE Up!LoadWord1(c)
      BY <2>1 DEF Up!LoadWord1, Up!Step, Up!InWord
    <2>2. CASE Up!LoadUpstream(c)
      BY <2>2 DEF Up!LoadUpstream, Up!Step, BoundInv
    <2>3. CASE Up!ScanSlot(c)
      BY <2>3 DEF Up!ScanSlot, Up!Step
    <2> QED
      BY <2>1, <2>2, <2>3 DEF Up!LoadStep
  <1>3. BehindInv'
    BY <1>2 DEF AtLeast, AtLeastNext
  <1> QED
    BY <1>3

(* The beginning of a reader's or an AddReader's call. *)
LEMMA CallKeeps ==
  ASSUME PipelineInv, StagesInv', Ordered, NEW s \in Slots,
         jpc[2][s] = "ask" \/ rpc[2][s] = "load", Up!LoadWord0(s),
         UNCHANGED <<others, readerVars>>
  PROVE  PipelineInv'
  <1> USE Constants
      DEF others, writerVars, readerVars, leafVars, PipelineInv, LeafJoinInv, Ordered,
          RoomInv, BehindInv, GateInv, LoadInv, Member, Position
  <1>1. /\ TypeOK
        /\ \A u \in active[1] : u \in Slots /\ cachedSlowestReader <= cursor[1][u]
    BY DEF StagesInv, FirstInv, LifeInv, TypeOK, Stages
  <1>2. BehindInv'
    BY <1>1 DEF AtLeast, Up!LoadWord0, Up!Step, Up!InWord, TypeOK, Up!BarrierTypeOK
  <1> QED
    BY <1>2

(* The writer's Load of stage 2. *)
LEMMA LoadKeeps ==
  ASSUME PipelineInv, StagesInv', Ordered, RunLoad
  PROVE  PipelineInv'
  <1>1. StagesInv /\ LoadInv /\ Registered
    BY DEF PipelineInv, Ordered
  <1>2. /\ UNCHANGED <<writeCursor, cachedSlowestReader, wpc>>
        /\ UNCHANGED <<jpc, late, rpc, upto, active, cursor>>
        /\ bpc'[Writer] = "idle" /\ \A s \in Slots : Same(s)
    BY <1>1, LoadFrame DEF writerVars, readerVars
  <1>3. /\ writeCursor \in Nat /\ cachedSlowestReader \in Nat
        /\ least[Writer] \in Nat /\ lastMinimum \in Nat
        /\ \A p \in Leaf!Paths : minimum[p] \in Nat
        /\ \A s \in active[2] : s \in Nat /\ cursor[2][s] \in Nat
        /\ NeedsUpstream => bpc[Writer] = "done"
    BY <1>1, LoadFacts
  <1>4. LeafJoinInv'
    BY DEF LeafJoinInv, Ordered
  <1>5. RoomInv' /\ BehindInv' /\ GateInv'
    BY <1>2 DEF PipelineInv, RoomInv, HasRoom, BehindInv, AtLeast, Same, GateInv, Member,
                Position
  <1>6. /\ lpc # "idle" /\ ~InJoin(2)
        /\ \A s \in active[2] : cachedSlowestReader <= cursor[2][s]
    <2>1. lpc # "idle"
      BY DEF RunLoad, Leaf!LoadStep, Leaf!LoadBitmap1, Leaf!LoadUpstream, Leaf!GateHit,
             Leaf!GateMiss, Leaf!ScanMax, Leaf!ScanSlot, Leaf!ScanDone
    <2> QED
      BY <2>1 DEF PipelineInv, LeafJoinInv, GateInv, Member, Position, InJoin, StagesInv,
                  TypeOK, Stages
  <1>7. NeedsUpstream => cachedSlowestReader <= least[Writer]
    BY <1>3 DEF PipelineInv, BehindInv, AtLeast
  <1>8. LoadInv'
    <2>1. CASE Leaf!LoadBitmap1
      <3> USE <2>1 DEF Leaf!LoadBitmap1, Leaf!cacheVars, Leaf!scanVars
      <3>1. active[2] \subseteq bitmap'
        BY <1>1, <1>3, Constants DEF LoadInv, Leaf!Word
      <3>2. bitmap' \subseteq bitmap \cup active[2]
        OBVIOUS
      <3>3. \A s \in bitmap' : cachedSlowestReader <= cursor[2][s]
        BY <1>1, <1>6, <3>2 DEF LoadInv
      <3>4. lpc' \in {"upstream", "gate", "max"}
        OBVIOUS
      <3>5. /\ lpc' = "upstream" => bitmap' = {} /\ lastBitmap' = {}
            /\ lpc' = "gate" => lastBitmap' # {}
            /\ lastBitmap' # {} => lastMinimum' = cachedSlowestReader
        BY <1>1 DEF LoadInv
      <3> QED
        BY <1>2, <3>1, <3>3, <3>4, <3>5 DEF LoadInv
    <2>2. CASE Leaf!LoadUpstream
      <3>1. active[2] = {}
        BY <1>1, <2>2 DEF LoadInv, Leaf!LoadUpstream
      <3> QED
        BY <1>1, <1>2, <1>7, <2>2, <3>1
        DEF LoadInv, NeedsUpstream, Leaf!LoadUpstream, Leaf!cacheVars
    <2>3. CASE Leaf!GateHit
      <3>1. /\ loaded' = cachedSlowestReader /\ lastMinimum = cachedSlowestReader
            /\ lpc' = "done" /\ UNCHANGED <<lastMinimum, lastBitmap, bitmap>>
        BY <1>1, <2>3 DEF LoadInv, Leaf!GateHit, Leaf!cacheVars
      <3> QED
        BY <1>1, <1>2, <1>3, <1>6, <3>1 DEF LoadInv
    <2>4. CASE Leaf!GateMiss
      BY <1>1, <1>2, <2>4 DEF LoadInv, Leaf!GateMiss, Leaf!cacheVars, Leaf!scanVars
    <2>5. CASE Leaf!ScanMax
      BY <1>1, <1>2, <1>7, <2>5
      DEF LoadInv, NeedsUpstream, Leaf!ScanMax, Leaf!cacheVars
    <2>6. CASE Leaf!ScanSlot
      <3>1. PICK s \in todo, p \in Leaf!Paths :
              /\ s \in Slots /\ todo' = todo \ {s}
              /\ minimum' \in [Leaf!Paths -> Nat] /\ gating' \in [Leaf!Paths -> Slots]
              /\ minimum'[p] <= cursor[2][s]
              /\ \A q \in Leaf!Paths :
                   /\ minimum'[q] <= minimum[q]
                   /\ minimum'[q] \in {minimum[q], cursor[2][s]}
        BY <1>1, <2>6, ScanStep
      <3>2. /\ lpc = "scan"
            /\ UNCHANGED <<lastMinimum, lastBitmap, gatingSlot, lpc, bitmap, loaded>>
        BY <2>6 DEF Leaf!ScanSlot, Leaf!cacheVars
      <3>3. \A q \in Leaf!Paths : cachedSlowestReader <= minimum'[q]
        BY <1>1, <3>1, <3>2 DEF LoadInv
      <3>4. ASSUME NEW t \in active[2], t \notin todo'
            PROVE  \E q \in Leaf!Paths : minimum'[q] <= cursor[2][t]
        <4>1. CASE t = s
          BY <3>1, <4>1
        <4>2. CASE t # s
          <5>1. PICK q \in Leaf!Paths : minimum[q] <= cursor[2][t]
            BY <1>1, <3>1, <3>2, <3>4, <4>2 DEF LoadInv
          <5> QED
            BY <1>3, <3>1, <5>1
        <4> QED
          BY <4>1, <4>2
      <3> QED
        BY <1>1, <1>2, <3>1, <3>2, <3>3, <3>4 DEF LoadInv
    <2>7. CASE Leaf!ScanDone
      <3> DEFINE least2 == IF minimum["B"] < minimum["A"] THEN minimum["B"] ELSE minimum["A"]
      <3>1. /\ loaded' = least2 /\ lastMinimum' = least2 /\ lpc' = "done"
            /\ lpc = "scan" /\ todo = {} /\ UNCHANGED bitmap
        BY <2>7 DEF Leaf!ScanDone
      <3>2. /\ minimum["A"] \in Nat /\ minimum["B"] \in Nat
            /\ cachedSlowestReader <= least2
        BY <1>1, <1>3, <3>1 DEF LoadInv, Leaf!Paths
      <3>3. \A s \in active[2] : minimum["A"] <= cursor[2][s] \/ minimum["B"] <= cursor[2][s]
        BY <1>1, <3>1 DEF LoadInv, Leaf!Paths
      <3>4. \A s \in active[2] : least2 <= cursor[2][s]
        BY <1>3, <3>2, <3>3
      <3> HIDE DEF least2
      <3> QED
        BY <1>1, <1>2, <3>1, <3>2, <3>4 DEF LoadInv
    <2> QED
      BY <2>1, <2>2, <2>3, <2>4, <2>5, <2>6, <2>7 DEF RunLoad, Leaf!LoadStep
  <1> QED
    BY <1>4, <1>5, <1>8 DEF PipelineInv

(* The steps of AddReader, RemoveReader and the readers that load and      *)
(* store no position.                                                      *)
LEMMA ReaderKeeps ==
  ASSUME PipelineInv, StagesInv', Ordered, NEW k \in Stages, NEW s \in Slots,
         \/ JoinClaim(k, s) \/ JoinStore(k, s) \/ JoinActivate(k, s) \/ LateActivate(k, s)
         \/ ReaderStart(k, s) \/ Remove(k, s) \/ ReaderPoll(k, s) \/ ReaderReturn(k, s)
  PROVE  PipelineInv'
  <1> USE Constants
      DEF others, writerVars, leafVars, upVars, PipelineInv, LeafJoinInv, Ordered,
          RoomInv, BehindInv, GateInv, LoadInv, Member, Position, Stages
  <1>1. TypeOK /\ LifeInv /\ CallsInv
    BY DEF StagesInv
  <1>2. CASE JoinClaim(k, s)
    <2>1. \A t \in Slots : jpc'[2][t] = "ask" => jpc[2][t] = "ask" \/ bpc[t] = "idle"
      BY <1>1, <1>2 DEF JoinClaim, SetJoin, SetPc, TypeOK, CallsInv, Up!BarrierTypeOK
    <2>2. BehindInv'
      BY <1>2, <2>1 DEF JoinClaim, AtLeast
    <2> HIDE DEF BehindInv
    <2> QED
      BY <1>1, <1>2, <2>2 DEF JoinClaim, SetJoin, SetPc, TypeOK, LifeInv
  <1>3. CASE JoinStore(k, s)
    <2>1. InJoin(k) /\ jpc[k][s] = "loaded"
      BY <1>3 DEF JoinStore, SetJoin, InJoin
    <2>2. CASE k = 1
      <3>1. /\ wpc = "idle" /\ lpc = "idle" /\ \A c \in Callers : bpc[c] = "idle"
            /\ \A t \in Slots : jpc[2][t] = "none"
        <4>1. JoinInv /\ wpc = "idle" /\ \A t \in Slots : rpc[2][t] = "free"
          BY <2>1, <2>2 DEF StagesInv, JoinInv
        <4> QED
          BY <1>1, <4>1 DEF CallsInv, LifeInv, NeedsUpstream, Callers, TypeOK,
             Up!BarrierTypeOK
      <3>2. /\ UNCHANGED <<others, late, rpc, active, upVars>>
            /\ \A t \in Slots : /\ jpc'[2][t] = jpc[2][t] /\ upto'[2][t] = upto[2][t]
                                /\ cursor'[2][t] = cursor[2][t]
        BY <1>1, <1>3, <2>2 DEF JoinStore, SetJoin, TypeOK
      <3>3. BehindInv'
        BY <3>1, <3>2 DEF AtLeast, upVars, Callers
      <3>4. RoomInv' /\ GateInv'
        BY <3>2
      <3>5. LoadInv'
        BY <1>1, <3>2 DEF TypeOK, Leaf!BarrierTypeOK
      <3>6. LeafJoinInv'
        BY <3>1, <3>2
      <3> QED
        BY <3>3, <3>4, <3>5, <3>6
    <2>3. CASE k = 2
      <3>1. /\ lpc = "idle" /\ UNCHANGED <<others, late, rpc, active, upVars>>
            /\ \A t \in Slots : cursor'[1][t] = cursor[1][t]
            /\ \A t \in Slots : t # s => /\ cursor'[2][t] = cursor[2][t]
                                        /\ upto'[2][t] = upto[2][t]
                                        /\ jpc'[2][t] = jpc[2][t]
            /\ cursor'[2][s] = upto[2][s] /\ jpc'[2][s] = "stored"
        BY <1>1, <1>3, <2>1, <2>3 DEF JoinStore, SetJoin, TypeOK
      <3>2. RoomInv' /\ BehindInv'
        <4>1. ASSUME NEW c \in Callers, AtLeast(c, cachedSlowestReader)
              PROVE  AtLeast(c, cachedSlowestReader)'
          <5>1. bits[c] \subseteq Slots /\ left[c] \subseteq Slots
            BY <1>1 DEF TypeOK, Up!BarrierTypeOK, Callers
          <5>2. UNCHANGED <<cachedSlowestReader, bpc, bits, left, least>>
            BY <3>1 DEF upVars
          <5>3. /\ \A t \in bits[c] : cursor'[1][t] = cursor[1][t]
                /\ \A t \in left[c] : cursor'[1][t] = cursor[1][t]
            BY <3>1, <5>1
          <5> QED
            BY <4>1, <5>2, <5>3 DEF AtLeast
        <4>2. \A t \in Slots : jpc'[2][t] = "ask" => jpc[2][t] = "ask"
          BY <3>1
        <4>3. RoomInv'
          BY <3>1
        <4> QED
          BY <4>1, <4>2, <4>3 DEF Callers
      <3>3. cachedSlowestReader <= cursor'[2][s]
        <4>1. /\ cachedSlowestReader \in Nat /\ upto[2][s] \in Nat /\ cursor[2][s] \in Nat
              /\ Pending(2, s) => cursor[2][s] <= upto[2][s]
          BY <1>1, <2>1, <2>3 DEF TypeOK, LifeInv
        <4>2. cachedSlowestReader <= Position(2, s)
          BY <2>1, <2>3
        <4> QED
          BY <2>1, <2>3, <3>1, <4>1, <4>2
      <3>4. GateInv'
        BY <2>1, <2>3, <3>1, <3>3
      <3>5. LoadInv'
        BY <1>1, <2>1, <2>3, <3>1, <3>3 DEF TypeOK, Leaf!BarrierTypeOK
      <3>6. LeafJoinInv'
        BY <3>1
      <3> QED
        BY <3>2, <3>4, <3>5, <3>6
    <2> QED
      BY <2>2, <2>3
  <1>4. CASE JoinActivate(k, s)
    BY <1>1, <1>4 DEF JoinActivate, SetJoin, TypeOK, AtLeast, InJoin
  <1>5. CASE ReaderStart(k, s)
    BY <1>5 DEF ReaderStart, SetPc, AtLeast
  <1>6. CASE Remove(k, s)
    BY <1>1, <1>6 DEF Remove, AtLeast, TypeOK
  <1>7. CASE ReaderPoll(k, s)
    BY <1>7 DEF ReaderPoll, SetPc, AtLeast
  <1>8. CASE ReaderReturn(k, s)
    BY <1>1, <1>8 DEF ReaderReturn, SetPc, AtLeast, TypeOK
  <1>9. CASE LateActivate(k, s)
    BY <1>1, <1>9 DEF LateActivate, AtLeast, TypeOK, InJoin
  <1> QED
    BY <1>2, <1>3, <1>4, <1>5, <1>6, <1>7, <1>8, <1>9

LEMMA JoinLoadKeeps ==
  ASSUME PipelineInv, StagesInv', Ordered, NEW k \in Stages, NEW s \in Slots, JoinLoad(k, s)
  PROVE  PipelineInv'
  <1>1. PICK position \in Nat :
          /\ k = 2 => bpc[s] = "done" /\ position = least[s]
          /\ \A c \in Callers : k = 1 \/ c # s => Same(c)
          /\ UNCHANGED <<others, late, rpc, active, cursor>>
          /\ jpc[k][s] = "ask" /\ jpc'[k][s] = "loaded" /\ upto'[k][s] = position
          /\ \A j \in Stages, t \in Slots : j # k \/ t # s =>
               jpc'[j][t] = jpc[j][t] /\ upto'[j][t] = upto[j][t]
    BY JoinLoadFrame DEF PipelineInv
  <1> USE DEF PipelineInv, others, writerVars, leafVars
  <1>2. LeafJoinInv'
    BY DEF LeafJoinInv, Ordered
  <1>3. RoomInv' /\ LoadInv'
    BY <1>1 DEF RoomInv, HasRoom, LoadInv
  <1>4. BehindInv'
    <2>1. Same(Writer) /\ \A t \in Slots : jpc'[2][t] = "ask" => jpc[2][t] = "ask" /\ Same(t)
      BY <1>1, Constants DEF Stages
    <2> QED
      BY <1>1, <2>1 DEF BehindInv, AtLeast, Same
  <1>5. GateInv'
    <2>1. k = 2 => cachedSlowestReader <= position
      BY <1>1 DEF BehindInv, AtLeast
    <2> QED
      BY <1>1, <2>1 DEF GateInv, Member, Position, StagesInv, LifeInv, Stages
  <1> QED
    BY <1>2, <1>3, <1>4, <1>5

LEMMA ReaderLoadKeeps ==
  ASSUME PipelineInv, StagesInv', Ordered, NEW k \in Stages, NEW s \in Slots,
         ReaderLoad(k, s)
  PROVE  PipelineInv'
  <1>1. /\ \A c \in Callers : k = 1 \/ c # s => Same(c)
        /\ UNCHANGED <<others, jpc, late, active, cursor>>
        /\ rpc[k][s] = "load"
        /\ \A j \in Stages, t \in Slots : j # k \/ t # s => upto'[j][t] = upto[j][t]
    BY ReaderLoadFrame DEF PipelineInv
  <1> USE DEF PipelineInv, others, writerVars, leafVars
  <1>2. LeafJoinInv' /\ RoomInv' /\ LoadInv'
    BY <1>1 DEF LeafJoinInv, InJoin, RoomInv, HasRoom, LoadInv
  <1>3. \A t \in Slots : jpc[2][t] \in {"ask", "loaded"} => k = 1 \/ t # s
    BY <1>1 DEF StagesInv, LifeInv, Stages
  <1>4. BehindInv'
    BY <1>1, <1>3, Constants DEF BehindInv, AtLeast, Same, Stages
  <1>5. GateInv'
    BY <1>1, <1>3 DEF GateInv, Member, Position, Stages
  <1> QED
    BY <1>2, <1>4, <1>5

LEMMA ReaderAdvanceKeeps ==
  ASSUME PipelineInv, StagesInv', Ordered, NEW k \in Stages, NEW s \in Slots,
         ReaderAdvance(k, s)
  PROVE  PipelineInv'
  <1>1. /\ rpc[k][s] = "read" /\ UNCHANGED <<others, jpc, late, active, upVars>>
        /\ \A j \in Stages, t \in Slots : j # k \/ t # s => upto'[j][t] = upto[j][t]
        /\ \A j \in Stages, t \in Slots :
             /\ cursor[j][t] \in Nat /\ cursor'[j][t] \in Nat
             /\ cursor[j][t] <= cursor'[j][t]
    BY ReaderAdvanceFrame DEF PipelineInv
  <1>2. /\ TypeOK /\ LifeInv /\ cachedSlowestReader \in Nat /\ loaded \in Nat
        /\ \A p \in Leaf!Paths : minimum[p] \in Nat
    BY DEF PipelineInv, StagesInv, TypeOK, Leaf!BarrierTypeOK
  <1> USE DEF PipelineInv, others, writerVars, leafVars, upVars
  <1>3. LeafJoinInv' /\ RoomInv'
    BY <1>1 DEF LeafJoinInv, InJoin, RoomInv, HasRoom
  <1>4. BehindInv'
    <2>1. ASSUME NEW c \in Callers, AtLeast(c, cachedSlowestReader)
          PROVE  AtLeastNext(c, cachedSlowestReader)
      BY <1>1, <1>2, <2>1, AtLeastKept DEF Same, Stages
    <2> QED
      BY <1>1, <2>1, Constants DEF BehindInv, AtLeast, AtLeastNext
  <1>5. GateInv'
    <2> SUFFICES ASSUME NEW t \in Slots, Member(2, t)
                 PROVE  cachedSlowestReader <= Position(2, t)'
      BY <1>1 DEF GateInv, Member
    <2>1. /\ Position(2, t) \in Nat /\ Position(2, t)' \in Nat
          /\ Position(2, t) <= Position(2, t)'
      BY <1>1, <1>2 DEF Position, LifeInv, TypeOK, Stages
    <2> QED
      BY <1>2, <2>1 DEF GateInv
  <1>6. LoadInv'
    <2>1. bitmap \subseteq Slots /\ active[2] \subseteq Slots
      BY <1>2, Constants DEF TypeOK, Leaf!BarrierTypeOK, Stages
    <2>2. ASSUME NEW t \in Slots, NEW v \in Nat, v <= cursor[2][t]
          PROVE  v <= cursor'[2][t]
      BY <1>1, <2>2 DEF Stages
    <2> QED
      BY <1>1, <1>2, <2>1, <2>2 DEF LoadInv
  <1> QED
    BY <1>3, <1>4, <1>5, <1>6

LEMMA NextPipelineInv == PipelineInv /\ [Next /\ Ordered]_vars => PipelineInv'
  <1> SUFFICES ASSUME PipelineInv, [Next /\ Ordered]_vars PROVE PipelineInv'
    OBVIOUS
  <1>1. StagesInv'
    BY NextStagesInv DEF PipelineInv, Ordered
  <1>2. CASE UNCHANGED vars
    BY <1>1, <1>2
    DEF vars, writerVars, readerVars, leafVars, upVars, PipelineInv, LeafJoinInv, InJoin,
      RoomInv, HasRoom, BehindInv, AtLeast, GateInv, Member, Position, LoadInv
  <1>3. CASE Next /\ Ordered
    <2> USE <1>1
    <2>1. CASE Publish \/ WriterStep
      BY <1>3, <2>1, Constants, WriterKeeps, BarrierKeeps, LoadKeeps DEF WriterStep
    <2>2. ASSUME NEW k \in Stages, NEW s \in Slots,
                 JoinClaim(k, s) \/ JoinStep(k, s) \/ LateActivate(k, s)
          PROVE  PipelineInv'
      BY <1>3, <2>2, ReaderKeeps, JoinLoadKeeps DEF JoinStep
    <2>3. ASSUME NEW k \in Stages, NEW s \in Slots,
                 Remove(k, s) \/ ReaderStep(k, s) \/ ReaderReturn(k, s)
          PROVE  PipelineInv'
      BY <1>3, <2>3, ReaderKeeps, ReaderLoadKeeps, ReaderAdvanceKeeps DEF ReaderStep
    <2>4. ASSUME NEW s \in Slots, UpstreamCall(s) PROVE PipelineInv'
      BY <1>3, <2>4, Constants, CallKeeps, BarrierKeeps DEF UpstreamCall, others
    <2> QED
      BY <1>3, <2>1, <2>2, <2>3, <2>4 DEF Next
  <1> QED
    BY <1>2, <1>3

-----------------------------------------------------------------------------
(* StagesInv is an invariant of SpecRegistered: the readers of stage 1 are *)
(* accounted for by every computation of a barrier, while the readers of   *)
(* stage 2 join and leave at any time (poolBarrier.Load and                *)
(* BitmapReaderPool.Load).                                                 *)
THEOREM StagesInvHolds == SpecRegistered => []StagesInv
  <1>1. Init => StagesInv
    BY InitPipelineInv DEF PipelineInv
  <1> QED
    BY <1>1, NextStagesInv, PTL DEF SpecRegistered

(* StageOrder: no reader of stage 2 consumes, or is about to consume, an   *)
(* event that a reader of stage 1 has not committed, whenever it joined.   *)
THEOREM StageOrderHolds == SpecRegistered => []StageOrder
  <1>1. StagesInv => StageOrder
    BY DEF StagesInv
  <1> QED
    BY <1>1, StagesInvHolds, PTL

(* UpstreamNotBehind: the barrier a gated reader of stage 2 polls is never *)
(* behind what the reader has consumed (poolBarrier.Load).                 *)
THEOREM UpstreamNotBehindHolds == SpecRegistered => []UpstreamNotBehind
  <1>1. StagesInv => UpstreamNotBehind
    BY Constants DEF StagesInv, TypeOK, Stages, UpstreamNotBehind, PollInv, Member, AtLeast
  <1> QED
    BY <1>1, StagesInvHolds, PTL

(* NoLapUpstream: the writer, which waits for stage 2, overwrites no event *)
(* that a reader of stage 1 has still to consume, though its gate may miss *)
(* a reader that joins stage 2.                                            *)
THEOREM NoLapUpstreamHolds == SpecRegistered => []NoLapUpstream
  <1>1. StagesInv => NoLapUpstream
    <2> SUFFICES ASSUME StagesInv, wpc = "fill", NEW s \in Slots, Member(1, s)
                 PROVE  writeCursor + 1 <= Position(1, s) + BufferSize
      BY DEF NoLapUpstream
    <2>1. writeCursor + 1 < Position(1, s) + BufferSize
      BY DEF StagesInv, FirstInv, HasRoom
    <2>2. writeCursor \in Nat /\ Position(1, s) \in Nat /\ BufferSize \in Nat
      BY Constants DEF StagesInv, TypeOK, Position, Stages
    <2> QED
      BY <2>1, <2>2
  <1> QED
    BY <1>1, StagesInvHolds, PTL

(* PipelineTypeCorrect: the variables of both stages, of the barrier calls *)
(* and of the writer stay in their types, the positions they hold in Nat.  *)
THEOREM PipelineTypeCorrect == SpecRegistered => []TypeOK
  <1>1. StagesInv => TypeOK
    BY DEF StagesInv
  <1> QED
    BY <1>1, StagesInvHolds, PTL

(* PipelineInv is an invariant of SpecOrdered: what is registered first,   *)
(* and the readers of stage 2 that join between two refreshes, are         *)
(* accounted for (BitmapReaderPool.Load and poolBarrier.Load).             *)
THEOREM PipelineInvHolds == SpecOrdered => []PipelineInv
  BY InitPipelineInv, NextPipelineInv, PTL DEF SpecOrdered

(* NoLap: the writer overwrites no event that a reader of either stage has *)
(* still to consume, though its gate is the last stage alone.              *)
THEOREM NoLapHolds == SpecOrdered => []NoLap
  <1>1. PipelineInv => NoLap
    <2> SUFFICES ASSUME PipelineInv, wpc = "fill",
                        NEW k \in Stages, NEW s \in Slots, Member(k, s)
                 PROVE  writeCursor + 1 <= Position(k, s) + BufferSize
      BY DEF NoLap
    <2>1. writeCursor + 1 < cachedSlowestReader + BufferSize
      BY DEF PipelineInv, RoomInv, HasRoom
    <2>2. cachedSlowestReader <= Position(k, s)
      BY DEF PipelineInv, StagesInv, FirstInv, GateInv, Stages
    <2>3. /\ writeCursor \in Nat /\ cachedSlowestReader \in Nat
          /\ Position(k, s) \in Nat /\ BufferSize \in Nat
      BY Constants DEF PipelineInv, StagesInv, TypeOK, Position
    <2> QED
      BY <2>1, <2>2, <2>3
  <1> QED
    BY <1>1, PipelineInvHolds, PTL

(* GateMonotone: the writer's gate never goes back, whoever leaves either  *)
(* stage while it is refreshed.                                            *)
THEOREM GateMonotoneHolds == SpecOrdered => GateMonotone
  <1>1. PipelineInv /\ [Next /\ Ordered]_vars =>
          [cachedSlowestReader' >= cachedSlowestReader]_vars
    <2> SUFFICES ASSUME PipelineInv, Next
                 PROVE  cachedSlowestReader' >= cachedSlowestReader
      OBVIOUS
    <2>1. cachedSlowestReader \in Nat /\ loaded \in Nat
      BY DEF PipelineInv, StagesInv, TypeOK, Leaf!BarrierTypeOK
    <2>2. CASE RefreshGate
      BY <2>1, <2>2 DEF RefreshGate, Leaf!LoadReturn, PipelineInv, LoadInv
    <2>3. CASE ~RefreshGate
      <3>1. UNCHANGED cachedSlowestReader
        BY <2>3
        DEF Next, WriterStep, Publish, StartLoad, AskUpstream, RunLoad, WriteSlot,
          Commit, JoinClaim, JoinStep, JoinLoad, JoinStore, JoinActivate, LateActivate,
          Remove, ReaderStep, ReaderStart, ReaderPoll, ReaderLoad, ReaderAdvance,
          ReaderReturn, UpstreamCall, writerVars, others
      <3> QED
        BY <2>1, <3>1
    <2> QED
      BY <2>2, <2>3
  <1> QED
    BY <1>1, PipelineInvHolds, PTL DEF SpecOrdered, GateMonotone
=============================================================================
