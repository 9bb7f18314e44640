------------------------------ MODULE Pipeline ------------------------------
(***************************************************************************)
(* The two-stage pipeline of ring_buffer_pipeline.go, wired as its comment *)
(* on NewStage says:                                                       *)
(*                                                                         *)
(*   s1 := rb.NewStage(nil)                                                *)
(*   s2 := rb.NewStage(s1.Barrier())                                       *)
(*   rb.SetGatingStage(s2)                                                 *)
(*                                                                         *)
(* Stage 1 reads up to the writer's cursor, stage 2 up to stage 1's        *)
(* minimum, which each of its readers and AddReader calls takes from a     *)
(* poolBarrier (PoolBarrier), and the writer waits for stage 2 alone, by   *)
(* the cached Load of its pool (GatingBarrier), which itself calls stage   *)
(* 1's poolBarrier for the upstream position.  All of them run at once,    *)
(* and the calls are split at their accesses to shared memory.             *)
(*                                                                         *)
(* The writer is Publish; batches and the Try calls are in RingBuffer.     *)
(* What the elements hold follows from the sequences: the writer of q      *)
(* overwrites the event q - BufferSize.                                    *)
(***************************************************************************)
EXTENDS Integers, FiniteSets

CONSTANTS
  BufferSize,   \* capacity of the ring
  MaxSequence,  \* bound: the writer publishes no sequence beyond it
  NumSlots,     \* reader slots of each stage
  WordSize,     \* slots per bitmap word
  InUse,        \* bound: the slots of each stage that get readers
  Leavers,      \* per stage, slots whose reader may be removed or return
  MaxLate       \* bound, per stage: AddReader calls of a slot its reader has
                \* outrun

Stages == {1, 2}
Writer == -1

ASSUME PipelineAssumption ==
  /\ BufferSize \in Nat \ {0, 1}
  /\ MaxSequence \in Nat
  /\ NumSlots \in Nat \ {0}
  /\ WordSize \in Nat \ {0}
  /\ NumSlots <= 2 * WordSize
  /\ InUse \in [Stages -> SUBSET (0 .. NumSlots - 1)]
  /\ Leavers \in [Stages -> SUBSET (0 .. NumSlots - 1)]
  /\ MaxLate \in [Stages -> Nat]

VARIABLES
  writeCursor, cachedSlowestReader,
  wpc,                  \* the writer: "idle", "load", "fill" or "commit"
  jpc,                  \* per stage and slot: its AddReader, "removed" when its
                        \* reader's context is cancelled
  late,                 \* per stage and slot: AddReader calls that have still
                        \* to set the bit of a reader that has returned
  rpc,                  \* per stage and slot: its reader function
  upto,                 \* per stage and slot: the position last loaded
  active,               \* per stage: activeSlots
  cursor,               \* per stage and slot: the cursors
  lastMinimum, lastBitmap, gatingSlot,          \* the cache of stage 2's pool
  lpc, bitmap, todo, minimum, gating, loaded,   \* the writer's Load of stage 2
  bpc, bits, left, least                        \* the calls of stage 1's barrier

Callers == {Writer} \cup (0 .. NumSlots - 1)

Leaf == INSTANCE GatingBarrier
          WITH writerCursor <- least[Writer], activeSlots <- active[2], cursor <- cursor[2]
Up == INSTANCE PoolBarrier
        WITH writerCursor <- writeCursor, activeSlots <- active[1], cursor <- cursor[1]

Slots == 0 .. NumSlots - 1

writerVars == <<writeCursor, cachedSlowestReader, wpc>>
readerVars == <<jpc, late, rpc, upto, active, cursor>>
leafVars   == <<lastMinimum, lastBitmap, gatingSlot,
                lpc, bitmap, todo, minimum, gating, loaded>>
upVars     == <<bpc, bits, left, least>>
vars == <<writerVars, readerVars, leafVars, upVars>>

ForAll(v) == [k \in Stages |-> [s \in Slots |-> v]]

Init ==
  /\ writeCursor = 0
  /\ cachedSlowestReader = 0
  /\ wpc = "idle"
  /\ jpc = ForAll("none")
  /\ late = ForAll(0)
  /\ rpc = ForAll("free")
  /\ upto = ForAll(0)
  /\ active = [k \in Stages |-> {}]
  /\ cursor = ForAll(0)
  /\ lastMinimum = 0
  /\ lastBitmap = {}
  /\ gatingSlot = 0
  /\ lpc = "idle"
  /\ bitmap = {}
  /\ todo = {}
  /\ minimum = [p \in Leaf!Paths |-> 0]
  /\ gating = [p \in Leaf!Paths |-> 0]
  /\ loaded = 0
  /\ Up!BarrierInit

-----------------------------------------------------------------------------
(* The writer.                                                             *)

HasRoom(seq, gate) == seq < gate + BufferSize

Publish ==
  /\ wpc = "idle"
  /\ writeCursor < MaxSequence
  /\ wpc' = IF HasRoom(writeCursor + 1, cachedSlowestReader) THEN "fill" ELSE "load"
  /\ UNCHANGED <<writeCursor, cachedSlowestReader, readerVars, leafVars, upVars>>

(* gatingBarrier.Load() is stage 2's Load: ... *)
StartLoad ==
  /\ wpc = "load"
  /\ Leaf!LoadBitmap0
  /\ UNCHANGED <<writerVars, readerVars, upVars>>

(* ... where it needs the upstream position it calls stage 1's barrier ... *)
NeedsUpstream == lpc \in {"upstream", "max"}

AskUpstream ==
  /\ NeedsUpstream
  /\ Up!LoadWord0(Writer)
  /\ UNCHANGED <<writerVars, readerVars, leafVars>>

(* ... and goes on with the answer; elsewhere it takes its own steps.      *)
RunLoad ==
  /\ Leaf!LoadStep
  /\ IF NeedsUpstream THEN Up!Return(Writer) ELSE UNCHANGED upVars
  /\ UNCHANGED <<writerVars, readerVars>>

RefreshGate ==
  /\ Leaf!LoadReturn
  /\ cachedSlowestReader' = loaded
  /\ wpc' = IF HasRoom(writeCursor + 1, loaded) THEN "fill" ELSE "load"
  /\ UNCHANGED <<writeCursor, readerVars, upVars>>

WriteSlot ==
  /\ wpc = "fill"
  /\ wpc' = "commit"
  /\ UNCHANGED <<writeCursor, cachedSlowestReader, readerVars, leafVars, upVars>>

Commit ==
  /\ wpc = "commit"
  /\ writeCursor' = writeCursor + 1
  /\ wpc' = "idle"
  /\ UNCHANGED <<cachedSlowestReader, readerVars, leafVars, upVars>>

WriterStep ==
  \/ StartLoad
  \/ AskUpstream
  \/ RunLoad
  \/ Up!LoadStep(Writer) /\ UNCHANGED <<writerVars, readerVars, leafVars>>
  \/ RefreshGate
  \/ WriteSlot
  \/ Commit

-----------------------------------------------------------------------------
(* The readers of stage k.                                                 *)

SetJoin(k, s, from, to) == jpc[k][s] = from /\ jpc' = [jpc EXCEPT ![k][s] = to]
SetPc(k, s, from, to)   == rpc[k][s] = from /\ rpc' = [rpc EXCEPT ![k][s] = to]

others == <<writerVars, leafVars>>

Joining == {"ask", "loaded", "stored"}

(* Mutant: the second stage is wired to the writer cursor. *)
UpstreamOfWriter(k, s, position) ==
  /\ position = writeCursor
  /\ UNCHANGED upVars

(***************************************************************************)
(* writerCursor.Load() of stage k's pool returns position: NewStage(nil)   *)
(* reads the writer's cursor, NewStage(s1.Barrier()) ends a call of stage  *)
(* 1's barrier.                                                            *)
(***************************************************************************)
Upstream(k, s, position) ==
  \/ k = 1 /\ position = writeCursor /\ UNCHANGED upVars
  \/ k = 2 /\ position = least[s] /\ Up!Return(s)

Positions == 0 .. MaxSequence

(* AddReader takes the lowest free slot, *)
JoinClaim(k, s) ==
  /\ s \in InUse[k]
  /\ \A t \in InUse[k] : t < s => rpc[k][t] # "free"
  /\ SetPc(k, s, "free", "wait")
  /\ SetJoin(k, s, "none", "ask")
  /\ UNCHANGED <<others, late, upto, active, cursor, upVars>>

(* loads the position of the stage's upstream, *)
JoinLoad(k, s) ==
  /\ SetJoin(k, s, "ask", "loaded")
  /\ \E position \in Positions :
       Upstream(k, s, position) /\ upto' = [upto EXCEPT ![k][s] = position]
  /\ UNCHANGED <<others, late, rpc, active, cursor>>

(* Mutant: a reused slot keeps the cursor of its last reader. *)
JoinStoreForgotten(k, s) ==
  /\ SetJoin(k, s, "loaded", "stored")
  /\ upto' = [upto EXCEPT ![k][s] = 0]
  /\ UNCHANGED <<others, late, rpc, active, cursor, upVars>>

(* stores it in the slot's cursor, *)
JoinStore(k, s) ==
  /\ SetJoin(k, s, "loaded", "stored")
  /\ cursor' = [cursor EXCEPT ![k][s] = upto[k][s]]
  /\ upto' = [upto EXCEPT ![k][s] = 0]
  /\ UNCHANGED <<others, late, rpc, active, upVars>>

(* and sets the activity bit. *)
JoinActivate(k, s) ==
  /\ SetJoin(k, s, "stored", "none")
  /\ active' = [active EXCEPT ![k] = @ \cup {s}]
  /\ UNCHANGED <<others, late, rpc, upto, cursor, upVars>>

(* The same store for a reader that has run and returned in between. *)
LateActivate(k, s) ==
  /\ late[k][s] > 0
  /\ late' = [late EXCEPT ![k][s] = @ - 1]
  /\ active' = [active EXCEPT ![k] = @ \cup {s}]
  /\ UNCHANGED <<others, jpc, rpc, upto, cursor, upVars>>

(* The function starts as soon as the slot has work. *)
ReaderStart(k, s) ==
  /\ jpc[k][s] \notin {"ask", "loaded"}
  /\ SetPc(k, s, "wait", "poll")
  /\ UNCHANGED <<others, jpc, late, upto, active, cursor, upVars>>

(* RemoveReader, once AddReader has returned: the context is cancelled and *)
(* the bit cleared, wherever the reader function is, or is no more.        *)
Remove(k, s) ==
  /\ s \in Leavers[k] \cap active[k]
  /\ jpc[k][s] \notin Joining
  /\ jpc' = [jpc EXCEPT ![k][s] = IF rpc[k][s] = "free" THEN "none" ELSE "removed"]
  /\ active' = [active EXCEPT ![k] = @ \ {s}]
  /\ UNCHANGED <<others, late, rpc, upto, cursor, upVars>>

(* The top of the reader loop, its context not cancelled. *)
ReaderPoll(k, s) ==
  /\ jpc[k][s] # "removed"
  /\ SetPc(k, s, "poll", "load")
  /\ UNCHANGED <<others, jpc, late, upto, active, cursor, upVars>>

(* Mutant: the last event is left unread. *)
ReaderLoadOffByOne(k, s) ==
  /\ rpc[k][s] = "load"
  /\ \E position \in Positions :
       /\ Upstream(k, s, position)
       /\ IF cursor[k][s] + 1 < position
          THEN /\ rpc' = [rpc EXCEPT ![k][s] = "read"]
               /\ upto' = [upto EXCEPT ![k][s] = position]
          ELSE rpc' = [rpc EXCEPT ![k][s] = "poll"] /\ UNCHANGED upto
  /\ UNCHANGED <<others, jpc, late, active, cursor>>

(* LoadWriterBarrier: there are events to read, or there are none. *)
ReaderLoad(k, s) ==
  /\ rpc[k][s] = "load"
  /\ \E position \in Positions :
       /\ Upstream(k, s, position)
       /\ IF cursor[k][s] < position
          THEN /\ rpc' = [rpc EXCEPT ![k][s] = "read"]
               /\ upto' = [upto EXCEPT ![k][s] = position]
          ELSE rpc' = [rpc EXCEPT ![k][s] = "poll"] /\ UNCHANGED upto
  /\ UNCHANGED <<others, jpc, late, active, cursor>>

(* A reader or an AddReader of stage 2 inside a call of stage 1's barrier. *)
UpstreamCall(s) ==
  /\ \/ (jpc[2][s] = "ask" \/ rpc[2][s] = "load") /\ Up!LoadWord0(s)
     \/ Up!LoadStep(s)
  /\ UNCHANGED <<others, readerVars>>

(* The reader stores its cursor, at the end of the batch or in it. *)
ReaderAdvance(k, s) ==
  /\ rpc[k][s] = "read"
  /\ \E q \in cursor[k][s] + 1 .. upto[k][s] :
       /\ cursor' = [cursor EXCEPT ![k][s] = q]
       /\ IF q = upto[k][s]
          THEN /\ rpc' = [rpc EXCEPT ![k][s] = "poll"]
               /\ upto' = [upto EXCEPT ![k][s] = 0]
          ELSE UNCHANGED <<rpc, upto>>
  /\ UNCHANGED <<others, jpc, late, active, upVars>>

(* The reader function returns, removed or by itself, and runSlot frees    *)
(* the slot; an AddReader that has not set the bit yet is going to.        *)
ReaderReturn(k, s) ==
  /\ s \in Leavers[k]
  /\ SetPc(k, s, "poll", "free")
  /\ IF jpc[k][s] = "stored"
     THEN late[k][s] < MaxLate[k] /\ late' = [late EXCEPT ![k][s] = @ + 1]
     ELSE UNCHANGED late
  /\ jpc' = [jpc EXCEPT ![k][s] = "none"]
  /\ active' = [active EXCEPT ![k] = @ \ {s}]
  /\ UNCHANGED <<others, upto, cursor, upVars>>

JoinStep(k, s) == JoinLoad(k, s) \/ JoinStore(k, s) \/ JoinActivate(k, s)

ReaderStep(k, s) ==
  \/ ReaderStart(k, s)
  \/ ReaderPoll(k, s)
  \/ ReaderLoad(k, s)
  \/ ReaderAdvance(k, s)

Next ==
  \/ Publish
  \/ WriterStep
  \/ \E k \in Stages, s \in Slots :
       \/ JoinClaim(k, s)
       \/ JoinStep(k, s)
       \/ LateActivate(k, s)
       \/ Remove(k, s)
       \/ ReaderStep(k, s)
       \/ ReaderReturn(k, s)
  \/ \E s \in Slots : UpstreamCall(s)

Spec == Init /\ [][Next]_vars

(***************************************************************************)
(* SpecRegistered is the program that registers stage 1's readers before   *)
(* any of stage 2 and before the first publish; those of stage 2 come and  *)
(* go at any time.  In SpecOrdered no AddReader call on stage 2 overlaps a *)
(* refresh of the writer's gate, either.                                   *)
(***************************************************************************)
InJoin(k) == \E s \in Slots : jpc[k][s] \in Joining \/ late[k][s] > 0

Registered ==
  InJoin(1)' => /\ wpc' = "idle" /\ writeCursor' = 0
                /\ \A s \in Slots : rpc'[2][s] = "free"

Ordered == Registered /\ (InJoin(2)' => lpc' = "idle")

SpecRegistered == Init /\ [][Next /\ Registered]_vars
SpecOrdered == Init /\ [][Next /\ Ordered]_vars

(***************************************************************************)
(* SpecStill is the program whose publishing goroutine makes the AddReader *)
(* calls itself, between two publishes.                                    *)
(***************************************************************************)
Still == \A k \in Stages : InJoin(k)' => wpc' = "idle"

SpecStill == Init /\ [][Next /\ Still]_vars

(***************************************************************************)
(* As in RingBuffer: goroutines that can run do run, a call that has begun *)
(* goes on, a removed reader returns, and nobody has to publish or join.   *)
(***************************************************************************)
Fairness ==
  /\ WF_vars(WriterStep)
  /\ \A k \in Stages : \A s \in InUse[k] :
       /\ WF_vars(JoinStep(k, s))
       /\ WF_vars(LateActivate(k, s))
       /\ WF_vars(ReaderStep(k, s) \/ (jpc[k][s] = "removed" /\ ReaderReturn(k, s)))
  /\ \A s \in InUse[2] : WF_vars(UpstreamCall(s))

FairSpecOrdered == SpecOrdered /\ Fairness

-----------------------------------------------------------------------------
(* A slot is a member once its AddReader has loaded a position, as long as *)
(* its bit is set or going to be; a reader that joins a slot that is still *)
(* a member is held by its cursor.                                         *)
Pending(k, s)  == s \in active[k] \/ late[k][s] > 0
Member(k, s)   == Pending(k, s) \/ jpc[k][s] \in {"loaded", "stored"}
Position(k, s) ==
  IF jpc[k][s] = "loaded" /\ ~Pending(k, s) THEN upto[k][s] ELSE cursor[k][s]

(* The bit of a reader that had returned when its AddReader set it. *)
Ghost(k, s) == s \in active[k] /\ rpc[k][s] = "free"

TypeOK ==
  /\ Leaf!BarrierTypeOK
  /\ Up!BarrierTypeOK
  /\ writeCursor \in Nat
  /\ cachedSlowestReader \in Nat
  /\ wpc \in {"idle", "load", "fill", "commit"}
  /\ jpc \in [Stages -> [Slots -> {"none", "removed"} \cup Joining]]
  /\ late \in [Stages -> [Slots -> Nat]]
  /\ rpc \in [Stages -> [Slots -> {"free", "wait", "poll", "load", "read"}]]
  /\ upto \in [Stages -> [Slots -> Nat]]
  /\ active \in [Stages -> SUBSET Slots]
  /\ cursor \in [Stages -> [Slots -> Nat]]

(***************************************************************************)
(* StageOrder: "stage N only consumes events all of stage N-1 has          *)
(* committed": what a reader of stage 2 has consumed, or is about to, is   *)
(* behind the cursor of every reader of stage 1, whatever has left stage 1 *)
(* or moved while a barrier was being computed.                            *)
(***************************************************************************)
StageOrder ==
  \A d \in Slots, u \in active[1] :
    /\ Member(2, d) => Position(2, d) <= cursor[1][u]
    /\ rpc[2][d] = "read" \/ jpc[2][d] = "loaded" => upto[2][d] <= cursor[1][u]

(***************************************************************************)
(* NoLap: the element the writer is about to overwrite has been consumed   *)
(* by the readers of both stages, though the writer looks at the last      *)
(* stage only, or at the first one through it when the last is empty.      *)
(***************************************************************************)
NoLap ==
  wpc = "fill" =>
    \A k \in Stages, s \in Slots :
      Member(k, s) => writeCursor + 1 <= Position(k, s) + BufferSize

(* NoLapUpstream: NoLap for the readers of stage 1. *)
NoLapUpstream ==
  wpc = "fill" =>
    \A s \in Slots : Member(1, s) => writeCursor + 1 <= Position(1, s) + BufferSize

(***************************************************************************)
(* UpstreamNotBehind: the barrier a gated reader of stage 2 polls is never *)
(* behind what that reader has already consumed, so that a comparison of   *)
(* the two says whether there is something to read.                        *)
(***************************************************************************)
UpstreamNotBehind ==
  \A s \in active[2] :
    bpc[s] = "done" /\ rpc[2][s] = "load" => cursor[2][s] <= least[s]

(* GateMonotone: the writer's gate never goes back, though readers of both *)
(* stages come and go and stage 2 may empty.                               *)
GateMonotone == [][cachedSlowestReader' >= cachedSlowestReader]_vars

(***************************************************************************)
(* LeafCatchesUp: a gated reader of stage 2 always gets to the writer's    *)
(* cursor again (the writer stops at MaxSequence, or sooner): the readers  *)
(* of stage 1 get there first, and the barrier between the stages lets     *)
(* every event through, unless the bit of a reader that had returned when  *)
(* it was set stays set in stage 1 for ever.                               *)
(***************************************************************************)
LeafCatchesUp ==
  (\A u \in Slots : []<>~Ghost(1, u)) =>
     \A s \in InUse[2] :
       []<>(s \in active[2] /\ ~Ghost(2, s) => cursor[2][s] = writeCursor)

-----------------------------------------------------------------------------
(* The inductive invariant of SpecRegistered.                              *)

(* A call of stage 1's barrier has a caller who waits for it; the writer's *)
(* waits for stage 2's Load, and that for a publish.                       *)
CallsInv ==
  /\ \A s \in Slots : bpc[s] # "idle" => jpc[2][s] = "ask" \/ rpc[2][s] = "load"
  /\ bpc[Writer] # "idle" => NeedsUpstream
  /\ lpc # "idle" => wpc = "load"

(* The stages of an AddReader and of its reader function; a reader that    *)
(* joins a slot still a member does not start behind what was waited for.  *)
LifeInv ==
  \A k \in Stages, s \in Slots :
    /\ jpc[k][s] \in {"ask", "loaded"} => rpc[k][s] = "wait"
    /\ rpc[k][s] = "free" => jpc[k][s] = "none"
    /\ jpc[k][s] = "loaded" /\ Pending(k, s) => cursor[k][s] <= upto[k][s]

(* What SpecRegistered promises of the AddReader calls under way. *)
JoinInv == InJoin(1) => wpc = "idle" /\ writeCursor = 0 /\ \A s \in Slots : rpc[2][s] = "free"

(* Nothing is ahead of the writer. *)
BoundInv ==
  /\ cachedSlowestReader <= writeCursor /\ lastMinimum <= writeCursor
  /\ \A k \in Stages, s \in Slots :
       cursor[k][s] <= writeCursor /\ upto[k][s] <= writeCursor
  /\ \A c \in Callers : least[c] <= writeCursor

(* A call c of stage 1's barrier accounts for every reader of stage 1: its *)
(* bit is read or in the word still to be read, its cursor is still to be  *)
(* read or bounds the minimum.                                             *)
ScanInv ==
  \A c \in Callers, u \in active[1] :
    /\ bpc[c] = "word1" => u \in bits[c] \/ u >= WordSize
    /\ bpc[c] = "max" => u \in bits[c]
    /\ bpc[c] = "scan" => u \in left[c] \/ least[c] <= cursor[1][u]
    /\ bpc[c] = "done" => least[c] <= cursor[1][u]

(* The call c will not return less than position. *)
AtLeast(c, position) ==
  /\ bpc[c] \in {"word1", "max"} => \A t \in bits[c] : position <= cursor[1][t]
  /\ bpc[c] = "scan" =>
       position <= least[c] /\ \A t \in left[c] : position <= cursor[1][t]
  /\ bpc[c] = "done" => position <= least[c]

(* A member of stage 2 is not sent back, nor one that joins its slot. *)
PollInv ==
  \A s \in Slots :
    Member(2, s) /\ (rpc[2][s] = "load" \/ jpc[2][s] = "ask") => AtLeast(s, cursor[2][s])

(* The gate, the cached minimum and what the Load under way can answer are *)
(* behind the readers of stage 1, whatever joins stage 2 meanwhile.        *)
FirstInv ==
  \A u \in Slots : Member(1, u) =>
    /\ wpc \in {"fill", "commit"} => HasRoom(writeCursor + 1, Position(1, u))
    /\ cachedSlowestReader <= Position(1, u)
    /\ lastMinimum <= Position(1, u)
    /\ lpc = "scan" => \A p \in Leaf!Paths : minimum[p] <= Position(1, u)
    /\ lpc = "done" => loaded <= Position(1, u)

(* What a Load can answer is not ahead of the writer. *)
AnswerInv ==
  /\ lpc = "scan" => \A p \in Leaf!Paths : minimum[p] <= writeCursor
  /\ lpc = "done" => loaded <= writeCursor

(***************************************************************************)
(* StagesInv: what holds with readers of stage 2 that join at any time.    *)
(* Each call of stage 1's barrier, the writer's as well, accounts for the  *)
(* readers of stage 1 (poolBarrier.Load, and BitmapReaderPool.Load).       *)
(***************************************************************************)
StagesInv ==
  /\ TypeOK
  /\ CallsInv
  /\ LifeInv
  /\ JoinInv
  /\ BoundInv
  /\ ScanInv
  /\ StageOrder
  /\ PollInv
  /\ FirstInv
  /\ AnswerInv

-----------------------------------------------------------------------------
(* The inductive invariant of SpecOrdered.                                 *)

(* No AddReader of stage 2 overlaps a refresh. *)
LeafJoinInv == InJoin(2) => lpc = "idle"

(* The writer is not a lap ahead of its gate. *)
RoomInv == wpc \in {"fill", "commit"} => HasRoom(writeCursor + 1, cachedSlowestReader)

(* Neither the writer's own call nor the position of a new reader of stage *)
(* 2 will be behind the gate.                                              *)
BehindInv ==
  /\ \A s \in Slots : jpc[2][s] = "ask" => AtLeast(s, cachedSlowestReader)
  /\ AtLeast(Writer, cachedSlowestReader)

(* The gate is behind every member of stage 2. *)
GateInv == \A s \in Slots : Member(2, s) => cachedSlowestReader <= Position(2, s)

(* The writer's Load of stage 2 accounts for the readers of stage 2. *)
LoadInv ==
  /\ lpc = "bitmap1" => \A s \in active[2] : s \in bitmap \/ s >= WordSize
  /\ lpc \in {"upstream", "gate", "max"} => active[2] \subseteq bitmap
  /\ lpc = "upstream" => bitmap = {} /\ lastBitmap = {}
  /\ lpc = "gate" => lastBitmap # {}
  /\ \A s \in bitmap : cachedSlowestReader <= cursor[2][s]
  /\ lpc = "scan" =>
       /\ todo \subseteq bitmap
       /\ \A p \in Leaf!Paths : cachedSlowestReader <= minimum[p]
       /\ \A s \in active[2] :
            s \in todo \/ \E p \in Leaf!Paths : minimum[p] <= cursor[2][s]
  /\ lpc = "done" =>
       /\ cachedSlowestReader <= loaded
       /\ \A s \in active[2] : loaded <= cursor[2][s]
  /\ lastBitmap # {} =>
       lastMinimum = IF lpc = "done" THEN loaded ELSE cachedSlowestReader

(***************************************************************************)
(* PipelineInv: the whole of it.  What was registered in order stays       *)
(* accounted for in every barrier computed while its readers move or leave *)
(* (BitmapReaderPool.Load, poolBarrier.Load).                              *)
(***************************************************************************)
PipelineInv ==
  /\ StagesInv
  /\ LeafJoinInv
  /\ RoomInv
  /\ BehindInv
  /\ GateInv
  /\ LoadInv
=============================================================================
