----------------------------- MODULE LatencyRun -----------------------------
(***************************************************************************)
(* The latency harness of internal/latencytest: Run (scenario.go) and      *)
(* RunPipeline (pipeline.go) as clients of the ring.  They register the    *)
(* readers, let a producer run until its deadline, sleep a while so that   *)
(* the readers drain the ring, cancel them and merge what they recorded    *)
(* without waiting for them.                                               *)
(*                                                                         *)
(* The ring is what it promises (BoundedBroadcast, Pipeline): a publishing *)
(* call waits until the readers of the last stage leave room, a reader of  *)
(* the first stage sees what is published, one of the second what all of   *)
(* the first have consumed.  A payload is its Seq; an element that was     *)
(* never written holds 0, and Seq q is kept as q + 1.  A timestamp is the  *)
(* sequence it was taken for.                                              *)
(***************************************************************************)
EXTENDS Integers, FiniteSetsExt

CONSTANTS
  Readers,      \* the readers of all stages
  Capacity,     \* BufferSize, a power of two
  BurstSize,    \* events of a burst
  MaxSequence,  \* bound: nothing is published beyond it
  MaxDropped,   \* bound: events of a reader that its histogram leaves out
  Scenarios     \* [shape, stageOf, perEvent]

Shapes == {"fixed", "burst", "reserve"}

ASSUME LatencyAssumption ==
  /\ Capacity \in Nat \ {0, 1}
  /\ BurstSize \in 1 .. Capacity - 1
  /\ MaxSequence \in Nat
  /\ MaxDropped \in Nat
  /\ Scenarios \subseteq [shape: Shapes, stageOf: [Readers -> 1 .. 2],
                          perEvent: SUBSET Readers]
  /\ \A run \in Scenarios : \E r \in Readers : run.stageOf[r] = 1

VARIABLES
  scenario,    \* the flags: producer, stage of each reader, slow readers
  phase,       \* "setup", "produce", "drain", "pair", "merge", "done"
  expired,     \* producerCtx has reached its deadline
  ppc,         \* the producer: "top", "stall", "fill", "commit", "pause", "returned"
  seq,         \* its count of events
  left,        \* events left of its burst
  published,   \* the ring's writeCursor
  element,     \* the Seq, plus one, in each element of the ring
  registered,  \* readers whose AddReader has returned
  rpc,         \* per reader: "poll", "load", "read", "store", "returned"
  expected,    \* per reader: the next sequence to record
  limit,       \* per reader: w, the last sequence of its batch
  position,    \* per reader: its cursor
  recorded,    \* per reader: measurements in its histogram
  stamp,       \* stageTS: per stage and element, the last sequence stamped
  drained,     \* everything was consumed when the readers were cancelled
  row,         \* RunPipeline: the element whose stamps are read next
  t0,          \* the stamp of stage 1 it has read there
  merged       \* per reader: measurements its histogram had when merged

producerVars == <<expired, ppc, seq, left, published, element>>
readerVars   == <<registered, rpc, expected, limit, position, recorded, stamp>>
resultVars   == <<drained, row, t0, merged>>
vars == <<scenario, phase, producerVars, readerVars, resultVars>>

NotMerged  == -1
Index(q)   == q % Capacity
LastStage  == IF \E r \in Readers : scenario.stageOf[r] = 2 THEN 2 ELSE 1
InStage(k) == {r \in Readers : scenario.stageOf[r] = k}
Leaves     == InStage(LastStage)

Init ==
  /\ scenario \in Scenarios
  /\ phase = "setup"
  /\ expired = FALSE
  /\ ppc = "top"
  /\ seq = 0
  /\ left = 0
  /\ published = 0
  /\ element = [i \in 0 .. Capacity - 1 |-> 0]
  /\ registered = {}
  /\ rpc = [r \in Readers |-> "poll"]
  /\ expected = [r \in Readers |-> 1]
  /\ limit = [r \in Readers |-> 0]
  /\ position = [r \in Readers |-> 0]
  /\ recorded = [r \in Readers |-> 0]
  /\ stamp = [k \in 1 .. 2 |-> [i \in 0 .. Capacity - 1 |-> 0]]
  /\ drained = FALSE
  /\ row = 0
  /\ t0 = 0
  /\ merged = [r \in Readers |-> NotMerged]

-----------------------------------------------------------------------------
(* The producer: FixedRateProducer, BurstProducer, BurstReserveProducer.   *)

Produce(from, to) == phase = "produce" /\ ppc = from /\ ppc' = to

producerOnly == <<scenario, phase, expired, readerVars, resultVars>>

(* Events of one publishing call. *)
CallSize == IF scenario.shape = "reserve" THEN BurstSize ELSE 1

(* A tick of the fixed rate is taken even when the deadline has passed:    *)
(* select chooses among what is ready.  A burst checks the deadline first, *)
(* before every event of it, BurstReserve before the whole.                *)
Fire ==
  /\ Produce("top", "stall")
  /\ scenario.shape = "fixed" \/ ~expired
  /\ published + CallSize <= MaxSequence
  /\ left' = IF scenario.shape = "burst" /\ left = 0 THEN BurstSize ELSE left
  /\ UNCHANGED <<producerOnly, seq, published, element>>

ReturnAtDeadline ==
  /\ expired
  /\ Produce("top", "returned") \/ Produce("pause", "returned")
  /\ UNCHANGED <<producerOnly, seq, left, published, element>>

(* Mutant: the strict comparison of the gate is relaxed. *)
HasRoomInclusive(last) == \A r \in Leaves : last <= position[r] + Capacity

(* Publish and Reserve return once every reader of the last stage has left *)
(* room for the call's last sequence.                                      *)
HasRoom(last) == \A r \in Leaves : last < position[r] + Capacity

Unstall ==
  /\ HasRoom(published + CallSize)
  /\ Produce("stall", "fill")
  /\ UNCHANGED <<producerOnly, seq, left, published, element>>

(* The payload of one element. *)
Fill ==
  /\ Produce("fill", IF seq + 1 = published + CallSize THEN "commit" ELSE "fill")
  /\ element' = [element EXCEPT ![Index(seq + 1)] = seq + 1]
  /\ seq' = seq + 1
  /\ UNCHANGED <<producerOnly, left, published>>

Commit ==
  /\ Produce("commit", IF scenario.shape = "fixed" \/ left > 1 THEN "top" ELSE "pause")
  /\ published' = published + CallSize
  /\ left' = IF left > 0 THEN left - 1 ELSE 0
  /\ UNCHANGED <<producerOnly, seq, element>>

(* The idle time between two bursts is over. *)
Resume ==
  /\ Produce("pause", "top")
  /\ UNCHANGED <<producerOnly, seq, left, published, element>>

ProducerStep == Unstall \/ Fill \/ Commit \/ Resume

-----------------------------------------------------------------------------
(* The readers: makeConsumerFn, makeBatchConsumerFn and the two pipeline   *)
(* functions, which differ in when they store the cursor.                  *)

Read(r, from, to) == rpc[r] = from /\ rpc' = [rpc EXCEPT ![r] = to]

readerOnly == <<scenario, phase, producerVars, registered, resultVars>>

(* Mutant: the readers run under the producer's deadline. *)
CancelledAtDeadline(r) == expired

(* The readers' context derives from the one that Run cancels at the end.  *)
Cancelled(r) == phase \in {"pair", "merge", "done"}

Poll(r) ==
  /\ r \in registered
  /\ IF Cancelled(r) THEN Read(r, "poll", "returned") ELSE Read(r, "poll", "load")
  /\ UNCHANGED <<readerOnly, expected, limit, position, recorded, stamp>>

(* LoadWriterBarrier of the reader's stage. *)
Barrier(r) ==
  IF scenario.stageOf[r] = 1 THEN published
  ELSE Min({position[u] : u \in InStage(1)})

(* Mutant: the cursor is stored before the batch is read. *)
LoadBarrierStores(r) ==
  /\ Read(r, "load", IF expected[r] <= Barrier(r) THEN "read" ELSE "poll")
  /\ limit' = [limit EXCEPT ![r] = Barrier(r)]
  /\ position' = [position EXCEPT ![r] = Barrier(r)]
  /\ UNCHANGED <<readerOnly, expected, recorded, stamp>>

LoadBarrier(r) ==
  /\ Read(r, "load", IF expected[r] <= Barrier(r) THEN "read" ELSE "poll")
  /\ limit' = [limit EXCEPT ![r] = Barrier(r)]
  /\ UNCHANGED <<readerOnly, expected, position, recorded, stamp>>

(* RecordConsume, in the last stage: a latency that is not positive, as    *)
(* two readings of the clock may give, or is beyond the histogram's range  *)
(* is not recorded.                                                        *)
Dropped(r) == expected[r] - 1 - recorded[r]

RecordConsume(r) ==
  \/ r \in Leaves /\ recorded' = [recorded EXCEPT ![r] = @ + 1]
  \/ r \in Leaves /\ Dropped(r) < MaxDropped /\ UNCHANGED recorded
  \/ r \notin Leaves /\ UNCHANGED recorded

(* One event of the batch is stamped and recorded.  The slow reader of     *)
(* Hetero stores its cursor after every event, the others after the last.  *)
Record(r) ==
  /\ Read(r, "read", IF r \in scenario.perEvent \/ expected[r] = limit[r]
                     THEN "store" ELSE "read")
  /\ stamp' = [stamp EXCEPT ![scenario.stageOf[r]][Index(expected[r])] = expected[r]]
  /\ expected' = [expected EXCEPT ![r] = @ + 1]
  /\ RecordConsume(r)
  /\ UNCHANGED <<readerOnly, limit, position>>

StoreCursor(r) ==
  /\ Read(r, "store", IF expected[r] <= limit[r] THEN "read" ELSE "poll")
  /\ position' = [position EXCEPT ![r] = expected[r] - 1]
  /\ UNCHANGED <<readerOnly, expected, limit, recorded, stamp>>

ReaderStep(r) == Poll(r) \/ LoadBarrier(r) \/ Record(r) \/ StoreCursor(r)

-----------------------------------------------------------------------------
(* Run and RunPipeline.                                                    *)

(* AddReader for every reader, stage by stage, before the producer starts. *)
Register(r) ==
  /\ phase = "setup"
  /\ r \notin registered
  /\ \A u \in Readers : scenario.stageOf[u] < scenario.stageOf[r] => u \in registered
  /\ registered' = registered \cup {r}
  /\ UNCHANGED <<scenario, phase, producerVars, resultVars>>
  /\ UNCHANGED <<rpc, expected, limit, position, recorded, stamp>>

StartProducer ==
  /\ phase = "setup"
  /\ registered = Readers
  /\ phase' = "produce"
  /\ UNCHANGED <<scenario, producerVars, readerVars, resultVars>>

Deadline ==
  /\ phase = "produce"
  /\ ~expired
  /\ expired' = TRUE
  /\ UNCHANGED <<scenario, phase, ppc, seq, left, published, element>>
  /\ UNCHANGED <<readerVars, resultVars>>

(* The producer has returned: sleep for the readers to drain the ring, ... *)
Drain ==
  /\ phase = "produce"
  /\ ppc = "returned"
  /\ phase' = "drain"
  /\ UNCHANGED <<scenario, producerVars, readerVars, resultVars>>

(* ... for a time that is enough or not, and cancel the readers.           *)
Cancel ==
  /\ phase = "drain"
  /\ phase' = IF LastStage = 2 THEN "pair" ELSE "merge"
  /\ drained' = (\A r \in Readers : position[r] = published)
  /\ UNCHANGED <<scenario, producerVars, readerVars, row, t0, merged>>

(* RunPipeline compares the stamps of each element, one load after the     *)
(* other.                                                                  *)
ReadT0 ==
  /\ phase = "pair"
  /\ row < Capacity
  /\ t0 = 0
  /\ stamp[1][row] # 0
  /\ t0' = stamp[1][row]
  /\ UNCHANGED <<scenario, phase, producerVars, readerVars, drained, row, merged>>

ReadT1 ==
  /\ phase = "pair"
  /\ row < Capacity
  /\ t0 # 0 \/ stamp[1][row] = 0
  /\ t0' = 0
  /\ row' = row + 1
  /\ UNCHANGED <<scenario, phase, producerVars, readerVars, drained, merged>>

PairsRead ==
  /\ phase = "pair"
  /\ row = Capacity
  /\ phase' = "merge"
  /\ UNCHANGED <<scenario, producerVars, readerVars, resultVars>>

(* buildResult merges the recorders of the last stage one by one; the      *)
(* readers may still be running.                                           *)
Merge(r) ==
  /\ phase = "merge"
  /\ r \in Leaves
  /\ merged[r] = NotMerged
  /\ merged' = [merged EXCEPT ![r] = recorded[r]]
  /\ phase' = IF \A u \in Leaves : merged'[u] # NotMerged THEN "done" ELSE "merge"
  /\ UNCHANGED <<scenario, producerVars, readerVars, drained, row, t0>>

RunStep ==
  \/ StartProducer
  \/ Drain
  \/ Cancel
  \/ ReadT0
  \/ ReadT1
  \/ PairsRead
  \/ \E r \in Readers : Register(r) \/ Merge(r)

Next ==
  \/ Fire
  \/ ReturnAtDeadline
  \/ ProducerStep
  \/ Deadline
  \/ RunStep
  \/ \E r \in Readers : ReaderStep(r)

Spec == Init /\ [][Next]_vars

(***************************************************************************)
(* Goroutines run, and the timers go off.  The fixed-rate producer's       *)
(* select picks at random among the tick and the deadline, so that it does *)
(* not choose the tick for ever.  No event has to be produced.             *)
(***************************************************************************)
Fairness ==
  /\ SF_vars(ReturnAtDeadline)
  /\ WF_vars(ProducerStep)
  /\ WF_vars(Deadline)
  /\ WF_vars(RunStep)
  /\ \A r \in Readers : WF_vars(ReaderStep(r))

FairSpec == Spec /\ Fairness

-----------------------------------------------------------------------------
Elements == 0 .. Capacity - 1
Stamps   == 0 .. MaxSequence

TypeOK ==
  /\ scenario \in Scenarios
  /\ phase \in {"setup", "produce", "drain", "pair", "merge", "done"}
  /\ expired \in BOOLEAN
  /\ ppc \in {"top", "stall", "fill", "commit", "pause", "returned"}
  /\ {seq, published} \subseteq 0 .. MaxSequence
  /\ left \in 0 .. BurstSize
  /\ element \in [Elements -> Stamps]
  /\ registered \subseteq Readers
  /\ rpc \in [Readers -> {"poll", "load", "read", "store", "returned"}]
  /\ expected \in [Readers -> 1 .. MaxSequence + 1]
  /\ limit \in [Readers -> 0 .. MaxSequence]
  /\ position \in [Readers -> 0 .. MaxSequence]
  /\ recorded \in [Readers -> Stamps]
  /\ stamp \in [1 .. 2 -> [Elements -> Stamps]]
  /\ drained \in BOOLEAN
  /\ row \in 0 .. Capacity
  /\ t0 \in Stamps
  /\ merged \in [Readers -> Stamps \cup {NotMerged}]

(* The batch a reader is working on: what it has still to record of it. *)
Batch(r) == IF rpc[r] \in {"read", "store"} THEN expected[r] .. limit[r] ELSE {}

(***************************************************************************)
(* ReadIntact: however late a reader gets to the rest of its batch, and    *)
(* though the slow one gives elements back one by one, each element of the *)
(* batch still holds the payload of its sequence.                          *)
(***************************************************************************)
ReadIntact == \A r \in Readers : \A q \in Batch(r) : element[Index(q)] = q

(***************************************************************************)
(* StampSurvives: while a reader of the second stage has still to stamp an *)
(* event, the stamp of the first stage in the array beside the ring is the *)
(* one of that event, not yet of the one a lap later.                      *)
(***************************************************************************)
StampSurvives ==
  \A r \in InStage(2) : \A q \in Batch(r) : stamp[1][Index(q)] = q

(***************************************************************************)
(* PairsOneEvent: when the sleep was long enough, the two stamps RunPipeline*)
(* subtracts are of the same event, though nobody waits for the readers.   *)
(***************************************************************************)
PairsOneEvent ==
  phase = "pair" /\ drained /\ t0 # 0 => stamp[2][row] = t0

(***************************************************************************)
(* MergeComplete: when the sleep was long enough, a reader that is still   *)
(* running when its histogram is merged has put every event published      *)
(* before RecordConsume, and whatever that recorded is in what was merged. *)
(***************************************************************************)
MergeComplete ==
  drained => \A r \in Leaves : merged[r] # NotMerged =>
    expected[r] = published + 1 /\ merged[r] = recorded[r]

(***************************************************************************)
(* RunFinishes: the run ends, whatever the producer was doing when its     *)
(* deadline passed: one that was waiting for room is released by readers   *)
(* that outlive the deadline.                                              *)
(***************************************************************************)
RunFinishes == <>(phase = "done")

(***************************************************************************)
(* OverBroadcast: what the readers of the last stage get is the broadcast  *)
(* the ring promises; a run adds no way to lap them.                       *)
(***************************************************************************)
Broadcast ==
  INSTANCE BoundedBroadcast
    WITH members  <- registered \cap Leaves,
         position <- [r \in Readers |-> IF r \in Leaves THEN position[r] ELSE 0]

OverBroadcast == Broadcast!BroadcastSpec

-----------------------------------------------------------------------------
(* The inductive invariant.                                                *)

(* Nothing is published, and nothing read, before all are registered. *)
SetupInv ==
  /\ phase = "setup" => published = 0 /\ ppc = "top"
  /\ phase # "setup" => registered = Readers
  /\ \A r \in Readers \ registered : rpc[r] = "poll" /\ position[r] = 0

(* The producer's count runs ahead of what is published by what it has     *)
(* filled of its call, and its call is no lap ahead of the last stage.     *)
ProducerInv ==
  /\ ppc \notin {"fill", "commit"} => seq = published
  /\ ppc = "fill" => seq \in published .. published + CallSize - 1
  /\ ppc = "commit" => seq = published + CallSize
  /\ ppc \in {"stall", "fill", "commit"} => published + CallSize <= MaxSequence
  /\ \A r \in Leaves :
       (IF ppc \in {"fill", "commit"} THEN published + CallSize ELSE published)
         < position[r] + Capacity
  /\ phase \notin {"setup", "produce"} => ppc = "returned"

(* A reader stores its cursor behind what it has recorded, that is behind  *)
(* its batch, and that behind what the stage before it has consumed.       *)
ReaderInv ==
  \A r \in Readers :
    /\ position[r] < expected[r]
    /\ recorded[r] < expected[r]
    /\ expected[r] <= limit[r] + 1
    /\ limit[r] <= published
    /\ \A u \in InStage(1) : scenario.stageOf[r] = 2 => limit[r] <= position[u]
    /\ rpc[r] = "read" => expected[r] <= limit[r]
    /\ rpc[r] = "store" => position[r] < expected[r] - 1

(* The last Capacity payloads written are in their elements. *)
ElementInv ==
  \A q \in 1 .. seq : seq - Capacity < q => element[Index(q)] = q

(* A stamp lies in the element of its event, and the one of an event that  *)
(* a reader of the stage has recorded is of that event or of a later lap.  *)
StampInv ==
  /\ \A k \in 1 .. 2, i \in Elements :
       stamp[k][i] # 0 => Index(stamp[k][i]) = i /\ stamp[k][i] <= published
  /\ \A r \in Readers : \A q \in 1 .. expected[r] - 1 :
       q <= stamp[scenario.stageOf[r]][Index(q)]

(* What is known of the result while it is put together. *)
ResultInv ==
  /\ drained => phase \in {"pair", "merge", "done"} /\ \A r \in Readers : position[r] = published
  /\ phase = "pair" => LastStage = 2
  /\ phase \notin {"merge", "done"} => \A r \in Readers : merged[r] = NotMerged
  /\ t0 # 0 => phase = "pair" /\ row < Capacity /\ (drained => t0 = stamp[1][row])

(***************************************************************************)
(* LatencyInv: whatever the producer, the stages and the slow readers, no  *)
(* cursor, batch or stamp is more than a lap from what is written over it. *)
(***************************************************************************)
LatencyInv ==
  /\ TypeOK
  /\ SetupInv
  /\ ProducerInv
  /\ ReaderInv
  /\ ElementInv
  /\ StampInv
  /\ ResultInv
  /\ MergeComplete
=============================================================================
