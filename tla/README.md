# go-spmc-ring in TLA+

A verification development for `spmc`, the single-producer / multi-consumer ring
buffer of this repository: TLA+ modules translated from the Go source, TLC
configurations that check them on small instances, and TLAPS proofs of the safety of
the ring, of the layout of its batches, of the pool of reader goroutines, of a two-stage
pipeline and of the latency harness, for every ring size, number of slots and number of
readers.

## 1. Inventory of the system

| Component (source) | State | Operations | Modelled in |
|---|---|---|---|
| Ring and single writer (`ring_buffer.go`) | `writeCursor` (shared), `nextSequence`, `cachedSlowestReader` (private to the writer), `buffer` | `Publish`, `PublishFunc`, `TryPublish`, `TryPublishFunc`, `Reserve`, `TryReserve`, `Commit`, `Remaining`, `PublishBatch`, `PublishBatchFunc` | `RingBuffer` |
| Gating barrier (`BitmapReaderPool.Load`, `scanAll`) | two words of `activeSlots`, 128 cursors; the cache `lastMinimum`, `lastBitmap0/1`, `gatingSlot` | `Load` | `GatingBarrier` |
| Reader lifecycle (`bitmap_reader_pool.go`) | `allocatedSlots`, `activeSlots`; per slot `state`, `readerFunc`, `ctx`, `cancelFn`; the pooled goroutine and its idle count; `rootCtx`, `wg` | `AddReader`, `RemoveReader`, `runSlot`, `Shutdown` | `BitmapReaderPool`, `PoolCalls` (details), `RingBuffer` (what the writer can observe) |
| Reader side (`ReadView`, a `ReaderFunc`) | the slot's cursor | `LoadWriterBarrier`, `Get`, `GetSegments`, `Iterate`, `cursor.Store` | `RingBuffer`, `RingLayout` |
| Arithmetic (`nextPow2`, `segments`, `MinimumBarrier.Load`) | none | pure | `RingArithmetic`, `RingLayout`, `RingSegments` |
| Pipeline (`ring_buffer_pipeline.go`, `poolBarrier`, `scanAllStateless`) | one pool per stage, wired before the first publish | `NewStage`, `SetGatingStage`, `Barrier` | `PoolBarrier`, `Pipeline` |
| Wait strategies, backoff parameters | none | `wait`; the idle loop, its threshold and its delays | the idle loop and its threshold in `BitmapReaderPool`; delays change no state |
| Latency harness (`internal/latencytest`) | the readers' counts and cursors, the stamps of the stages, the recorders; the producer's context | `Run`, `RunPipeline`, three producers, four reader loops, `buildResult` | `LatencyRun` (a histogram is its count; no clocks) |
| Latency command (`internal/cmd/latency`) | flags | a matrix of runs, one after the other | not modelled |
| Cache-line constants, benchmarks, CI | layout and measurement | | not modelled |

How they interact: the writer goroutine calls `gatingBarrier.Load()` when its
private gate is exhausted. `Load` reads the activity bitmap and the reader cursors,
which any goroutine changes at any time through `AddReader`, `RemoveReader`, a
`cursor.Store` or a reader function that returns. A reader reads `writeCursor` and
then plain elements of `buffer`: nothing but the gate keeps the writer off them.
In a pipeline the readers of stage 2 read the minimum of stage 1 instead of
`writeCursor`, each by its own call of a `poolBarrier`; the writer waits for stage 2
alone, and its `Load` asks the same `poolBarrier` for the upstream position.
All shared words are Go atomics (sequentially consistent), so an interleaving of
single accesses is the whole behaviour.

What is hard here:

- **joining**: `AddReader` reads the position it starts from, and becomes visible to
  the gate several operations later;
- **scanning**: one `Load` reads up to 131 words, at different times, while readers
  join, leave and advance; and most calls do not scan but trust a cache;
- **stages**: the minimum of a stage is recomputed by many goroutines at once while
  its readers join, leave and advance, and an empty stage is transparent;
- **slot reuse**: a slot and its pooled goroutine serve one reader after the other,
  while `AddReader`/`RemoveReader` calls for the last one may still be under way;
- **stopping**: an idle goroutine gives up with a compare-and-swap that races with
  `AddReader`; `Shutdown` races with everything; the harness cancels its readers and
  reads their results without waiting for them;
- **boundaries**: strict against inclusive gate, batches that end at the end of the
  ring, the power-of-two mask.

What makes each part correct:

- *writer*: never overwrites, nor races with, an event a gated reader has still to
  read; publishes a batch at once; `Remaining` agrees with `TryPublish`; does not
  wait for readers that have caught up or left;
- *barrier*: never returns a position ahead of a reader, never goes back, and does
  not stick to a reader that is gone;
- *pipeline*: a stage consumes only what the stage before it has; the writer laps no
  stage though it looks at the last; every event gets through;
- *lifecycle*: at most one goroutine per slot, nothing of the last reader left for
  the next, a removal reaches the reader it is for, the activity bit follows the
  reader, an added reader runs, `Shutdown` leaves nothing running;
- *reader*: sees every event published after it joined, once and in order;
- *harness*: ends, and its result lacks nothing that was recorded when the ring was drained.

## 2. The modules

```
BoundedBroadcast         what the ring promises (abstract)
GatingBarrier            BitmapReaderPool.Load
RingBuffer               writer + GatingBarrier (INSTANCE) + readers
RingRefinement           RingBuffer implements BoundedBroadcast
RingJoins                the same with a history variable, for joins at any time
RingSafetyProofs         safety of the ring under quiet joins   \
RingRefinementProofs     its refinement                          | TLAPS
RingJoinsProofs          both, for joins at any time            /
PoolBarrier              poolBarrier.Load, many callers at once
Pipeline                 writer + GatingBarrier + PoolBarrier + readers of two stages
MCPipeline               which slots get readers, and which leave, for TLC
PipelineProofs           safety of the pipeline (TLAPS)
BitmapReaderPool         life of readers, slots and goroutines
PoolCalls                the same with a history variable
BitmapReaderPoolProofs   safety of the pool (TLAPS)
PoolCallsProofs          safety of calls that do not overlap on a slot (TLAPS)
LatencyRun               a run of the harness over the ring or two stages
MCLatencyRun             its scenarios for TLC
LatencyRunProofs         safety of a run, and that it is a broadcast (TLAPS)
RingArithmetic           nextPow2, MinimumBarrier.Load (operators)
RingLayout               segments, batch loops, GetSegments, Iterate
RingSegments             RingLayout with the code's sizes, & and MinimumBarrier
RingLayoutProofs         safety of the layout (TLAPS)
```

A definition that follows a comment `Mutant:` is not part of a model: it
is a plausible mistake, before the definition it would replace, that the property
named for it in `PROJECT.json` catches. They keep the properties honest.

### GatingBarrier

`activeSlots` is the set of slots whose bit is set, `Word(s)` the word a bit is in;
`lastBitmap` stands for both cached words. `Load` is `LoadBitmap0`, `LoadBitmap1`
(with the topology check), then either `LoadUpstream` (no readers), `GateHit` (the
cached minimum), or `GateMiss`/`ScanMax`, one `ScanSlot` for each slot and
`ScanDone`, which refills the cache. The two accumulators A and B of the unrolled
loop are kept (`Path`): which of two equally slow readers becomes the gating slot
depends on them. `gating` starts at slot 0, as in the code, whether or not slot 0 has
a reader. When the result is taken, the call's locals are reset, which only merges
states.

### RingBuffer

| Go | TLA+ |
|---|---|
| hot path of `Publish*`, `Reserve`, `Try*` | `Claim(n, m)`: with room under the cached gate go to `fill`, else to `load` |
| `cachedSlowestReader = gatingBarrier.Load()` | `StartLoad`, `RunLoad`, then `Granted`, `WaitAgain` (blocking calls), `Refused` (try calls) or `Reported` (`Remaining`) |
| payload stores, `PublishBatch*` loops | `WriteSlot`, one element a step |
| `writeCursor.Store; nextSequence = ...` | `Commit` (the second is private to the writer) |
| `AddReader` | `JoinLoad` (slot, position), `JoinStore` (cursor), `JoinActivate` (bit), or `LateActivate` (bit, for a reader that has returned) |
| `runSlot`, reader function | `ReaderStart`, `ReaderPoll`, `ReaderLoad`, `ReaderAdvance`, `ReaderReturn` |
| `RemoveReader` | `Remove` |

`jpc` is the `AddReader` under way in a slot and `rpc` its reader function: with a
pooled goroutine the function may run before the bit is set. It may also return before
that, and `runSlot` frees the slot, for the next reader perhaps, while the `AddReader`
has still to set the bit: `late` counts such calls per slot, and `LateActivate` is the
store. What is left when no other reader has come is a *ghost*: a bit whose cursor nobody
moves (`Ghost`, finding 4). The payload of sequence q is q. A reader may store its cursor
after the batch or after any event of it, as the two consumers of `internal/latencytest`
do. These things are coarser here than in the code; `BitmapReaderPool` has the first four in
full:

- the slot is claimed together with the load of the position;
- whether a slot has a pooled goroutine is not kept, so that a reader function may run as
  soon as its state is stored (`JoinStore`) in any slot, not only in a reused one;
- the cleanup of `runSlot` is one step (`ReaderReturn`);
- a `RemoveReader` reaches only the reader it is meant for, after its `AddReader` has
  returned the slot;
- at most `MaxLate` calls of a slot are late at once. It is a bound for TLC; the theorems
  hold for every value.

`Modes` are the kinds of call the writer makes: blocking, `Try*`, `Remaining`.

`Spec` lets everything interleave. `SpecQuiet` excludes one interleaving: the writer
begins no refresh of its gate while an `AddReader` is *overtaken*, that is, between its load
of the writer position and its store of the bit, with an event published since. That holds when
nothing is committed while an `AddReader` is under way, late or not (`SpecPaused`; the
theorem `PausedIsQuiet` says so), so when readers are added before the first publish, as every example of the documentation
does, or from the writer's own goroutine between two calls; and an `AddReader` from
elsewhere may still overlap publications that need no refresh, and refreshes that see the
writer where it saw it. Without it the ring is not safe for that reader (finding 1).

### RingJoins

`RingJoins` says how far that goes. It takes `Spec`, with no condition on when readers
join, and adds a history variable: `missed` is the set of slots whose `AddReader` was
overtaken when a refresh began, until their reader leaves. A refresh that misses a reader
may take a gate that is ahead of it, or cache a minimum that is; when the reader's bit is
then seen, the gate moves back. `NotLapped` and `JoinsBroadcast` say that this costs the
missed reader events and nobody else: every other reader, in whatever slot, keeps the
whole promise of `BoundedBroadcast`. To the broadcast a reader that is missed has left.
`WriterUnblocked` and `ReaderCatchesUp` are checked here too, missed readers included. With
a ghost in the ring the writer does wait for ever, so `WriterUnblocked` is conditional: if no
slot is a ghost for ever, the writer gets out of every wait. A ghost goes when the slot's next
reader joins, or with a `RemoveReader` of the slot. `ReaderCatchesUp` has no such
condition: ghosts stop the writer, and the readers then catch up with it.

### PoolBarrier, Pipeline

`PoolBarrier` is `poolBarrier.Load`: per caller, the word 0, the word 1, the stage's own
upstream, then one cursor a step. Nothing is cached, so a call is its locals. The two
accumulators of `scanAllStateless` are one minimum here, since without a gating index
nothing tells them apart.

`Pipeline` is the wiring in the comment on `NewStage`: stage 1 over the writer, stage 2
over stage 1's barrier, stage 2 as the gating stage. The callers of stage 1's barrier
are the slots of stage 2 (a reader's `LoadWriterBarrier`, or the `AddReader` of the slot
for the position it starts from) and the writer, from inside stage 2's cached `Load`, at
the two places where `GatingBarrier` reads its upstream (`AskUpstream`, then the
barrier's steps, then `RunLoad` with the answer). The writer is `Publish`; batches are in
`RingBuffer`. Readers are as there: `JoinClaim`, `JoinLoad`, `JoinStore`, `JoinActivate`,
`ReaderStart` .. `ReaderReturn`, `Remove`, `LateActivate`; the reader loop is that of the two
functions in `internal/latencytest/pipeline.go`, with the cursor stored at any event. The list of
what is coarser in `RingBuffer` applies here too. A ghost in stage 1 stops stage 2,
so that `LeafCatchesUp` is conditional as `WriterUnblocked` is.

`SpecRegistered` is the program the documentation shows: the readers of stage 1 are added
before any of stage 2 and before the first publish; those of stage 2 join and leave at any
time. In `SpecOrdered` moreover no `AddReader` on stage 2 overlaps a refresh of the gate
(which is more than `SpecQuiet` asks of the ring): without that a reader of stage 2 can be
missed and lapped as in finding 1, though one of stage 1 cannot (`NoLapUpstream`).
`SpecStill` only has the publishing goroutine make the `AddReader` calls itself; it is not
enough (finding 6).

A longer chain repeats the link between the two stages; only the first and the last
stage are special, and both are here.

### BitmapReaderPool, PoolCalls

Every access to an atomic word is an action; `pc` is the client of each reader (its
one `AddReader`, then its one `RemoveReader`), `gpc` the goroutine of each slot.
`state` is the set of the three bits. `currentState` is what the goroutine loaded
from it, which the compare-and-swap of `Terminate` uses. `oldState` is what
`AddReader`'s swap returned. `Spec` allows calls from any goroutine; `SerialSpec`
has one goroutine make all `AddReader` and `RemoveReader` calls. The loops that
retry a failed compare-and-swap are one atomic action each: a failed attempt changes
nothing. The wait group is the set of goroutines that have not called `Done`; that
`sync.WaitGroup` may panic when `Add` meets a `Wait` at zero is not modelled. `idleLoops` counts the idle rounds of a goroutine, and `terminateThreshold`, after
which it tries to stop, is chosen in `Init` from `Thresholds`: it is 6000 by default and
set by `WithBackoffParams` in the ring's own pool, and 0 in the pool of a `Stage`.

`PoolCalls` adds one history variable: `overlapped`, the slots on which two calls were
under way at once, or whose reader returned unasked. `AddReader` and `RemoveReader` name a
slot, not a reader, so a call can find the slot already the next reader's; findings 3
and 4 are two ways. `ReaderGatesWriter`, `NoGhostBit`, `OnlyRemovedCancelled` and
`AddedReaderStarts` say that it is the only way: in every other slot, with calls on other
slots overlapping freely, the bit follows the reader, nobody is cancelled by
a stranger's call, and an added reader runs. What happens in the others is in the
violation runs of findings 3 and 4; that a stranger is cancelled there (hazard at
`bitmap_reader_pool.go:255`) has no run of its own.

### LatencyRun

`Run` and `RunPipeline` as clients of the ring: register the readers, produce until the
deadline, sleep, cancel, pair the stamps of the two stages, merge the recorders. The ring
appears as what it promises: a publishing call waits in `stall` for `HasRoom` over the last
stage, and the readers see `published` or the minimum of the stage before. The three
producers differ in what they do at the deadline and between bursts (`Fire`,
`ReturnAtDeadline`), and `burst` and `reserve` in publishing one by one or a batch. The
slow reader of `Hetero` (`perEvent`) stores its cursor after each event, the others after
the batch. A timestamp is the sequence it was taken for. A reader of the last stage has a
recorder, whose histogram is the number of measurements in it, `recorded`: `RecordConsume`
leaves out those that are not positive, as two readings of the clock may give, and those
beyond the histogram's range, so that each event may or may not be counted. `MaxDropped` bounds how
many are left out. `Merge` takes a histogram as one step. Without a drain a reader may be
writing it meanwhile, a data race that is not modelled, and nothing is claimed of such runs. The sleep before `Cancel` may or may not
be long enough: `drained` records it.

### RingLayout, RingSegments, RingArithmetic

In `RingLayout` a writer reserves, fills and commits through `segments`; a reader reads ranges of
what is published through `GetSegments` and `Iterate`, and may break out of an
iteration. The size of the ring is any of `Sizes`, and `&` is a constant operator
`BitAnd`, of which only one thing is assumed: that `q & (size - 1)` is `q % size`.

`RingSegments` is the ring the code makes. Integers have `Width` bits and wrap; the ring is
sized by `nextPow2(capacity)` for every capacity that has a power of two above it, stages
advance, and the reader's ranges end at `MinimumBarrier.Load`. Here `&`, `|` and the
shifts are computed on the bits, that of `MinimumBarrier.Load` on the two's complement of
a negative difference (`LoadIteration`: `diff & (diff >> 63)` with the width of the
integers), so TLC checks the assumption on `BitAnd`, that the sizes are
powers of two (`RoundsUp`), and that the barrier is behind what is published
(`MinimumIsLeast`).

## 3. What TLC checks

| Run | Instance | Shows |
|---|---|---|
| `ring_batches` | `SpecQuiet`; ring of 4, single events and batches of 3, 5 sequences, 2 slots in one word, the reader in slot 1 may leave, before its `AddReader` is done as well; blocking calls and `Remaining` | `IInv`, `NoDataRace`, `RemainingExact`, `NoOverrun`, `ImplementsBroadcast`, `GateMonotone` |
| `ring_joins` | `FairJoinsSpec`; ring of 2, 2 sequences, one slot in each word, readers join at any time, the one in slot 1 may leave, before its `AddReader` is done as well; blocking and `Try*` calls | `JoinsInv`, `NotLapped`, `WriterUnblocked`, `ReaderCatchesUp`, `JoinsBroadcast` |
| `ring_late_join` | `Spec`; ring of 2, 1 slot | violates `GetSegmentsContract` (finding 1) |
| `ring_stale_gate` | `FairSpec`; as `ring_joins`, 3 sequences, all calls, both readers may leave, `MaxLate` 0 | violates `WriterUnblocked` (finding 2) |
| `pipeline` | `FairSpecOrdered`; ring of 2, 3 sequences, one slot in each word, two readers in stage 1 and one in stage 2, the reader in slot 0 of each may leave, that of stage 1 before its `AddReader` is done as well | `PipelineInv`, `StageOrder`, `NoLap`, `UpstreamNotBehind`, `GateMonotone`, `LeafCatchesUp` |
| `pipeline_runtime_join` | `SpecStill`; as `pipeline`, `MaxLate` 0 | violates `StageOrder` (finding 6) |
| `pool_lifecycle` | `CallsSpec`; 2 readers, one of which may return by itself, 2 slots in two words, threshold 2 | `PoolInv`, `AtMostOneGoroutine`, `TenantIsolation`, `RemoveReachesReader`, `NothingRunsAfterShutdown`, `ReaderGatesWriter`, `NoGhostBit`, `OnlyRemovedCancelled`, `CallsInv`, `AddedReaderStarts`, `ShutdownReturns`, `IdleGoroutineLeaves` |
| `pool_late_deactivate` | `Spec`; 2 readers share 1 slot, threshold 0 | violates `RunningReaderGated` (finding 3) |
| `pool_ghost_bit` | `SerialSpec`; 2 readers share 1 slot and may return, threshold 0 | violates `FreeSlotsUngated` (finding 4) |
| `pool_leaked_slot` | `SerialSpec`; 2 readers share 1 slot, threshold 0 | violates `StopsOnlyWhenFree` (finding 5) |
| `segments` | 5-bit integers, rings of 2 to 8, published to in those of 2 and 4 up to sequence 15 | `RoundsUp`, `MinimumIsLeast`, `FillsWholeClaim`, `YieldsInOrder` |
| `latency` | `FairSpec`; ring of 4, bursts of 3, 6 sequences; two readers of one stage or one of each of two, with each producer, and `Hetero`; one event of a reader may go unrecorded | `ReadIntact`, `StampSurvives`, `PairsOneEvent`, `MergeComplete`, `LatencyInv`, `RunFinishes`, `OverBroadcast` |

Bounds, and why they are enough:

- `MaxSequence`: the writer publishes no further. In each ring run it exceeds
  or equals the size of the ring, so that elements are reused and the gate refuses.
  Sequences only enter comparisons, differences and `% BufferSize`.
  1,716,291 distinct states in `ring_batches`; 168,334 in `ring_joins`, whose 2 sequences are
  the least for which a reader is overtaken, missed and lapped: with 3, where the
  temporal properties are out of reach, its invariants hold too, with all `Modes` (2,896,143
  states).
- `NumSlots`, `WordSize`: `ring_joins` and the pipeline have a slot in each word,
  `ring_batches` two in one word, which the two accumulators share between them.
  Slots are claimed lowest first, as in the code, and reused any number of times.
- `InUse` of `Pipeline` (in `MCPipeline`): two readers in stage 1, so that one may be scanned, or leave,
  while the other moves. With 477,921 distinct states a second reader in stage 2 is out of
  reach; the theorems of section 5 have no such bound.
- `Readers` of the pool: a hazard of slot reuse needs the reader that leaves and the
  one that comes; each may take either slot. 168,261 distinct states.
- `Thresholds`: with 2 a goroutine idles, counts and then stops. A goroutine with
  threshold 0 stops at its first idle look; what it does is what one with 2 does, without
  the idle rounds. The violation runs use 0, the value of a `Stage`'s pool.
- `MaxLate`: with 1, a slot may have an `AddReader` that is late, a ghost, and a next reader that
  joins beside either; a second late call of the slot is the same store once more. The
  violation runs of the ring and the pipeline show their defect with 0, so that a ghost is not what stops the writer there.
  In the pipeline it is 1 for stage 1 and 0 for stage 2. With 1 for both (764,966 states) all
  of the run's properties were found to hold too, in about five minutes.
- `Modes`: `ring_batches` has blocking calls and `Remaining`, `ring_joins` blocking and `Try*`
  calls, of which the batches have one event, the only length a ring of 2 admits. In
  `ring_batches` a refused `Try*` call leaves the writer where a blocking one waits, and as
  many states are reached with `Try*` calls instead; with all three kinds together its
  properties were found to hold too (2,233,306 states).
- `MaxDropped`: one event unrecorded makes what was recorded differ from what was seen.
- `Quitters`, `Leavers` name who may leave. A reader outside `Leavers` stays, which is
  what distinguishes `ring_joins` from `ring_stale_gate`.
- `UsedSize` of `RingSegments`: rings of 8 are built and compared with the least power
  of two, but only those of 2 and 4 are published to.
- `MaxSequence` of `LatencyRun`: a lap and a half, or two bursts. Its `Fire` stops there; the
  deadline may fall anywhere before. 582,754 distinct states.

Deadlock is checked in the ring and pipeline runs. The pool really stops after
`Shutdown`, a run of the harness when its result is merged, and `RingSegments` when its
integers are used up, so their configurations say
`CHECK_DEADLOCK FALSE`.

## 4. Fairness

Weak fairness, but for one action, and of steps that a goroutine takes by itself:

- `WriterStep`: a writer inside a call goes on. Every wait strategy returns.
- `JoinStore`/`JoinActivate`, `LateActivate`, and `AddStep`/`RemoveStep` once begun: a call is not
  abandoned. In the pool, all goroutines of the Go scheduler run.
- `ReaderStep(s)`: a reader function keeps running its loop and storing its cursor. This
  is what the README asks of it: "advance `cur` after consuming or the writer will
  eventually stall" (`README.md:128`).
- `ReaderReturn(s)` once the reader is removed; `Done(s) /\ ReaderReturn(s)` in the
  pool: a function whose context is done returns.
- `RunSlot(s)`, `WaitGroupDone`: the pooled goroutine and `Shutdown`.
- In `Pipeline`, `WriterStep`, `JoinStep`, `LateActivate`, `ReaderStep`, `ReaderReturn` once the reader is
  removed, and `UpstreamCall(s)`: whoever is inside `poolBarrier.Load` comes out.
- In `LatencyRun`, `ProducerStep`, `Deadline`, `RunStep` and `ReaderStep(r)`: goroutines run and timers
  go off. Strong fairness is assumed of `ReturnAtDeadline` alone: the fixed-rate producer
  selects between its ticker and its context, and Go's `select` picks at random among what
  is ready, so it does not take the tick for ever.

Nobody has to publish, to add or remove a reader, to shut down or to return without a
reason. `Cleanup` is part of `RunSlot`, and so are the idle loop and the stop at its
threshold.

## 5. What is proved

### The ring

For all `BufferSize > 1`, `BatchSizes \subseteq 1 .. BufferSize-1`, `NumSlots`,
`WordSize` with `NumSlots <= 2 * WordSize`, `Modes`, `MaxSequence`, `Leavers` and
`MaxLate` (`RingAssumption`):

| Theorem | Statement |
|---|---|
| `TypeCorrect` | `Spec => []TypeOK` |
| `PausedIsQuiet` | `SpecPaused => SpecQuiet` |
| `Invariance` | `SpecQuiet => []IInv` |
| `NoOverrunHolds` | `SpecQuiet => []NoOverrun` |
| `NoDataRaceHolds` | `SpecQuiet => []NoDataRace` |
| `RemainingExactHolds` | `SpecQuiet => []RemainingExact` |
| `GateMonotoneHolds` | `SpecQuiet => GateMonotone` |
| `GetSegmentsContractHolds` | `SpecQuiet => []GetSegmentsContract` |
| `Refinement` | `SpecQuiet => ImplementsBroadcast` |

The argument. Call a slot a *member* from the load of its `AddReader` to the clearing
of its bit, and while an `AddReader` of it is late; let its *position* be what that load
returned, and later its cursor. A reader that joins a slot that is still a member, as a ghost or
because a late call is yet to come, is held by the slot's cursor, which its load is not behind.
A ghost only ever holds the gate back, so that safety does not depend on there being none.

1. `WriterInv`: the writer never claims beyond `cachedSlowestReader + BufferSize - 1`.
2. `GateInv`: neither the writer's gate nor the barrier's cached minimum is ahead of a
   member's position. With 1, no claim reaches the element of an unread event, which is
   `NoDataRace`; with `BufferInv` (the last `BufferSize` sequences written are in their
   elements), also `NoOverrun`.
3. `GateInv` is not inductive without knowing what a `Load` under way will return.
   `LoadInv` says that each member is accounted for: it is among the bits read so far, or
   its bit is in the word still to be read, or it joined during the call and stands at the
   writer's position, which does not move meanwhile because the caller *is* the writer.
   During the scan, a member is still to be scanned or one of the two minima is at or
   below its position; positions only grow.
4. The last conjuncts of `LoadInv` tie the cached minimum to the writer's gate, and
   keep the cursor of every slot whose bit was read at or above that gate even after its
   reader has left: a scan never returns less than the last one did. This is
   `GateMonotone`.
5. Only `Commit` changes what a client sees as published; under 1 and 2 it is a
   `PublishBatch` of `BoundedBroadcast`. `JoinLoad` is its `Join`, the clearing of a bit its
   `Leave`, the store of a cursor its `Consume`, and every other step stutters.

Step 3 needs `QuietJoin`: a member that has loaded its position, that is behind the writer and
whose bit is not yet set when a refresh begins, is in neither of the sets, and the writer goes
past it.

### The ring, with joins at any time

Under the same `RingAssumption`, in `RingJoinsProofs`:

| Theorem | Statement |
|---|---|
| `JoinsInvHolds` | `JoinsSpec => []JoinsInv` |
| `NotLappedHolds` | `JoinsSpec => []NotLapped` |
| `UnmissedIntactHolds` | `JoinsSpec => []UnmissedIntact` (`NoOverrun` and `NoDataRace` of unmissed readers) |
| `UnmissedSegmentsHolds` | `JoinsSpec => []UnmissedSegments` (`GetSegmentsContract` of unmissed readers) |
| `JoinsBroadcastHolds` | `JoinsSpec => JoinsBroadcast` |

1. The invariants of `SpecQuiet` do not survive one missed reader: its cursor may be more than a
   lap behind, the next scan returns it, and the gate and the cached minimum move back to it, so that
   neither the gate is monotone nor `WriterInv` true. What does hold is a statement about each reader by
   itself: `Accounted(s)` bounds the claim, the gate, the cache and what a `Load` under way
   may return by the position of `s`, and mentions no other reader.
2. It is inductive because a call of `Load` only ever takes minima: another reader, missed or
   not, can lower an answer but not raise it above `s`; and because what the gate
   allowed the last claim is kept of the claim itself, when the gate moves back.
3. A claim under a gate that is not ahead of `s` is less than a lap beyond `s`: `NotLapped`, and
   with `BufferInv`, which no reader enters into, `UnmissedIntact`.
4. For the refinement a reader leaves when a refresh that misses it begins; one refresh may miss several,
   so `Leave` of `BoundedBroadcast` takes a set.
5. `JoinsNext` only says of `Next` what `missed` becomes, so that no step of the ring is excluded,
   and under quiet joins `missed` stays empty. `GateMonotone`, `RemainingExact` and
   `WriterInv` are the ones that need `SpecQuiet`.

### The pool

For all `Readers`, `NumSlots`, `WordSize`, `Quitters` and `Thresholds` (`PoolAssumption`;
`None` is chosen outside `Readers`), and calls from any goroutine:

| Theorem | Statement |
|---|---|
| `PoolInvHolds` | `Spec => []PoolInv` |
| `PoolTypeCorrect` | `Spec => []TypeOK` |
| `AtMostOneGoroutineHolds` | `Spec => []AtMostOneGoroutine` |
| `TenantIsolationHolds` | `Spec => []TenantIsolation` |
| `RemoveReachesReaderHolds` | `Spec => []RemoveReachesReader` |
| `NothingRunsAfterShutdownHolds` | `Spec => []NothingRunsAfterShutdown` |

`OwnerInv`: an `AddReader` call has its slot to itself until it has swapped the state and,
if the swap found no `Running` bit, until it has spawned the goroutine; no two calls own one slot, and
no goroutine is at work in an owned one. `SlotInv` says, for each place the goroutine may be
at, what `state`, `readerFunc`, `ctx` and `cancelFn` are: at work it has a context made for
the function it calls; between two readers there is neither context nor cancel function. The
two make a second goroutine impossible and keep a reader from finding what the last one
left. `RemovalInv` ties a removal to the reader it is for: once `RemoveReader` has cleared
`Active`, either it grabs that reader's cancel function, or the goroutine finds the bit clear when it
looks again after publishing the function. `PoolCalls` takes the actions of this module as they
are, so that all of this holds there as well.

### Calls that do not overlap

Under the same assumptions, in `PoolCallsProofs`:

| Theorem | Statement |
|---|---|
| `CallsInvHolds` | `CallsSpec => []CallsInv` |
| `ReaderGatesWriterHolds` | `CallsSpec => []ReaderGatesWriter` |
| `NoGhostBitHolds` | `CallsSpec => []NoGhostBit` |
| `OnlyRemovedCancelledHolds` | `CallsSpec => []OnlyRemovedCancelled` |

`CallsInv` adds to `PoolInv` what a slot looks like as long as its calls came one after the
other:

1. `TurnInv`: while the pool is up, of all the readers that ever had the slot one at most is
   between its claim and the end of its `RemoveReader`. From its swap on, `state` and `readerFunc` are
   its own; the bit is set from its activation to its own removal, and at no other time. The last
   step of a `RemoveReader` clears the bit of its own reader, because the next claim
   of the slot comes later or overlaps.
2. `OccupantInv`, whether the pool is up or not: when the goroutine has prepared, or runs, a
   reader's function, every other reader that had the slot is removed. With `HoldInv` (a context
   is of a reader of the slot) this carries the turn from the calls to the goroutine, which is
   behind them: `ReaderGatesWriter`.
3. `GrabbedInv`: the cancel function a removal holds is that of a reader that is being removed,
   which is why `cancelled` gets no other (`OnlyRemovedCancelled`).

A free slot has no reader between claim and removal, so that its bit is clear: `NoGhostBit`.
All three properties fail in a slot with overlapped calls (findings 3 and 4).

### The pipeline

For all `BufferSize > 1`, `MaxSequence`, `NumSlots`, `WordSize` with
`NumSlots <= 2 * WordSize`, `InUse`, `Leavers` and `MaxLate` (`PipelineAssumption`), so any number of readers in each
stage:

| Theorem | Statement |
|---|---|
| `StagesInvHolds` | `SpecRegistered => []StagesInv` |
| `StageOrderHolds` | `SpecRegistered => []StageOrder` |
| `UpstreamNotBehindHolds` | `SpecRegistered => []UpstreamNotBehind` |
| `NoLapUpstreamHolds` | `SpecRegistered => []NoLapUpstream` |
| `PipelineTypeCorrect` | `SpecRegistered => []TypeOK` |
| `PipelineInvHolds` | `SpecOrdered => []PipelineInv` |
| `NoLapHolds` | `SpecOrdered => []NoLap` |
| `GateMonotoneHolds` | `SpecOrdered => GateMonotone` |

With readers of stage 2 that join at any time, also while the writer computes its gate, the
inductive invariant is `StagesInv`. Every behaviour of `SpecOrdered` is one of
`SpecRegistered`, so these theorems state the properties the run `pipeline` checks, and more.

1. `JoinInv` is `Registered` as a state predicate: once stage 2 has a reader or the writer
   publishes, stage 1 only loses readers, and all cursors only grow.
2. `ScanInv`: each call of stage 1's barrier accounts for every reader of stage 1 (its
   bit is read or still to be read, its cursor is still to be read or bounds the minimum).
   A finished call is therefore behind them all, and stays so: `StageOrder`.
3. `PollInv` is the other side. A call by a reader will not return less than the reader's own
   cursor, because that cursor is behind every reader of stage 1 when the call begins:
   `UpstreamNotBehind`.
4. `FirstInv`: the minimum that the writer's `Load` of stage 2 starts from is the answer of
   such a call, and each cursor of stage 2 only lowers it, so what it answers or leaves in the
   cache bounds the readers of stage 1, also when it has missed a reader of stage 2, or found
   none. Hence `NoLapUpstream`.

`PipelineInv` adds what holds of stage 2 when no join overlaps a refresh:

5. `BehindInv`: a call by the writer, or by an `AddReader`, will not return less than the gate.
6. `LoadInv` follows the writer's `Load` as in the ring, so that `GateInv` extends to stage 2,
   and with `RoomInv` (the writer is not a lap ahead of its gate) `NoLap` follows.
7. `GateMonotone` is the lower bound in `LoadInv`.

`StagesInv` without the restriction was explored by TLC before it was proved, on the
constants of `pipeline.cfg`, late calls in both stages, with `SpecRegistered` (4,125,202 distinct
states); the listed
run checks it as a conjunct of `PipelineInv`, under `FairSpecOrdered`.

### The layout

For all `Sizes`, `LastSequence` and `BitAnd` with `LayoutAssumption`: `BitAnd(q, size - 1)`
is `q % size`, as it is for powers of two on the machine, and as TLC finds it for the powers
of two and all sequences of a 5-bit integer.

| Theorem | Statement |
|---|---|
| `LayoutInvHolds` | `LayoutSpec => []LayoutInv` |
| `FillsWholeClaimHolds` | `LayoutSpec => []FillsWholeClaim` |
| `YieldsInOrderHolds` | `LayoutSpec => []YieldsInOrder` |

1. `SegmentsSpan`, `GetSegmentsSpan`: the two segments of a range, put one after the other, are
   the remainders of its sequences in order, whether the range ends before, at or beyond the end of the
   ring. This is the case analysis of both functions, by `RemainderStep`.
2. So what is left to fill, and what is left to yield, is always such a list for the rest of the
   range (`WriterInv`, `ViewInv`; `IndicesStep` takes the first off).
3. `BufferInv`: from the cursor of the reader to the writer's last fill is less than a lap, and
   `RemainderDistinct` says that the next fill hits none of these elements.

`LayoutSpec` allows every end up to `published` for a range. The steps of `RingSegments` are
steps of it, since `Iterate` has that guard, and its initial states too because of `RoundsUp`.

### The harness

For all `Readers`, `Capacity > 1`, `BurstSize < Capacity`, `MaxSequence` and every set of scenarios
with a reader in the first stage (`LatencyAssumption`): `Run` and `RunPipeline` set a
number of readers of 0 to 1 (`scenario.go:69`, `pipeline.go:43`), so that no stage is empty.

| Theorem | Statement |
|---|---|
| `LatencyInvHolds` | `Spec => []LatencyInv` |
| `LatencyTypeCorrect` | `Spec => []TypeOK` |
| `ReadIntactHolds` | `Spec => []ReadIntact` |
| `StampSurvivesHolds` | `Spec => []StampSurvives` |
| `PairsOneEventHolds` | `Spec => []PairsOneEvent` |
| `MergeCompleteHolds` | `Spec => []MergeComplete` |
| `OverBroadcastHolds` | `Spec => OverBroadcast` |

1. `ReaderInv`: a reader stores its cursor behind what it has recorded, its batch ends behind what
   the stage before it has stored (`BarrierIs`), and that behind `published`.
2. `ProducerInv` and `LapBound`: a call of the producer ends less than a lap beyond the last stage,
   and the first stage is ahead of the last. All sequences that are written, stamped or being
   published are less than a lap beyond every cursor, so that two of them never share an element
   (`IndexDistinct`). Hence `ElementInv` and `ReadIntact`.
3. `StampInv`: a stamp lies in the element of its event, and in the element of an event that is
   recorded there is its stamp or one of a later lap. `Record` keeps it: a stamp it wrote over
   would have to be more than a lap old. For an event of a batch of the second stage, which the first stage has
   recorded, the later lap is not yet published: `StampSurvives`.
4. `ResultInv`: once the readers are cancelled with everything consumed, no reader has a batch
   left, though it may still be running, so that stamps and histograms no longer change:
   `PairsOneEvent`, and `MergeComplete`, which says that the reader has put every event before
   `RecordConsume` and that nothing it recorded is missing from what was merged; not that
   every event is counted, since `RecordConsume` may leave some out.
5. `Commit` is a `PublishBatch` of `BoundedBroadcast`, `Register` a `Join`, `StoreCursor` a
   `Consume`; every other step stutters.

## 6. What is only model-checked

- Liveness under fairness, which is out of the prover's reach: `WriterUnblocked`,
  `ReaderCatchesUp`, `LeafCatchesUp`, `AddedReaderStarts`, `ShutdownReturns`,
  `IdleGoroutineLeaves`, `RunFinishes`.
- `RoundsUp` and `MinimumIsLeast`. `RingArithmetic` computes with the bit operators of the
  community modules, which are recursive, and with folds, whose value for every input
  needs an induction.

## 7. Findings

1. **A reader that joins while the writer publishes may be lapped**
   (`ring_late_join`; `bitmap_reader_pool.go:110` against `:117`). The documentation
   promises the opposite for a live stream. It takes a refresh of the gate that begins
   between the two, after a publication, and it harms no reader but that one (`RingJoins`).
2. **A departed reader may stall the writer for ever** (`ring_stale_gate`). When no reader is
   behind the writer, `scanAll` leaves the gating slot at 0. If slot 0 has no reader its
   cursor is frozen, and once it equals the cached minimum, the fast path returns that
   minimum for as long as the set of readers does not change. Quiet joins do not help.
3. **A late `deactivateSlot` ungates the slot's next reader** (`pool_late_deactivate`;
   `bitmap_reader_pool.go:261`). The writer can then overrun a running reader.
4. **A late `activateSlot` gates the writer on nobody** (`pool_ghost_bit`;
   `bitmap_reader_pool.go:117`), when a pooled goroutine has run the function and seen
   it return before the bit is set.
5. **A slot may be lost** (`pool_leaked_slot`; `bitmap_reader_pool.go:159`): added and
   removed before the pooled goroutine looks, its state says Allocated when the goroutine
   gives up, and nobody clears its bit in `allocatedSlots`.
6. **A first-stage reader added at runtime may be passed by stage 2**
   (`pipeline_runtime_join`; `bitmap_reader_pool.go:507`). `poolBarrier.Load` reads the two
   words, finds stage 1 empty and then loads the writer's cursor. If the first reader of stage 1
   joins in between, and the writer publishes, the reader of stage 2 is told of events that
   stage 1 has not consumed, though the documentation says readers may be added and
   removed at runtime, and that a stage only sees what the one before it has passed. It
   happens even when the publishing goroutine makes the `AddReader` call, between
   two publishes.

Smaller observations, in the hazards of `PROJECT.json`: a late `cancelFn.Load` may cancel the
next reader; `Shutdown` during `AddReader` leaves an activity bit; `initPool` sets no
backoff parameters, and `WithBackoffParams` only sets those of the ring's own pool, to which
no public call adds readers, so a stage's goroutines stop at their first idle look and what
`README.md:158-160` says of the idle time never applies; the default of 6000 loops, whose
backoff grows to 100 ms, would be about ten minutes and not one; `nextPow2` overflows above
2^62; the harness indexes its stamps by `seq & (bufCap-1)`, which is wrong for a
`BufferSize` that is no power of two, and in a run that was not drained may subtract stamps
of different laps.

## 8. Plan

Done, in this order: the ring with its barrier (the heart of the library), its
abstract specification and proofs; the lifecycle; segments and arithmetic; the pipeline
and its proofs; the pool's proofs and the idle threshold; the harness; the proofs of
`PoolCalls`, of the harness and of the layout; the ring with joins at any time; the order of
the stages and the safety of stage 1 with joins on stage 2 at any time.

Left: what a reader of stage 2 is still promised when its `AddReader` did overlap a refresh
(in the ring that is `UnmissedIntact`).

Not modelled, and not planned: the delays of the wait strategies and of the backoff (nothing
here depends on how long a step takes), cache-line padding and inlining (no effect on
behaviour), benchmarks, histograms and percentiles, the flags and the printing of
`internal/cmd/latency`, CI.
