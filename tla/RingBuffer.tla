----------------------------- MODULE RingBuffer -----------------------------
(***************************************************************************)
(* The ring buffer of ring_buffer.go with its single writer, the barrier   *)
(* the writer waits on (GatingBarrier) and the readers of one stage whose  *)
(* upstream is the writer cursor.  The payload published at sequence q is  *)
(* q itself, as in the repository's simulation tests, so that "a reader    *)
(* finds the right event" is "the slot of q holds q".                      *)
(*                                                                         *)
(* Writer and readers are goroutines: every access to a word they share    *)
(* (writeCursor, a cursor, a bitmap word, an element of the buffer) is a   *)
(* step of its own, and steps interleave freely.  Of the reader's life     *)
(* this module keeps what the writer can observe: the position an          *)
(* AddReader reads and stores, the bit it sets, and the bit that           *)
(* RemoveReader or a returning reader function clears.  A reader may       *)
(* return before its AddReader sets the bit: the bit then outlives it.     *)
(***************************************************************************)
EXTENDS Integers, FiniteSets

CONSTANTS
  BufferSize,   \* capacity of the ring, a power of two in the code
  BatchSizes,   \* the n the writer passes to Reserve and TryReserve
  Modes,        \* the kinds of call it makes: "block", "try", "remaining"
  MaxSequence,  \* bound: the writer publishes no sequence beyond it
  NumSlots,     \* reader slots of the stage
  WordSize,     \* slots per bitmap word
  Leavers,      \* slots whose reader may be removed or return by itself
  MaxLate       \* bound: AddReader calls of a slot its reader has outrun

ASSUME RingAssumption ==
  /\ BufferSize \in Nat \ {0, 1}
  /\ BatchSizes \subseteq 1 .. BufferSize - 1
  /\ MaxSequence \in Nat
  /\ NumSlots \in Nat \ {0}
  /\ WordSize \in Nat \ {0}
  /\ NumSlots <= 2 * WordSize
  /\ MaxLate \in Nat

VARIABLES
  writeCursor,          \* last published sequence
  nextSequence,         \* the writer's private copy of it
  cachedSlowestReader,  \* the writer's private gate
  buffer,               \* what each element of the ring holds
  wpc,                  \* the writer: "idle", "load", "fill" or "commit"
  mode,                 \* the call it is in: "block", "try", "remaining" or "none"
  claim,                \* last sequence of the call's claim
  fill,                 \* next sequence to be written into the buffer
  jpc,                  \* per slot: where its AddReader is, "removed" when its
                        \* reader's context is cancelled, "none" otherwise
  late,                 \* per slot: AddReader calls that have still to set the
                        \* bit, for a reader that has already returned
  rpc,                  \* per slot: its reader function, "free" when unoccupied
  upto,                 \* per slot: the position its goroutine last loaded
  activeSlots, cursor,
  lastMinimum, lastBitmap, gatingSlot,
  lpc, bitmap, todo, minimum, gating, loaded

INSTANCE GatingBarrier WITH writerCursor <- writeCursor

ringVars   == <<writeCursor, nextSequence, cachedSlowestReader, buffer>>
callVars   == <<wpc, mode, claim, fill>>
readerVars == <<jpc, late, rpc, upto, activeSlots, cursor>>
barrierVars == <<lastMinimum, lastBitmap, gatingSlot,
                 lpc, bitmap, todo, minimum, gating, loaded>>
vars == <<ringVars, callVars, readerVars, barrierVars>>

(* The element a sequence is stored in: seq & mask, mask = bufferSize - 1. *)
Index(q) == q % BufferSize

Running == {"wait", "poll", "load", "read"}
Joining == {"loaded", "stored"}

(* Mutant: the strict comparison of the gate is relaxed. *)
HasRoomInclusive(last, gate) == last <= gate + BufferSize

(* cachedSlowestReader is still good enough for a claim that ends at last. *)
HasRoom(last, gate) == last < gate + BufferSize

Init ==
  /\ writeCursor = 0
  /\ nextSequence = 0
  /\ cachedSlowestReader = 0
  /\ buffer = [i \in 0 .. BufferSize - 1 |-> 0]
  /\ wpc = "idle"
  /\ mode = "none"
  /\ claim = 0
  /\ fill = 0
  /\ jpc = [s \in Slots |-> "none"]
  /\ late = [s \in Slots |-> 0]
  /\ rpc = [s \in Slots |-> "free"]
  /\ upto = [s \in Slots |-> 0]
  /\ BarrierInit

-----------------------------------------------------------------------------
(* The writer.                                                             *)

(* Mutant: the gate is asked for the first sequence of the batch only. *)
ClaimFirstOnly(n, m) ==
  /\ wpc = "idle"
  /\ m \in Modes
  /\ nextSequence + n <= MaxSequence
  /\ claim' = nextSequence + n
  /\ fill' = nextSequence + 1
  /\ mode' = m
  /\ wpc' = IF HasRoom(nextSequence + 1, cachedSlowestReader) THEN "fill" ELSE "load"
  /\ UNCHANGED <<ringVars, readerVars, barrierVars>>

(***************************************************************************)
(* A publishing call claims n sequences: with room under the cached gate   *)
(* it goes straight to the slots, otherwise it refreshes the gate.         *)
(***************************************************************************)
Claim(n, m) ==
  /\ wpc = "idle"
  /\ m \in Modes
  /\ nextSequence + n <= MaxSequence
  /\ claim' = nextSequence + n
  /\ fill' = nextSequence + 1
  /\ mode' = m
  /\ wpc' = IF HasRoom(nextSequence + n, cachedSlowestReader) THEN "fill" ELSE "load"
  /\ UNCHANGED <<ringVars, readerVars, barrierVars>>

Publish       == Claim(1, "block")
TryPublish    == Claim(1, "try")
Reserve(n)    == 0 < n /\ n < BufferSize /\ Claim(n, "block")
TryReserve(n) == 0 < n /\ n < BufferSize /\ Claim(n, "try")

(* Remaining refreshes the gate whatever the cached value is. *)
Remaining ==
  /\ wpc = "idle"
  /\ "remaining" \in Modes
  /\ wpc' = "load"
  /\ mode' = "remaining"
  /\ UNCHANGED <<ringVars, claim, fill, readerVars, barrierVars>>

(* The writer calls gatingBarrier.Load() ... *)
StartLoad ==
  /\ wpc = "load"
  /\ LoadBitmap0
  /\ UNCHANGED <<ringVars, callVars, readerVars>>

RunLoad ==
  /\ wpc = "load"
  /\ LoadStep
  /\ UNCHANGED <<ringVars, callVars, readerVars>>

(* The locals of a call are dead when it returns. *)
CallOver == mode' = "none" /\ claim' = 0 /\ fill' = 0

(* ... and stores the result as its new gate, whatever it does next. *)
RefreshGate(next) ==
  /\ wpc = "load"
  /\ LoadReturn
  /\ cachedSlowestReader' = loaded
  /\ wpc' = next
  /\ IF next = "idle" THEN CallOver ELSE UNCHANGED <<mode, claim, fill>>
  /\ UNCHANGED <<writeCursor, nextSequence, buffer, readerVars>>

Granted   == mode # "remaining" /\ HasRoom(claim, loaded) /\ RefreshGate("fill")
WaitAgain == mode = "block" /\ ~HasRoom(claim, loaded) /\ RefreshGate("load")
Refused   == mode = "try" /\ ~HasRoom(claim, loaded) /\ RefreshGate("idle")
Reported  == mode = "remaining" /\ RefreshGate("idle")

(* The payload of one sequence is written into its slot. *)
WriteSlot ==
  /\ wpc = "fill"
  /\ buffer' = [buffer EXCEPT ![Index(fill)] = fill]
  /\ fill' = fill + 1
  /\ wpc' = IF fill = claim THEN "commit" ELSE "fill"
  /\ UNCHANGED <<writeCursor, nextSequence, cachedSlowestReader, mode, claim>>
  /\ UNCHANGED <<readerVars, barrierVars>>

(* Mutant: the writer's private copy of the cursor is not updated. *)
CommitStaleSequence ==
  /\ wpc = "commit"
  /\ writeCursor' = claim
  /\ wpc' = "idle"
  /\ CallOver
  /\ UNCHANGED <<nextSequence, cachedSlowestReader, buffer>>
  /\ UNCHANGED <<readerVars, barrierVars>>

(* One store publishes the whole claim. *)
Commit ==
  /\ wpc = "commit"
  /\ writeCursor' = claim
  /\ nextSequence' = claim
  /\ wpc' = "idle"
  /\ CallOver
  /\ UNCHANGED <<cachedSlowestReader, buffer>>
  /\ UNCHANGED <<readerVars, barrierVars>>

(* What the writer goroutine does once it is inside a call. *)
WriterStep ==
  \/ StartLoad
  \/ RunLoad
  \/ Granted
  \/ WaitAgain
  \/ Refused
  \/ Reported
  \/ WriteSlot
  \/ Commit

WriterCall ==
  \/ Publish
  \/ TryPublish
  \/ \E n \in BatchSizes : Reserve(n) \/ TryReserve(n)
  \/ Remaining

-----------------------------------------------------------------------------
(* The readers.                                                            *)

SetJoin(s, from, to) == jpc[s] = from /\ jpc' = [jpc EXCEPT ![s] = to]
SetPc(s, from, to)   == rpc[s] = from /\ rpc' = [rpc EXCEPT ![s] = to]

writerSide == <<ringVars, callVars, barrierVars>>

(* AddReader claims the lowest free slot, then loads the writer position, *)
JoinLoad(s) ==
  /\ \A t \in Slots : t < s => rpc[t] # "free"
  /\ SetPc(s, "free", "wait")
  /\ SetJoin(s, "none", "loaded")
  /\ upto' = [upto EXCEPT ![s] = writeCursor]
  /\ UNCHANGED <<writerSide, late, activeSlots, cursor>>

(* Mutant: a reused slot keeps the cursor of its last reader. *)
JoinStoreForgotten(s) ==
  /\ SetJoin(s, "loaded", "stored")
  /\ upto' = [upto EXCEPT ![s] = 0]
  /\ UNCHANGED <<writerSide, late, rpc, activeSlots, cursor>>

(* stores it in the slot's cursor and marks the slot as having work, *)
JoinStore(s) ==
  /\ SetJoin(s, "loaded", "stored")
  /\ cursor' = [cursor EXCEPT ![s] = upto[s]]
  /\ upto' = [upto EXCEPT ![s] = 0]
  /\ UNCHANGED <<writerSide, late, rpc, activeSlots>>

(* and sets the activity bit. *)
JoinActivate(s) ==
  /\ SetJoin(s, "stored", "none")
  /\ activeSlots' = activeSlots \cup {s}
  /\ UNCHANGED <<writerSide, late, rpc, cursor, upto>>

(***************************************************************************)
(* The same store of an AddReader whose reader has run and returned in     *)
(* between: nobody looks whether the slot is still that reader's.          *)
(***************************************************************************)
LateActivate(s) ==
  /\ late[s] > 0
  /\ late' = [late EXCEPT ![s] = @ - 1]
  /\ activeSlots' = activeSlots \cup {s}
  /\ UNCHANGED <<writerSide, jpc, rpc, cursor, upto>>

(* A goroutine the slot kept from its last reader starts the function as   *)
(* soon as the slot has work, maybe before the bit is set; a new one is    *)
(* spawned after it.                                                       *)
ReaderStart(s) ==
  /\ jpc[s] # "loaded"
  /\ SetPc(s, "wait", "poll")
  /\ UNCHANGED <<writerSide, jpc, late, activeSlots, cursor, upto>>

(* RemoveReader, called once AddReader has returned the slot, cancels the  *)
(* reader's context and clears the bit at once, wherever the reader        *)
(* function is; it may have returned, and then only the bit is cleared.    *)
Remove(s) ==
  /\ s \in Leavers
  /\ s \in activeSlots
  /\ jpc[s] \notin Joining
  /\ jpc' = [jpc EXCEPT ![s] = IF rpc[s] = "free" THEN "none" ELSE "removed"]
  /\ activeSlots' = activeSlots \ {s}
  /\ UNCHANGED <<writerSide, late, rpc, upto, cursor>>

(* The top of the reader loop, its context not cancelled. *)
ReaderPoll(s) ==
  /\ jpc[s] # "removed"
  /\ SetPc(s, "poll", "load")
  /\ UNCHANGED <<writerSide, jpc, late, activeSlots, cursor, upto>>

(* Mutant: the last published event is left unread. *)
ReaderLoadOffByOne(s) ==
  /\ rpc[s] = "load"
  /\ IF cursor[s] + 1 < writeCursor
     THEN /\ rpc' = [rpc EXCEPT ![s] = "read"]
          /\ upto' = [upto EXCEPT ![s] = writeCursor]
     ELSE /\ rpc' = [rpc EXCEPT ![s] = "poll"]
          /\ UNCHANGED upto
  /\ UNCHANGED <<writerSide, jpc, late, activeSlots, cursor>>

(* LoadWriterBarrier: there are events to read, or there are none. *)
ReaderLoad(s) ==
  /\ rpc[s] = "load"
  /\ IF cursor[s] < writeCursor
     THEN /\ rpc' = [rpc EXCEPT ![s] = "read"]
          /\ upto' = [upto EXCEPT ![s] = writeCursor]
     ELSE /\ rpc' = [rpc EXCEPT ![s] = "poll"]
          /\ UNCHANGED upto
  /\ UNCHANGED <<writerSide, jpc, late, activeSlots, cursor>>

(* The reader stores its cursor: at the end of the batch, or after an     *)
(* event of it.  The reads themselves happen anywhere before.             *)
ReaderAdvance(s) ==
  /\ rpc[s] = "read"
  /\ \E q \in cursor[s] + 1 .. upto[s] :
       /\ cursor' = [cursor EXCEPT ![s] = q]
       /\ IF q = upto[s]
          THEN /\ rpc' = [rpc EXCEPT ![s] = "poll"]
               /\ upto' = [upto EXCEPT ![s] = 0]
          ELSE UNCHANGED <<rpc, upto>>
  /\ UNCHANGED <<writerSide, jpc, late, activeSlots>>

(* The reader function returns, because it was removed or by itself, and  *)
(* runSlot clears the bit and frees the slot.  If AddReader has not set    *)
(* the bit yet, it is still going to.                                      *)
ReaderReturn(s) ==
  /\ s \in Leavers
  /\ SetPc(s, "poll", "free")
  /\ IF jpc[s] = "stored"
     THEN late[s] < MaxLate /\ late' = [late EXCEPT ![s] = @ + 1]
     ELSE UNCHANGED late
  /\ jpc' = [jpc EXCEPT ![s] = "none"]
  /\ activeSlots' = activeSlots \ {s}
  /\ UNCHANGED <<writerSide, upto, cursor>>

JoinStep(s)   == JoinLoad(s) \/ JoinStore(s) \/ JoinActivate(s) \/ LateActivate(s)
ReaderStep(s) == ReaderStart(s) \/ ReaderPoll(s) \/ ReaderLoad(s) \/ ReaderAdvance(s)

Next ==
  \/ WriterCall
  \/ WriterStep
  \/ \E s \in Slots :
       \/ JoinStep(s)
       \/ Remove(s)
       \/ ReaderStep(s)
       \/ ReaderReturn(s)

Spec == Init /\ [][Next]_vars

(* A slot is a member from the moment its AddReader has loaded a position, *)
(* and as long as its bit is set or going to be.                           *)
Member(s) == jpc[s] \in Joining \/ s \in activeSlots \/ late[s] > 0

(* The position below which a member's reader has nothing left to read; a  *)
(* reader that joins a slot that is a member already is held by its cursor.*)
Position(s) ==
  IF jpc[s] = "loaded" /\ s \notin activeSlots /\ late[s] = 0
  THEN upto[s] ELSE cursor[s]

(* The bit of a reader that had returned when its AddReader set it: the    *)
(* writer waits for a cursor nobody advances.                              *)
Ghost(s) == s \in activeSlots /\ rpc[s] = "free"

(***************************************************************************)
(* AddReader reads the writer position and sets the slot's bit some steps  *)
(* later.  In between, it is overtaken while the writer has published what *)
(* the reader has not consumed, and settled otherwise.  It is quiet when   *)
(* no refresh of the gate begins while it is overtaken: SpecQuiet is the   *)
(* program whose joins are all quiet, as those of SpecPaused are.          *)
(***************************************************************************)
Settled(s) ==
  /\ jpc[s] = "loaded" => upto[s] = writeCursor
  /\ jpc[s] = "stored" \/ late[s] > 0 => cursor[s] = writeCursor

Overtaken(s)  == ~Settled(s)
RefreshBegins == lpc = "idle" /\ lpc' # "idle"
QuietJoin     == RefreshBegins => \A s \in Slots : ~Overtaken(s)
SpecQuiet     == Init /\ [][Next /\ QuietJoin]_vars

(* An AddReader has not set its bit yet, whether or not its reader is back.*)
AddUnderWay == \E s \in Slots : jpc[s] \in Joining \/ late[s] > 0

(* The program that commits nothing while an AddReader is under way, as    *)
(* one does that registers its readers before the first publish.           *)
Paused     == AddUnderWay => writeCursor' = writeCursor
SpecPaused == Init /\ [][Next /\ Paused]_vars

(***************************************************************************)
(* The writer is never parked by a lock: each wait strategy returns, so a  *)
(* call that can take a step takes one.  A reader goroutine keeps running  *)
(* its loop, one that is removed returns, and an AddReader under way       *)
(* finishes.  Nobody has to call Publish, AddReader or RemoveReader.       *)
(***************************************************************************)
Fairness ==
  /\ WF_vars(WriterStep)
  /\ \A s \in Slots : /\ WF_vars(JoinStore(s) \/ JoinActivate(s))
                      /\ WF_vars(LateActivate(s))
                      /\ WF_vars(ReaderStep(s) \/ (jpc[s] = "removed" /\ ReaderReturn(s)))

FairSpec == Spec /\ Fairness

-----------------------------------------------------------------------------
(* The last sequence the writer owns or has owned. *)
Claimed == IF wpc \in {"fill", "commit"} THEN claim ELSE nextSequence

(* The events a slot's reader has still to read. *)
Unread(s) == cursor[s] + 1 .. writeCursor

TypeOK ==
  /\ BarrierTypeOK
  /\ nextSequence \in Nat
  /\ cachedSlowestReader \in Nat
  /\ buffer \in [0 .. BufferSize - 1 -> Nat]
  /\ wpc \in {"idle", "load", "fill", "commit"}
  /\ mode \in {"none", "block", "try", "remaining"}
  /\ claim \in Nat
  /\ fill \in Nat
  /\ jpc \in [Slots -> {"none", "removed"} \cup Joining]
  /\ late \in [Slots -> Nat]
  /\ rpc \in [Slots -> {"free"} \cup Running]
  /\ upto \in [Slots -> Nat]

(***************************************************************************)
(* NoOverrun: every published event that a gated reader has not consumed   *)
(* yet is still in the ring, whatever call the writer is in the middle of. *)
(* This is what the strict gate of Publish and Reserve is for.             *)
(***************************************************************************)
NoOverrun ==
  \A s \in activeSlots : \A q \in Unread(s) : buffer[Index(q)] = q

(***************************************************************************)
(* NoDataRace: the element the writer is about to write is never one that  *)
(* a gated reader may be reading at the same time.                         *)
(***************************************************************************)
NoDataRace ==
  wpc = "fill" =>
    \A s \in activeSlots : \A q \in Unread(s) : Index(q) # Index(fill)

(***************************************************************************)
(* RemainingExact: the number Remaining computes from a refreshed gate is  *)
(* within its documented range, and is zero exactly when TryPublish would  *)
(* be refused by the same gate.                                            *)
(***************************************************************************)
RemainingExact ==
  LET room == cachedSlowestReader + BufferSize - 1 - nextSequence IN
  wpc = "idle" =>
    /\ room \in 0 .. BufferSize - 1
    /\ room = 0 <=> ~HasRoom(nextSequence + 1, cachedSlowestReader)

(***************************************************************************)
(* GateMonotone: a refresh never moves the writer's gate backwards, though *)
(* readers come and go and the cached minimum may be returned unscanned.   *)
(***************************************************************************)
GateMonotone == [][cachedSlowestReader' >= cachedSlowestReader]_vars

(***************************************************************************)
(* WriterUnblocked: a writer that refreshes its gate gets out of the wait  *)
(* loop: no set of readers that keep reading, or leave, strands it, unless *)
(* a bit set after its reader had returned stays set for ever.             *)
(***************************************************************************)
WriterUnblocked ==
  (\A s \in Slots : []<>~Ghost(s)) => (wpc = "load" ~> wpc # "load")

(***************************************************************************)
(* ReaderCatchesUp: a reader the writer waits for always gets to the       *)
(* writer's cursor again (the writer stops at MaxSequence, or sooner),     *)
(* unless it leaves, whatever slots without a reader hold the writer back. *)
(***************************************************************************)
ReaderCatchesUp ==
  \A s \in Slots : []<>(s \in activeSlots /\ ~Ghost(s) => cursor[s] = writeCursor)

(***************************************************************************)
(* GetSegmentsContract: "The gating protocol guarantees any range inside   *)
(* [cursor+1, LoadWriterBarrier()] satisfies all three" preconditions of   *)
(* GetSegments, end-start < bufferSize among them.                         *)
(***************************************************************************)
GetSegmentsContract ==
  \A s \in activeSlots :
    rpc[s] = "read" => upto[s] - (cursor[s] + 1) < BufferSize

-----------------------------------------------------------------------------
(* The inductive invariant of SpecQuiet.                                   *)

(* The last sequence whose payload is in the buffer.                       *)
Written == IF wpc = "fill" THEN fill - 1 ELSE Claimed

(* Where a call of the writer stands; neither gate is ahead of the writer. *)
CallInv ==
  /\ nextSequence = writeCursor
  /\ cachedSlowestReader <= writeCursor
  /\ lastMinimum <= writeCursor
  /\ Claimed < writeCursor + BufferSize
  /\ wpc # "load" => lpc = "idle"
  /\ wpc = "load" /\ mode # "remaining" => writeCursor < claim /\ fill = writeCursor + 1
  /\ wpc = "fill" => writeCursor < fill /\ fill <= claim
  /\ wpc = "commit" => writeCursor < claim

(* The gate as it is, after refreshes that were refused, allows the claim. *)
WriterInv == CallInv /\ Claimed < cachedSlowestReader + BufferSize

ReaderInv ==
  \A s \in Slots :
    /\ jpc[s] = "loaded" => rpc[s] = "wait" /\ cursor[s] <= upto[s]
    /\ rpc[s] = "free" => jpc[s] = "none"
    /\ cursor[s] <= writeCursor
    /\ upto[s] <= writeCursor

(* Neither gate is ahead of a member. *)
GateInv ==
  \A s \in Slots :
    Member(s) => cachedSlowestReader <= Position(s) /\ lastMinimum <= Position(s)

(***************************************************************************)
(* Inside a Load, a member is either accounted for by the bits read so far *)
(* or has joined during the call, at the position the writer stands still  *)
(* at.                                                                     *)
(***************************************************************************)
Seen(s) == Position(s) = writeCursor \/ s \in bitmap

LoadInv ==
  /\ lpc # "idle" => \A s \in Slots : Settled(s)
  /\ lpc = "bitmap1" =>
       \A s \in Slots :
         Member(s) => Seen(s) \/ (Word(s) = 1 /\ s \in activeSlots)
  /\ lpc \in {"upstream", "gate", "max"} => \A s \in Slots : Member(s) => Seen(s)
  /\ lpc = "upstream" => bitmap = {} /\ lastBitmap = {}
  /\ lpc = "gate" => lastBitmap # {}
  /\ lpc = "scan" =>
       /\ todo \subseteq bitmap
       /\ \A p \in Paths :
            cachedSlowestReader <= minimum[p] /\ minimum[p] <= writeCursor
       /\ \A s \in Slots : Member(s) =>
            s \in todo \/ \E p \in Paths : minimum[p] <= Position(s)
  /\ \A s \in bitmap : cachedSlowestReader <= cursor[s]
  /\ lpc = "done" =>
       /\ cachedSlowestReader <= loaded
       /\ loaded <= writeCursor
       /\ \A s \in Slots : Member(s) => loaded <= Position(s)
  /\ lastBitmap # {} =>
       lastMinimum = IF lpc = "done" THEN loaded ELSE cachedSlowestReader

(* The last BufferSize sequences written are in their elements. *)
BufferInv ==
  \A q \in 1 .. Written : Written - BufferSize < q => buffer[Index(q)] = q

IInv ==
  /\ TypeOK
  /\ WriterInv
  /\ ReaderInv
  /\ GateInv
  /\ LoadInv
  /\ BufferInv
=============================================================================
