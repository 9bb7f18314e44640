--------------------------- MODULE GatingBarrier ---------------------------
(***************************************************************************)
(* BitmapReaderPool.Load: the barrier the single writer consults when its  *)
(* cached gate is exhausted.  The call is split at its shared-memory       *)
(* accesses: the two words of the activeSlots bitmap, the upstream cursor  *)
(* and one reader cursor per scanned slot are each read in a step of their *)
(* own, so that readers join, leave and advance in the middle of a scan.   *)
(* The fields lastMinimum, lastBitmap and gatingSlot are the cache the     *)
(* call leaves behind; lpc, bitmap, todo, minimum, gating and loaded are   *)
(* its locals, and are reset when the caller takes the result.             *)
(*                                                                         *)
(* The two uint64 words of the bitmap are one set of slots; Word says      *)
(* which word holds the bit of a slot (64 slots a word in the code).       *)
(***************************************************************************)
EXTENDS Integers, FiniteSets

CONSTANTS
  NumSlots,   \* reader slots of the pool (128 in the code)
  WordSize    \* slots per bitmap word (64 in the code)

Slots == 0 .. NumSlots - 1

(* The word of the bitmap a slot's bit lives in: slotId >> 6. *)
Word(s) == IF s < WordSize THEN 0 ELSE 1

VARIABLES
  writerCursor,   \* the upstream position the pool was built over
  activeSlots,    \* the slots whose bit is set in the activity bitmap
  cursor,         \* the cursor of every slot, used or not
  lastMinimum,    \* cached minimum
  lastBitmap,     \* cached bitmap (both words)
  gatingSlot,     \* cached index of the slowest reader
  lpc,            \* where the call is; "idle" when no call is running
  bitmap,         \* the bits of activeSlots read so far
  todo,           \* slots of bitmap still to be scanned
  minimum,        \* the two accumulators minA, minB
  gating,         \* and gatingA, gatingB
  loaded          \* the value being returned

cacheVars == <<lastMinimum, lastBitmap, gatingSlot>>
scanVars  == <<todo, minimum, gating>>

Paths == {"A", "B"}

(***************************************************************************)
(* The unrolled scan sends the slots of a word alternately to accumulator  *)
(* A and accumulator B, and starts every word with A.                      *)
(***************************************************************************)
Path(s) ==
  IF Cardinality({t \in bitmap : Word(t) = Word(s) /\ t < s}) % 2 = 0
  THEN "A" ELSE "B"

BarrierInit ==
  /\ activeSlots = {}
  /\ cursor = [s \in Slots |-> 0]
  /\ lastMinimum = 0
  /\ lastBitmap = {}
  /\ gatingSlot = 0
  /\ lpc = "idle"
  /\ bitmap = {}
  /\ todo = {}
  /\ minimum = [p \in Paths |-> 0]
  /\ gating = [p \in Paths |-> 0]
  /\ loaded = 0

-----------------------------------------------------------------------------
(* bitmap0 := activeSlots[0].Load() *)
LoadBitmap0 ==
  /\ lpc = "idle"
  /\ bitmap' = {s \in activeSlots : Word(s) = 0}
  /\ lpc' = "bitmap1"
  /\ UNCHANGED <<cacheVars, scanVars, loaded>>

(* Mutant: the cache is trusted although the set of readers has changed.   *)
LoadBitmap1NoTopology ==
  LET all == bitmap \cup {s \in activeSlots : Word(s) = 1} IN
  /\ lpc = "bitmap1"
  /\ bitmap' = all
  /\ lpc' = IF all = {} THEN "upstream" ELSE "gate"
  /\ UNCHANGED <<cacheVars, scanVars, loaded>>

(* Mutant: the second word of the bitmap is not looked at. *)
LoadBitmap1OneWord ==
  /\ lpc = "bitmap1"
  /\ lpc' = IF bitmap # lastBitmap THEN "max"
            ELSE IF bitmap = {} THEN "upstream" ELSE "gate"
  /\ UNCHANGED <<cacheVars, scanVars, bitmap, loaded>>

(* bitmap1 := activeSlots[1].Load(), then the topology check. *)
LoadBitmap1 ==
  LET all == bitmap \cup {s \in activeSlots : Word(s) = 1} IN
  /\ lpc = "bitmap1"
  /\ bitmap' = all
  /\ lpc' = IF all # lastBitmap THEN "max"
            ELSE IF all = {} THEN "upstream" ELSE "gate"
  /\ UNCHANGED <<cacheVars, scanVars, loaded>>

(* No readers, and none at the last call either: the upstream position. *)
LoadUpstream ==
  /\ lpc = "upstream"
  /\ loaded' = writerCursor
  /\ lpc' = "done"
  /\ UNCHANGED <<cacheVars, scanVars, bitmap>>

(* The gating slot has not moved: the cached minimum is returned. *)
GateHit ==
  /\ lpc = "gate"
  /\ cursor[gatingSlot] = lastMinimum
  /\ loaded' = lastMinimum
  /\ lpc' = "done"
  /\ UNCHANGED <<cacheVars, scanVars, bitmap>>

(* The gating slot moved: scan everyone. *)
GateMiss ==
  /\ lpc = "gate"
  /\ cursor[gatingSlot] # lastMinimum
  /\ lpc' = "max"
  /\ UNCHANGED <<cacheVars, scanVars, bitmap, loaded>>

(* scanAll starts from the upstream position, which both accumulators get. *)
ScanMax ==
  /\ lpc = "max"
  /\ todo' = bitmap
  /\ minimum' = [p \in Paths |-> writerCursor]
  /\ gating' = [p \in Paths |-> 0]
  /\ lpc' = "scan"
  /\ UNCHANGED <<cacheVars, bitmap, loaded>>

(* One iteration: the lowest slot not yet scanned goes to its accumulator. *)
ScanSlot ==
  /\ lpc = "scan"
  /\ \E s \in todo :
       LET p == Path(s) IN
       /\ \A t \in todo : s <= t
       /\ todo' = todo \ {s}
       /\ IF cursor[s] < minimum[p]
          THEN /\ minimum' = [minimum EXCEPT ![p] = cursor[s]]
               /\ gating' = [gating EXCEPT ![p] = s]
          ELSE UNCHANGED <<minimum, gating>>
  /\ UNCHANGED <<cacheVars, lpc, bitmap, loaded>>

(* Mutant: the second accumulator is not merged. *)
ScanDoneOneAccumulator ==
  /\ lpc = "scan"
  /\ todo = {}
  /\ lastMinimum' = minimum["A"]
  /\ gatingSlot' = gating["A"]
  /\ lastBitmap' = bitmap
  /\ loaded' = minimum["A"]
  /\ lpc' = "done"
  /\ UNCHANGED <<scanVars, bitmap>>

(* The two accumulators are merged, the cache is refilled. *)
ScanDone ==
  LET best == IF minimum["B"] < minimum["A"] THEN "B" ELSE "A" IN
  /\ lpc = "scan"
  /\ todo = {}
  /\ lastMinimum' = minimum[best]
  /\ gatingSlot' = gating[best]
  /\ lastBitmap' = bitmap
  /\ loaded' = minimum[best]
  /\ lpc' = "done"
  /\ UNCHANGED <<scanVars, bitmap>>

(* The call returns: its locals are dead. *)
LoadReturn ==
  /\ lpc = "done"
  /\ lpc' = "idle"
  /\ bitmap' = {}
  /\ todo' = {}
  /\ minimum' = [p \in Paths |-> 0]
  /\ gating' = [p \in Paths |-> 0]
  /\ loaded' = 0
  /\ UNCHANGED cacheVars

(* One step of a running call. *)
LoadStep ==
  \/ LoadBitmap1
  \/ LoadUpstream
  \/ GateHit
  \/ GateMiss
  \/ ScanMax
  \/ ScanSlot
  \/ ScanDone

BarrierTypeOK ==
  /\ writerCursor \in Nat
  /\ activeSlots \subseteq Slots
  /\ cursor \in [Slots -> Nat]
  /\ lastMinimum \in Nat
  /\ lastBitmap \subseteq Slots
  /\ gatingSlot \in Slots
  /\ lpc \in {"idle", "bitmap1", "upstream", "gate", "max", "scan", "done"}
  /\ bitmap \subseteq Slots
  /\ todo \subseteq Slots
  /\ minimum \in [Paths -> Nat]
  /\ gating \in [Paths -> Slots]
  /\ loaded \in Nat
=============================================================================
