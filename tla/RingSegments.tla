---------------------------- MODULE RingSegments ----------------------------
(***************************************************************************)
(* A ring as the code makes it: its size is the nextPow2 of what was asked *)
(* for, an index is found with the machine's &, and its reader is gated by *)
(* a MinimumBarrier over stages that read before it.  Batches, segments    *)
(* and iterations are RingLayout's.                                        *)
(***************************************************************************)
EXTENDS RingArithmetic, RingLayout

CONSTANTS
  Stages,       \* number of barriers under the MinimumBarrier
  UsedSize      \* bound: larger rings are built, but nothing is published

ASSUME SegmentsAssumption == Stages \in Nat \ {0}

VARIABLES
  capacity,   \* the capacity asked of NewRingBuffer
  upstream    \* position of each stage under the MinimumBarrier

vars == <<capacity, upstream, layoutVars>>

(* The value of BitAnd. *)
MachineAnd(x, y) == x & y

(* NewRingBuffer, for a capacity that has a power of two above it. *)
Init ==
  /\ capacity \in 2 .. 2^(Width - 2)
  /\ bufferSize = nextPow2(capacity)
  /\ Empty
  /\ upstream = [b \in 1 .. Stages |-> 0]

(* A stage under the MinimumBarrier gets further. *)
StageAdvance(b) ==
  /\ \E q \in upstream[b] + 1 .. published : upstream' = [upstream EXCEPT ![b] = q]
  /\ UNCHANGED <<capacity, layoutVars>>

RingStep ==
  /\ \/ bufferSize <= UsedSize /\ \E n \in 1 .. bufferSize - 1 : Reserve(n)
     \/ FillNext
     \/ Commit
     \/ \E end \in 1 .. MinimumLoad(upstream) : Iterate(end)
     \/ YieldNext
     \/ Advance
  /\ UNCHANGED <<capacity, upstream>>

Next == RingStep \/ \E b \in 1 .. Stages : StageAdvance(b)

Spec == Init /\ [][Next]_vars

-----------------------------------------------------------------------------
(***************************************************************************)
(* RoundsUp: for a capacity that has a power of two above it, nextPow2     *)
(* gives the least such power: seq & mask is seq modulo the ring's size.   *)
(***************************************************************************)
RoundsUp == bufferSize = Min({p \in Powers : p >= capacity})

(***************************************************************************)
(* MinimumIsLeast: for cursors, which are never negative, the differences  *)
(* do not overflow and MinimumBarrier.Load returns the least of them, up   *)
(* to the largest sequence an integer holds.                               *)
(***************************************************************************)
MinimumIsLeast == MinimumLoad(upstream) = Min(Range(upstream))
=============================================================================
