---------------------------- MODULE PoolBarrier ----------------------------
(***************************************************************************)
(* poolBarrier.Load: the stateless minimum of a stage, which the readers   *)
(* of the next stage call all at once from their own goroutines, and the   *)
(* writer from inside the leaf's Load.  It caches nothing, so a call is    *)
(* its locals, kept here for every caller: the two bitmap words, then the  *)
(* stage's own upstream, then one cursor per slot whose bit was set, each  *)
(* read in a step of its own.                                              *)
(*                                                                         *)
(* The accumulators minA and minB of the unrolled loop are one minimum     *)
(* here: without a gating index nothing tells them apart.                  *)
(***************************************************************************)
EXTENDS Integers

CONSTANTS
  Callers,    \* who may be inside a call
  NumSlots,   \* reader slots of the stage
  WordSize    \* slots per bitmap word

VARIABLES
  writerCursor,   \* the stage's upstream
  activeSlots,    \* the slots whose bit is set
  cursor,         \* the cursor of every slot
  bpc,            \* per caller: where its call is; "idle" when there is none
  bits,           \* per caller: the bits read
  left,           \* per caller: slots of bits still to be scanned
  least           \* per caller: the minimum so far

Slots == 0 .. NumSlots - 1

InWord(w) == {s \in activeSlots : (IF s < WordSize THEN 0 ELSE 1) = w}

Step(c, from, to) == bpc[c] = from /\ bpc' = [bpc EXCEPT ![c] = to]

BarrierInit ==
  /\ bpc = [c \in Callers |-> "idle"]
  /\ bits = [c \in Callers |-> {}]
  /\ left = [c \in Callers |-> {}]
  /\ least = [c \in Callers |-> 0]

(* b0 := activeSlots[0].Load() *)
LoadWord0(c) ==
  /\ Step(c, "idle", "word1")
  /\ bits' = [bits EXCEPT ![c] = InWord(0)]
  /\ UNCHANGED <<left, least>>

(* b1 := activeSlots[1].Load() *)
LoadWord1(c) ==
  /\ Step(c, "word1", "max")
  /\ bits' = [bits EXCEPT ![c] = @ \cup InWord(1)]
  /\ UNCHANGED <<left, least>>

(* Mutant: an empty stage reports the initial position. *)
LoadUpstreamZero(c) ==
  /\ Step(c, "max", IF bits[c] = {} THEN "done" ELSE "scan")
  /\ left' = [left EXCEPT ![c] = bits[c]]
  /\ least' = [least EXCEPT ![c] = IF bits[c] = {} THEN 0 ELSE writerCursor]
  /\ UNCHANGED bits

(* The stage's own upstream: the result for an empty stage ("propagate     *)
(* upstream position unchanged"), the start of the minimum for another.    *)
LoadUpstream(c) ==
  /\ Step(c, "max", IF bits[c] = {} THEN "done" ELSE "scan")
  /\ left' = [left EXCEPT ![c] = bits[c]]
  /\ least' = [least EXCEPT ![c] = writerCursor]
  /\ UNCHANGED bits

(* Mutant: the loop over a word stops before its last bit. *)
ScanSlotShort(c) ==
  \E s \in left[c] :
    /\ \A t \in left[c] : s <= t
    /\ Step(c, "scan", IF left[c] = {s} THEN "done" ELSE "scan")
    /\ left' = [left EXCEPT ![c] = @ \ {s}]
    /\ least' = [least EXCEPT ![c] = IF cursor[s] < @ /\ left[c] # {s} THEN cursor[s] ELSE @]
    /\ UNCHANGED bits

(* scanAllStateless: the lowest slot not yet scanned. *)
ScanSlot(c) ==
  \E s \in left[c] :
    /\ \A t \in left[c] : s <= t
    /\ Step(c, "scan", IF left[c] = {s} THEN "done" ELSE "scan")
    /\ left' = [left EXCEPT ![c] = @ \ {s}]
    /\ least' = [least EXCEPT ![c] = IF cursor[s] < @ THEN cursor[s] ELSE @]
    /\ UNCHANGED bits

(* The call returns: its locals are dead. *)
Return(c) ==
  /\ Step(c, "done", "idle")
  /\ bits' = [bits EXCEPT ![c] = {}]
  /\ left' = [left EXCEPT ![c] = {}]
  /\ least' = [least EXCEPT ![c] = 0]

LoadStep(c) == LoadWord1(c) \/ LoadUpstream(c) \/ ScanSlot(c)

BarrierTypeOK ==
  /\ bpc \in [Callers -> {"idle", "word1", "max", "scan", "done"}]
  /\ bits \in [Callers -> SUBSET Slots]
  /\ left \in [Callers -> SUBSET Slots]
  /\ least \in [Callers -> Nat]
=============================================================================
