----------------------------- MODULE RingLayout -----------------------------
(***************************************************************************)
(* How a batch is laid out in the ring: the segments Reserve hands to the  *)
(* writer, the loops of PublishBatch and PublishBatchFunc that fill them,  *)
(* and the segments and the iterator a reader gets for a range.  A segment *)
(* is the sequence of the indices of the backing array it spans.  Writer   *)
(* and reader take turns here; their races are in RingBuffer, which        *)
(* addresses an element by its sequence.                                   *)
(*                                                                         *)
(* The size of the ring and the barrier of its reader are left open: it    *)
(* has one of Sizes, and its barrier tells no more than what is published. *)
(* RingSegments adds how the code computes both.                           *)
(***************************************************************************)
EXTENDS Integers, Sequences

CONSTANTS
  BitAnd(_, _),  \* the machine's &
  Sizes,         \* the sizes a ring may have: powers of two
  LastSequence   \* the largest sequence

(* Of a power of two less one, & is the remainder. *)
ASSUME LayoutAssumption ==
  /\ Sizes \subseteq Nat \ {0}
  /\ LastSequence \in Nat
  /\ \A size \in Sizes, q \in 0 .. LastSequence : BitAnd(q, size - 1) = q % size

VARIABLES
  bufferSize, \* fixed when the ring is made
  buffer,     \* what each element holds
  published,  \* last sequence published, the writer's nextSequence
  todo,       \* indices the writer has still to fill, seg1 then seg2
  claim,      \* what Commit will publish; 0 when no claim is open
  consumed,   \* the reader's cursor
  view,       \* indices the reader's iteration has still to yield
  upto,       \* the end of its range; 0 when no iteration is open
  last        \* what was yielded last

writerVars == <<buffer, published, todo, claim>>
readerVars == <<consumed, view, upto, last>>
layoutVars == <<bufferSize, writerVars, readerVars>>

Mask(q) == BitAnd(q, bufferSize - 1)

(* buffer[from:to] *)
Slice(from, to) == [i \in 1 .. to - from |-> from + i - 1]

(* Mutant: a batch that ends exactly at the end of the ring is one longer. *)
SegmentsOffByOne(firstSeq, n) ==
  LET start == Mask(firstSeq)
      end   == start + n
  IN  IF end <= bufferSize + 1 THEN <<Slice(start, end), <<>>>>
      ELSE <<Slice(start, bufferSize), Slice(0, n - (bufferSize - start))>>

(* The writer's view of firstSeq .. firstSeq+n-1. *)
segments(firstSeq, n) ==
  LET start == Mask(firstSeq)
      end   == start + n
  IN  IF end <= bufferSize THEN <<Slice(start, end), <<>>>>
      ELSE <<Slice(start, bufferSize), Slice(0, n - (bufferSize - start))>>

(* Mutant: the end of the range is left out of the second segment. *)
GetSegmentsHalfOpen(start, end) ==
  LET s == Mask(start)
      e == Mask(end)
  IN  IF s <= e THEN <<Slice(s, e + 1), <<>>>>
      ELSE <<Slice(s, bufferSize), Slice(0, e)>>

(* The reader's view of start .. end. *)
GetSegments(start, end) ==
  LET s == Mask(start)
      e == Mask(end)
  IN  IF s <= e THEN <<Slice(s, e + 1), <<>>>>
      ELSE <<Slice(s, bufferSize), Slice(0, e + 1)>>

Empty ==
  /\ buffer = [i \in 0 .. bufferSize - 1 |-> 0]
  /\ published = 0
  /\ todo = <<>>
  /\ claim = 0
  /\ consumed = 0
  /\ view = <<>>
  /\ upto = 0
  /\ last = 0

LayoutInit == bufferSize \in Sizes /\ Empty

(* Reserve(n), with the room its gate would grant. *)
Reserve(n) ==
  /\ claim = 0
  /\ published + n <= LastSequence
  /\ published + n < consumed + bufferSize
  /\ todo' = segments(published + 1, n)[1] \o segments(published + 1, n)[2]
  /\ claim' = published + n
  /\ UNCHANGED <<bufferSize, buffer, published, readerVars>>

(* One iteration of the loops over seg1 and seg2: payloads are numbered in *)
(* publish order, and are the sequences they are published at.             *)
FillNext ==
  /\ todo # <<>>
  /\ buffer' = [buffer EXCEPT ![Head(todo)] = claim - Len(todo) + 1]
  /\ todo' = Tail(todo)
  /\ UNCHANGED <<bufferSize, published, claim, readerVars>>

Commit ==
  /\ claim # 0
  /\ todo = <<>>
  /\ published' = claim
  /\ claim' = 0
  /\ UNCHANGED <<bufferSize, buffer, todo, readerVars>>

(* The reader iterates over some of what its barrier lets it see. *)
Iterate(end) ==
  /\ upto = 0
  /\ end \in consumed + 1 .. published
  /\ view' = GetSegments(consumed + 1, end)[1] \o GetSegments(consumed + 1, end)[2]
  /\ upto' = end
  /\ last' = consumed
  /\ UNCHANGED <<bufferSize, writerVars, consumed>>

YieldNext ==
  /\ view # <<>>
  /\ last' = buffer[Head(view)]
  /\ view' = Tail(view)
  /\ UNCHANGED <<bufferSize, writerVars, consumed, upto>>

(* The loop body is done, or broke out of the iteration: the cursor is     *)
(* stored after the last event seen.                                       *)
Advance ==
  /\ upto # 0
  /\ consumed' = last
  /\ view' = <<>>
  /\ upto' = 0
  /\ last' = 0
  /\ UNCHANGED <<bufferSize, writerVars>>

LayoutNext ==
  \/ \E n \in 1 .. bufferSize - 1 : Reserve(n)
  \/ FillNext
  \/ Commit
  \/ \E end \in 1 .. published : Iterate(end)
  \/ YieldNext
  \/ Advance

LayoutSpec == LayoutInit /\ [][LayoutNext]_layoutVars

-----------------------------------------------------------------------------
(***************************************************************************)
(* FillsWholeClaim: the two segments have room for exactly the batch, so   *)
(* that the writer has filled the whole claim when it commits it, each     *)
(* payload in the element its sequence is read from.                       *)
(***************************************************************************)
FillsWholeClaim ==
  claim # 0 =>
    /\ Len(todo) <= claim - published
    /\ \A q \in published + 1 .. claim - Len(todo) : buffer[q % bufferSize] = q

(***************************************************************************)
(* YieldsInOrder: an iteration yields the events of its range in order,    *)
(* with none skipped or repeated, across the end of the ring.              *)
(***************************************************************************)
YieldsInOrder ==
  upto # 0 => last = upto - Len(view)

-----------------------------------------------------------------------------
(* The inductive invariant.                                                *)

(* Where the events of a range are read and written. *)
Indices(from, to) == [i \in 1 .. to - from + 1 |-> (from + i - 1) % bufferSize]

LayoutTypeOK ==
  /\ bufferSize \in Sizes
  /\ buffer \in [0 .. bufferSize - 1 -> Nat]
  /\ {published, claim, consumed, upto, last} \subseteq 0 .. LastSequence

(* The writer has filled a prefix of its claim, which is less than a lap   *)
(* beyond the reader's cursor.                                             *)
WriterInv ==
  /\ consumed \in published - bufferSize + 1 .. published
  /\ claim = 0 => todo = <<>>
  /\ claim # 0 =>
       /\ claim \in published + 1 .. consumed + bufferSize - 1
       /\ Len(todo) \in 0 .. claim - published
       /\ todo = Indices(claim - Len(todo) + 1, claim)

Filled == IF claim = 0 THEN published ELSE claim - Len(todo)

(* Every event written and not consumed is in its element. *)
BufferInv == \A q \in consumed + 1 .. Filled : buffer[q % bufferSize] = q

(* The iteration has yielded a prefix of its range. *)
ViewInv ==
  /\ upto = 0 => view = <<>>
  /\ upto # 0 =>
       /\ upto \in consumed + 1 .. published
       /\ Len(view) \in 0 .. upto - consumed
       /\ view = Indices(upto - Len(view) + 1, upto)

(***************************************************************************)
(* LayoutInv: the writer's segments and the reader's views name the        *)
(* elements of one sequence after the other, and no element is filled      *)
(* again before its event is consumed.                                     *)
(***************************************************************************)
LayoutInv == LayoutTypeOK /\ WriterInv /\ BufferInv /\ ViewInv /\ YieldsInOrder
=============================================================================
