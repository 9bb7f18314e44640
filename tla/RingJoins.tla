----------------------------- MODULE RingJoins -----------------------------
(***************************************************************************)
(* RingBuffer with a history variable: the slots whose reader a refresh of *)
(* the gate may have missed, because it began when the reader's AddReader  *)
(* was overtaken (bitmap_reader_pool.go:110 against :117).  AddReader and  *)
(* the writer interleave freely here, and the properties of this module    *)
(* say that a missed reader is alone in its trouble: the ring keeps its    *)
(* promise to every other one, those that join the slot later included.    *)
(***************************************************************************)
EXTENDS RingRefinement

VARIABLE missed

joinHistory == <<vars, missed>>

(* A slot is missed as long as it is the member it was then. *)
JoinsInit == Init /\ missed = {}

Misses(s) == RefreshBegins /\ Overtaken(s)

JoinsNext ==
  /\ Next
  /\ missed' = {s \in Slots : (s \in missed \/ Misses(s)) /\ Member(s)'}

JoinsSpec     == JoinsInit /\ [][JoinsNext]_joinHistory
FairJoinsSpec == JoinsSpec /\ Fairness

(* The members the gate takes into account. *)
Waited == {s \in Slots : Member(s) /\ s \notin missed}

-----------------------------------------------------------------------------
(***************************************************************************)
(* NotLapped: the writer never claims a sequence a lap or more ahead of a  *)
(* reader it has not missed, from the load of AddReader on, whichever      *)
(* other readers it has missed, and though its gate may then move back     *)
(* (Publish, Reserve and Load against AddReader and RemoveReader).         *)
(***************************************************************************)
NotLapped == \A s \in Waited : Claimed < Position(s) + BufferSize

(***************************************************************************)
(* UnmissedIntact: NoOverrun and NoDataRace for the readers that have not  *)
(* been missed: their unread events are in the ring, and the element the   *)
(* writer is about to write is none of theirs.                             *)
(***************************************************************************)
UnmissedIntact ==
  \A s \in activeSlots \ missed : \A q \in Unread(s) :
    /\ buffer[Index(q)] = q
    /\ wpc = "fill" => Index(q) # Index(fill)

(***************************************************************************)
(* UnmissedSegments: the precondition of GetSegments that                  *)
(* GetSegmentsContract states of every gated reader.                       *)
(***************************************************************************)
UnmissedSegments ==
  \A s \in activeSlots \ missed :
    rpc[s] = "read" => upto[s] - (cursor[s] + 1) < BufferSize

(***************************************************************************)
(* JoinsBroadcast: for the readers it has not missed the ring implements   *)
(* BoundedBroadcast; a reader that is missed has left, as far as the       *)
(* broadcast is concerned, when the refresh begins.                        *)
(***************************************************************************)
WaitedPositions == [s \in Slots |-> IF s \in Waited THEN Position(s) ELSE 0]

Partial == INSTANCE BoundedBroadcast
             WITH Capacity  <- BufferSize,
                  Readers   <- Slots,
                  published <- writeCursor,
                  members   <- Waited,
                  position  <- WaitedPositions

JoinsBroadcast == Partial!BroadcastSpec

-----------------------------------------------------------------------------
(* The inductive invariant of JoinsSpec.                                   *)

(* What the locals of a Load under way can be. *)
LocalsInv ==
  /\ lpc = "upstream" => bitmap = {}
  /\ lpc = "scan" =>
       todo \subseteq bitmap /\ \A p \in Paths : minimum[p] <= writeCursor
  /\ lpc = "done" => loaded <= writeCursor

(* Neither the claim nor a gate is ahead of s, and a Load accounts for it. *)
Accounted(s) ==
  /\ Claimed < Position(s) + BufferSize
  /\ cachedSlowestReader <= Position(s)
  /\ lastMinimum <= Position(s)
  /\ lpc # "idle" => Settled(s)
  /\ lpc = "bitmap1" => Seen(s) \/ (Word(s) = 1 /\ s \in activeSlots)
  /\ lpc \in {"upstream", "gate", "max"} => Seen(s)
  /\ lpc = "scan" => s \in todo \/ \E p \in Paths : minimum[p] <= Position(s)
  /\ lpc = "done" => loaded <= Position(s)

(***************************************************************************)
(* JoinsInv: each unmissed member is accounted for by itself, so that what *)
(* a missed reader does to the gate or to the barrier's cache cannot harm  *)
(* it (BitmapReaderPool.Load).                                             *)
(***************************************************************************)
JoinsInv ==
  /\ TypeOK
  /\ CallInv
  /\ ReaderInv
  /\ BufferInv
  /\ LocalsInv
  /\ \A s \in Waited : Accounted(s)
=============================================================================
