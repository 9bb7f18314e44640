--------------------------- MODULE RingRefinement ---------------------------
(***************************************************************************)
(* The ring buffer of RingBuffer implements BoundedBroadcast: a slot is a  *)
(* member from the load of its AddReader to the clearing of its bit, its   *)
(* position is what that AddReader read and later the slot's cursor, and a *)
(* batch is published by the one store of Commit.                          *)
(***************************************************************************)
EXTENDS RingBuffer

Members   == {s \in Slots : Member(s)}
Positions == [s \in Slots |-> IF Member(s) THEN Position(s) ELSE 0]

Abstract == INSTANCE BoundedBroadcast
              WITH Capacity  <- BufferSize,
                   Readers   <- Slots,
                   published <- writeCursor,
                   members   <- Members,
                   position  <- Positions

(***************************************************************************)
(* ImplementsBroadcast: the gate the writer caches, the scan that refills  *)
(* it and the barrier's own cache never let a publication overtake a       *)
(* member, and the races of joining and leaving readers with a scan show   *)
(* to a client as joins and leaves that happen at once.                    *)
(***************************************************************************)
ImplementsBroadcast == Abstract!BroadcastSpec
=============================================================================
