----------------------------- MODULE PoolCalls -----------------------------
(***************************************************************************)
(* BitmapReaderPool with a history variable: the slots whose calls have    *)
(* overlapped.  AddReader and RemoveReader name a slot and not a reader,   *)
(* and each is several steps long, so a call may find that the slot is     *)
(* already the next reader's; the properties of this module say that this  *)
(* is the only way for the pool to go wrong.                               *)
(*                                                                         *)
(* Slots are independent: calls on different slots may overlap freely.     *)
(***************************************************************************)
EXTENDS BitmapReaderPool

VARIABLE overlapped

callHistory == <<vars, overlapped>>

CallsOn(s) == {r \in Readers : InCall(r) /\ slot[r] = s}

(* Two calls on the slot are under way at once, or its reader returns      *)
(* though nobody has asked it to, with a RemoveReader still to come.       *)
Overlaps(s) ==
  \/ \E r, q \in Readers : r # q /\ {r, q} \subseteq CallsOn(s)'
  \/ gpc[s] = "run" /\ gpc'[s] # "run" /\ ~Done(s)

CallsInit == Init /\ overlapped = {}

CallsNext == Next /\ overlapped' = overlapped \cup {s \in Slots : Overlaps(s)}

CallsSpec == CallsInit /\ [][CallsNext]_callHistory /\ Fairness

-----------------------------------------------------------------------------
(***************************************************************************)
(* ReaderGatesWriter: the writer waits for every reader that has been      *)
(* added, whose function runs and that nobody has asked to leave, in every *)
(* slot whose calls came one after the other.                              *)
(***************************************************************************)
ReaderGatesWriter ==
  \A r \in Readers, s \in Slots \ overlapped :
    Runs(s, r) /\ pc[r] = "added" => s \in activeSlots

(***************************************************************************)
(* NoGhostBit: while the pool is up and no call is under way, a slot whose *)
(* calls came one after the other holds the writer back only if a reader   *)
(* occupies it.                                                            *)
(***************************************************************************)
NoGhostBit ==
  down = "up" /\ (\A r \in Readers : ~InCall(r)) =>
    activeSlots \subseteq allocatedSlots \cup overlapped

(***************************************************************************)
(* OnlyRemovedCancelled: a reader's context is cancelled by its own        *)
(* RemoveReader and never by one meant for the slot's previous reader, in  *)
(* a slot whose calls came one after the other.                            *)
(***************************************************************************)
OnlyRemovedCancelled ==
  \A r \in cancelled :
    \/ slot[r] \in overlapped
    \/ pc[r] \in Removing

(***************************************************************************)
(* AddedReaderStarts: a reader that got its slot is eventually run, by the *)
(* goroutine that is there or by a new one, unless it is removed or the    *)
(* pool is shut down first, in a slot whose calls came one after the other.*)
(***************************************************************************)
AddedReaderStarts ==
  \A r \in Readers :
    pc[r] = "swap" ~> \/ \E s \in Slots : Runs(s, r)
                      \/ pc[r] \in Removing
                      \/ slot[r] \in overlapped
                      \/ down # "up"

-----------------------------------------------------------------------------
(* The inductive invariant of CallsSpec, beside PoolInv.                   *)

On(s, r) == slot[r] = s

(* Who has the goroutine of a slot that is not idle. *)
Occupies(s, r) == ctx[s] = r \/ (gpc[s] = "setup" /\ readerFunc[s] = r)

(* What RemoveReader or the goroutine may cancel is of the slot, and a     *)
(* goroutine that tries to stop has seen no work.                          *)
HoldInv ==
  /\ overlapped \subseteq Slots
  /\ \A s \in Slots :
       /\ \A r \in Readers : ctx[s] = r => On(s, r)
       /\ gpc[s] = "stop" => "Active" \notin currentState[s]

(* One reader at a time is between its claim of the slot and the end of    *)
(* its removal, and state, readerFunc and the bit are its own, ...         *)
TurnAt(s) ==
  /\ \A r, q \in Readers :
       On(s, r) /\ On(s, q) /\ r # q => "removed" \in {pc[r], pc[q]}
  /\ \A r \in Readers : On(s, r) =>
       /\ pc[r] \in {"activate", "spawn", "added"} =>
            readerFunc[s] = r /\ "Active" \in state[s]
       /\ pc[r] \in {"spawn", "added"} => s \in activeSlots
  /\ s \in activeSlots =>
       \E r \in Readers :
         On(s, r) /\ pc[r] \in {"spawn", "added", "cancel", "invoke", "deactivate"}
  /\ gpc[s] = "clear" => "Active" \notin state[s]

(* ... while the pool is up. *)
TurnInv == down = "up" => \A s \in Slots \ overlapped : TurnAt(s)

(* Up or not, a slot that a reader occupies is nobody else's. *)
OccupantInv ==
  \A s \in Slots \ overlapped, r \in Readers :
    /\ Occupies(s, r) => \A q \in Readers \ {r} : On(s, q) => pc[q] = "removed"
    /\ gpc[s] \in {"setup", "barrier", "call", "run"} /\ readerFunc[s] = r =>
         /\ pc[r] \in {"activate", "spawn", "added"} => "Active" \in state[s]
         /\ pc[r] \in {"spawn", "added"} => s \in activeSlots

(* The cancel function a RemoveReader holds is of a reader being removed.  *)
GrabbedInv ==
  \A r, q \in Readers :
    pc[q] = "invoke" /\ grabbed[q] = r => slot[r] \in overlapped \/ pc[r] \in Removing

(***************************************************************************)
(* CallsInv: in a slot whose calls came one after the other, the calls and *)
(* the goroutine take turns: the slot is one reader's from its claim until *)
(* its RemoveReader is over, whatever the goroutine is doing meanwhile.    *)
(***************************************************************************)
CallsInv ==
  /\ HoldInv
  /\ TurnInv
  /\ OccupantInv
  /\ GrabbedInv
  /\ OnlyRemovedCancelled
=============================================================================
