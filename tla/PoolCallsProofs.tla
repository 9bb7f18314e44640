--------------------------- MODULE PoolCallsProofs ---------------------------
(***************************************************************************)
(* Theorems about PoolCalls: in a slot whose AddReader and RemoveReader    *)
(* calls came one after the other, the activity bit follows the reader and *)
(* nobody is cancelled by a stranger's call.                               *)
(*                                                                         *)
(* The argument: while the pool is up, such a slot has one reader between  *)
(* its claim and the end of its removal (TurnInv): a claim finds the slot  *)
(* free, so the last reader has left, and it has left because it was asked *)
(* to; a call for it that is still under way makes an overlap.  Shutdown   *)
(* breaks that, because readers then leave unasked, but a goroutine begins *)
(* no more work, and a slot it is at work for cannot be claimed            *)
(* (OccupantInv).  A RemoveReader therefore holds the cancel function of   *)
(* its own reader, or of one that has been removed (GrabbedInv).           *)
(***************************************************************************)
EXTENDS BitmapReaderPoolProofs

-----------------------------------------------------------------------------
(* The history only grows, and records what the claim of a slot with a     *)
(* call still under way, or a return unasked, does.                        *)

LEMMA OverlappedGrows ==
  ASSUME CallsNext, CallsInv
  PROVE  overlapped \subseteq overlapped' /\ overlapped' \subseteq Slots
  BY DEF CallsNext, CallsInv, HoldInv

LEMMA ReturnOverlaps ==
  ASSUME CallsNext, PoolInv, NEW s \in Slots, ReaderReturn(s), ~Done(s)
  PROVE  s \in overlapped'
  <1>1. gpc[s] = "run" /\ gpc'[s] = "clear"
    BY DEF PoolInv, TypeOK, ReaderReturn, Move
  <1>2. Overlaps(s)
    BY <1>1 DEF Overlaps
  <1> QED
    BY <1>2 DEF CallsNext

LEMMA ClaimOverlaps ==
  ASSUME CallsNext, NEW r \in Readers, NEW q \in Readers, r # q, NEW s \in Slots,
         InCall(r)', InCall(q)', slot'[r] = s, slot'[q] = s
  PROVE  s \in overlapped'
  BY DEF CallsNext, Overlaps, CallsOn

LEMMA InitCallsInv == CallsInit => CallsInv
  <1> SUFFICES ASSUME CallsInit PROVE CallsInv
    OBVIOUS
  <1> USE DEF CallsInit, Init
  <1>1. HoldInv
    BY NoneIsNobody DEF HoldInv
  <1>2. TurnInv
    BY DEF TurnInv, TurnAt, On, NoSlot, Slots
  <1>3. OccupantInv
    BY NoneIsNobody DEF OccupantInv, Occupies
  <1>4. GrabbedInv /\ OnlyRemovedCancelled
    BY DEF GrabbedInv, OnlyRemovedCancelled
  <1> QED
    BY <1>1, <1>2, <1>3, <1>4 DEF CallsInv

-----------------------------------------------------------------------------
(* AddReader.                                                              *)

(* A claim: whoever still holds the free slot is removed, or in a call.    *)
LEMMA ClaimKeepsCalls ==
  ASSUME PoolInv, PoolInv', CallsInv, CallsNext,
         NEW r \in Readers, AllocateWord0(r) \/ AllocateWord1(r)
  PROVE  CallsInv'
  <1> USE NoneIsNobody
      DEF PoolInv, TypeOK, OwnerInv, SlotInv, RemovalInv, NoSlot, Parked, Removing,
      CallsInv, On, Occupies, Goto, loopVars, poolVars
  <1>1. /\ pc[r] \in {"new", "word1"} /\ slot[r] = NoSlot
        /\ UNCHANGED <<activeSlots, state, readerFunc, cancelFn, loopVars>>
        /\ UNCHANGED <<oldState, grabbed, cancelled, poolVars>>
    BY DEF AllocateWord0, AllocateWord1
  <1>2. overlapped \subseteq overlapped' /\ overlapped' \subseteq Slots
    BY OverlappedGrows
  <1>3. CASE /\ \E p \in {"word1", "rejected"} : pc' = [pc EXCEPT ![r] = p]
             /\ UNCHANGED <<slot, allocatedSlots>>
    <2>1. HoldInv' /\ TurnInv'
      BY <1>1, <1>2, <1>3 DEF HoldInv, TurnInv, TurnAt, Slots
    <2>2. OccupantInv'
      BY <1>1, <1>2, <1>3 DEF OccupantInv, Slots
    <2>3. GrabbedInv' /\ OnlyRemovedCancelled'
      BY <1>1, <1>2, <1>3 DEF GrabbedInv, OnlyRemovedCancelled
    <2> QED
      BY <2>1, <2>2, <2>3
  <1>4. CASE /\ pc' = [pc EXCEPT ![r] = "func"]
             /\ \E word \in 0 .. 1 : ClaimIn(r, word)
    <2>1. PICK s \in Slots \ allocatedSlots :
            /\ slot' = [slot EXCEPT ![r] = s]
            /\ allocatedSlots' = allocatedSlots \cup {s}
      BY <1>4, ClaimSlot
    <2>2. ASSUME NEW q \in Readers, q # r, slot[q] = s, s \notin overlapped', down = "up"
          PROVE  pc[q] = "removed"
      <3>1. s \notin overlapped
        BY <1>2, <2>2
      <3>2. ~InCall(q)
        <4>1. pc'[q] = pc[q] /\ slot'[q] = s /\ slot'[r] = s /\ InCall(r)'
          BY <1>4, <2>1, <2>2 DEF InCall
        <4> QED
          BY <2>2, <4>1, ClaimOverlaps DEF InCall
      <3>3. pc[q] # "added"
        BY <2>1, <2>2, <3>1 DEF TurnInv, TurnAt
      <3>4. pc[q] \notin {"new", "rejected"}
        BY <2>1, <2>2 DEF Slots
      <3> QED
        BY <3>2, <3>3, <3>4 DEF InCall
    <2>3. HoldInv'
      BY <1>1, <1>2, <1>4, <2>1 DEF HoldInv, Slots
    <2>4. TurnInv'
      <3> SUFFICES ASSUME down = "up", NEW t \in Slots, t \notin overlapped'
                   PROVE  TurnAt(t)'
        BY <1>1 DEF TurnInv
      <3>1. TurnAt(t)
        BY <1>2 DEF TurnInv
      <3>2. CASE t # s
        BY <1>1, <1>4, <2>1, <3>1, <3>2 DEF TurnAt
      <3>3. CASE t = s
        <4>1. \A q \in Readers \ {r} : slot[q] = s => pc[q] = "removed"
          BY <2>2, <3>3
        <4> QED
          BY <1>1, <1>4, <2>1, <3>1, <3>3, <4>1 DEF TurnAt
      <3> QED
        BY <3>2, <3>3
    <2>5. ASSUME NEW q \in Readers PROVE ~Occupies(s, q)
      BY <2>1
    <2>6. OccupantInv'
      BY <1>1, <1>2, <1>4, <2>1, <2>5 DEF OccupantInv, Slots
    <2>7. GrabbedInv' /\ OnlyRemovedCancelled'
      <3>1. slot[r] \notin overlapped
        BY <1>1 DEF HoldInv, Slots
      <3> QED
        BY <1>1, <1>2, <1>4, <2>1, <3>1 DEF GrabbedInv, OnlyRemovedCancelled
    <2> QED
      BY <2>3, <2>4, <2>6, <2>7
  <1> QED
    BY <1>3, <1>4 DEF AllocateWord0, AllocateWord1

(* The rest of an AddReader: the slot is its own, or its goroutine's.      *)
LEMMA AddKeepsCalls ==
  ASSUME PoolInv, PoolInv', CallsInv, CallsNext,
         NEW r \in Readers, StoreFunc(r) \/ SwapState(r) \/ ActivateSlot(r) \/ Spawn(r)
  PROVE  CallsInv'
  <1> USE NoneIsNobody
      DEF PoolInv, TypeOK, OwnerInv, SlotInv, RemovalInv, NoSlot, Owns, Fresh, Parked,
      Removing, Bits, CallsInv, On, Occupies, Goto, slotVars, loopVars, poolVars
  <1>1. overlapped \subseteq overlapped' /\ overlapped' \subseteq Slots
    BY OverlappedGrows
  <1> USE <1>1
  <1>2. CASE StoreFunc(r)
    <2> USE <1>2 DEF StoreFunc
    <2>1. TurnInv'
      BY DEF TurnInv, TurnAt
    <2>2. OccupantInv'
      BY DEF OccupantInv
    <2>3. HoldInv' /\ GrabbedInv' /\ OnlyRemovedCancelled'
      BY DEF HoldInv, GrabbedInv, OnlyRemovedCancelled
    <2> QED
      BY <2>1, <2>2, <2>3
  <1>3. CASE SwapState(r)
    <2> USE <1>3 DEF SwapState
    <2>1. TurnInv'
      BY DEF TurnInv, TurnAt
    <2>2. OccupantInv'
      BY DEF OccupantInv
    <2>3. HoldInv' /\ GrabbedInv' /\ OnlyRemovedCancelled'
      BY DEF HoldInv, GrabbedInv, OnlyRemovedCancelled
    <2> QED
      BY <2>1, <2>2, <2>3
  <1>4. CASE ActivateSlot(r)
    <2> USE <1>4 DEF ActivateSlot
    <2>1. TurnInv'
      BY DEF TurnInv, TurnAt
    <2>2. OccupantInv'
      BY DEF OccupantInv
    <2>3. HoldInv' /\ GrabbedInv' /\ OnlyRemovedCancelled'
      BY DEF HoldInv, GrabbedInv, OnlyRemovedCancelled
    <2> QED
      BY <2>1, <2>2, <2>3
  <1>5. CASE Spawn(r)
    <2> USE <1>5 DEF Spawn
    <2>1. TurnInv'
      BY DEF TurnInv, TurnAt
    <2>2. OccupantInv'
      BY DEF OccupantInv
    <2>3. HoldInv' /\ GrabbedInv' /\ OnlyRemovedCancelled'
      BY DEF HoldInv, GrabbedInv, OnlyRemovedCancelled
    <2> QED
      BY <2>1, <2>2, <2>3
  <1> QED
    BY <1>2, <1>3, <1>4, <1>5

-----------------------------------------------------------------------------
(* RemoveReader.                                                           *)
LEMMA RemoveKeepsCalls ==
  ASSUME PoolInv, PoolInv', CallsInv, CallsNext,
         NEW r \in Readers, ClearActive(r) \/ RemoveStep(r)
  PROVE  CallsInv'
  <1> USE NoneIsNobody
      DEF PoolInv, TypeOK, OwnerInv, SlotInv, RemovalInv, NoSlot, Owns, Fresh, Parked,
      Removing, Bits, CallsInv, On, Occupies, Goto, Deactivate, slotVars,
      loopVars, poolVars
  <1>1. overlapped \subseteq overlapped' /\ overlapped' \subseteq Slots
    BY OverlappedGrows
  <1> USE <1>1
  <1>2. CASE ClearActive(r)
    <2> USE <1>2 DEF ClearActive
    <2>1. TurnInv'
      BY DEF TurnInv, TurnAt
    <2>2. OccupantInv'
      BY DEF OccupantInv
    <2>3. HoldInv' /\ GrabbedInv' /\ OnlyRemovedCancelled'
      BY DEF HoldInv, GrabbedInv, OnlyRemovedCancelled
    <2> QED
      BY <2>1, <2>2, <2>3
  <1>3. CASE LoadCancel(r)
    <2> USE <1>3 DEF LoadCancel
    <2>1. TurnInv'
      BY DEF TurnInv, TurnAt
    <2>2. OccupantInv'
      BY DEF OccupantInv
    <2>3. HoldInv' /\ GrabbedInv' /\ OnlyRemovedCancelled'
      BY DEF OccupantInv, TurnInv, TurnAt, HoldInv, GrabbedInv, OnlyRemovedCancelled
    <2> QED
      BY <2>1, <2>2, <2>3
  <1>4. CASE InvokeCancel(r)
    <2> USE <1>4 DEF InvokeCancel
    <2>1. TurnInv'
      BY DEF TurnInv, TurnAt
    <2>2. OccupantInv'
      BY DEF OccupantInv
    <2>3. HoldInv' /\ GrabbedInv' /\ OnlyRemovedCancelled'
      BY DEF HoldInv, GrabbedInv, OnlyRemovedCancelled
    <2> QED
      BY <2>1, <2>2, <2>3
  <1>5. CASE DeactivateSlot(r)
    <2> USE <1>5 DEF DeactivateSlot
    <2>1. TurnInv'
      BY DEF TurnInv, TurnAt
    <2>2. OccupantInv'
      BY DEF OccupantInv
    <2>3. HoldInv' /\ GrabbedInv' /\ OnlyRemovedCancelled'
      BY DEF HoldInv, GrabbedInv, OnlyRemovedCancelled
    <2> QED
      BY <2>1, <2>2, <2>3
  <1> QED
    BY <1>2, <1>3, <1>4, <1>5 DEF RemoveStep

-----------------------------------------------------------------------------
(* runSlot: waiting for work, an activation, its cleanup.                  *)

LEMMA IdleLoopKeepsCalls ==
  ASSUME PoolInv, PoolInv', CallsInv, CallsNext,
         NEW s \in Slots, ExitOnShutdown(s) \/ FindWork(s) \/ FindNone(s) \/ Backoff(s) \/ Terminate(s)
  PROVE  CallsInv'
  <1> USE NoneIsNobody
      DEF PoolInv, TypeOK, OwnerInv, SlotInv, RemovalInv, NoSlot, Owns, Fresh, Parked,
      Removing, Bits, CallsInv, On, Occupies, Move, outside, slotVars,
      clientVars, poolVars
  <1>1. overlapped \subseteq overlapped' /\ overlapped' \subseteq Slots
    BY OverlappedGrows
  <1> USE <1>1
  <1>2. CASE ExitOnShutdown(s)
    <2> USE <1>2 DEF ExitOnShutdown
    <2>1. TurnInv'
      BY DEF TurnInv, TurnAt
    <2>2. OccupantInv'
      BY DEF OccupantInv
    <2>3. HoldInv' /\ GrabbedInv' /\ OnlyRemovedCancelled'
      BY DEF HoldInv, GrabbedInv, OnlyRemovedCancelled
    <2> QED
      BY <2>1, <2>2, <2>3
  <1>3. CASE FindWork(s)
    <2> USE <1>3 DEF FindWork
    <2>1. TurnInv'
      BY DEF TurnInv, TurnAt
    <2>2. OccupantInv'
      BY DEF TurnInv, TurnAt, OccupantInv
    <2>3. HoldInv' /\ GrabbedInv' /\ OnlyRemovedCancelled'
      BY DEF HoldInv, GrabbedInv, OnlyRemovedCancelled
    <2> QED
      BY <2>1, <2>2, <2>3
  <1>4. CASE FindNone(s)
    <2> USE <1>4 DEF FindNone
    <2>1. TurnInv'
      BY DEF TurnInv, TurnAt
    <2>2. OccupantInv'
      BY DEF OccupantInv
    <2>3. HoldInv' /\ GrabbedInv' /\ OnlyRemovedCancelled'
      BY DEF HoldInv, GrabbedInv, OnlyRemovedCancelled
    <2> QED
      BY <2>1, <2>2, <2>3
  <1>5. CASE Backoff(s)
    <2> USE <1>5 DEF Backoff
    <2>1. TurnInv'
      BY DEF TurnInv, TurnAt
    <2>2. OccupantInv'
      BY DEF OccupantInv
    <2>3. HoldInv' /\ GrabbedInv' /\ OnlyRemovedCancelled'
      BY DEF HoldInv, GrabbedInv, OnlyRemovedCancelled
    <2> QED
      BY <2>1, <2>2, <2>3
  <1>6. CASE Terminate(s)
    <2> USE <1>6 DEF Terminate
    <2>1. TurnInv'
      BY DEF HoldInv, TurnInv, TurnAt
    <2>2. OccupantInv'
      BY DEF OccupantInv
    <2>3. HoldInv' /\ GrabbedInv' /\ OnlyRemovedCancelled'
      BY DEF HoldInv, GrabbedInv, OnlyRemovedCancelled
    <2> QED
      BY <2>1, <2>2, <2>3
  <1> QED
    BY <1>2, <1>3, <1>4, <1>5, <1>6


LEMMA ActivationKeepsCalls ==
  ASSUME PoolInv, PoolInv', CallsInv, CallsNext,
         NEW s \in Slots, SetUp(s) \/ BarrierCheck(s) \/ CallReader(s) \/ ReaderReturn(s)
  PROVE  CallsInv'
  <1> USE NoneIsNobody
      DEF PoolInv, TypeOK, OwnerInv, SlotInv, RemovalInv, NoSlot, Owns, Fresh, Parked,
      Removing, Bits, CallsInv, On, Occupies, Move, Done, outside, slotVars,
      clientVars, poolVars
  <1>1. overlapped \subseteq overlapped' /\ overlapped' \subseteq Slots
    BY OverlappedGrows
  <1> USE <1>1
  <1>2. CASE SetUp(s)
    <2> USE <1>2 DEF SetUp
    <2>1. TurnInv'
      BY DEF TurnInv, TurnAt
    <2>2. OccupantInv'
      BY DEF OccupantInv
    <2>3. HoldInv' /\ GrabbedInv' /\ OnlyRemovedCancelled'
      BY DEF HoldInv, GrabbedInv, OnlyRemovedCancelled
    <2> QED
      BY <2>1, <2>2, <2>3
  <1>3. CASE BarrierCheck(s)
    <2> USE <1>3 DEF BarrierCheck
    <2>1. HoldInv'
      BY DEF HoldInv
    <2>2. TurnInv'
      BY DEF TurnInv, TurnAt
    <2>3. OccupantInv'
      BY DEF OccupantInv
    <2>4. GrabbedInv'
      BY DEF GrabbedInv
    <2>5. OnlyRemovedCancelled'
      <3>1. ASSUME "Active" \notin state[s], s \notin overlapped
            PROVE  pc[ctx[s]] \in Removing
        <4>1. ctx[s] \in Readers /\ readerFunc[s] = ctx[s] /\ slot[ctx[s]] = s
          OBVIOUS
        <4>2. pc[ctx[s]] \notin {"activate", "spawn", "added"}
          BY <3>1, <4>1 DEF OccupantInv
        <4>3. pc[ctx[s]] \notin {"new", "word1", "rejected", "func", "swap"}
          BY <4>1 DEF Slots
        <4> QED
          BY <4>1, <4>2, <4>3
      <3> QED
        BY <3>1 DEF HoldInv, OnlyRemovedCancelled
    <2> QED
      BY <2>1, <2>2, <2>3, <2>4, <2>5
  <1>4. CASE CallReader(s)
    <2> USE <1>4 DEF CallReader
    <2>1. TurnInv'
      BY DEF TurnInv, TurnAt
    <2>2. OccupantInv'
      BY DEF OccupantInv
    <2>3. HoldInv' /\ GrabbedInv' /\ OnlyRemovedCancelled'
      BY DEF HoldInv, GrabbedInv, OnlyRemovedCancelled
    <2> QED
      BY <2>1, <2>2, <2>3
  <1>5. CASE ReaderReturn(s)
    <2> USE <1>5 DEF ReaderReturn
    <2>1. HoldInv'
      BY DEF HoldInv
    <2>2. TurnInv'
      <3>1. ASSUME down = "up", s \notin overlapped' PROVE "Active" \notin state[s]
        <4>1. ctx[s] \in cancelled /\ readerFunc[s] = ctx[s]
          BY <3>1, ReturnOverlaps
        <4>2. pc[ctx[s]] \in Removing
          BY <3>1, <4>1 DEF HoldInv, OnlyRemovedCancelled
        <4> QED
          BY <4>1, <4>2
      <3> QED
        BY <3>1 DEF TurnInv, TurnAt
    <2>3. OccupantInv'
      BY DEF OccupantInv
    <2>4. GrabbedInv'
      BY DEF GrabbedInv
    <2>5. OnlyRemovedCancelled'
      BY DEF OnlyRemovedCancelled
    <2> QED
      BY <2>1, <2>2, <2>3, <2>4, <2>5
  <1> QED
    BY <1>2, <1>3, <1>4, <1>5


LEMMA CleanupKeepsCalls ==
  ASSUME PoolInv, PoolInv', CallsInv, CallsNext,
         NEW s \in Slots, Cleanup(s)
  PROVE  CallsInv'
  <1> USE NoneIsNobody
      DEF PoolInv, TypeOK, OwnerInv, SlotInv, RemovalInv, NoSlot, Owns, Fresh, Parked,
      Removing, Bits, CallsInv, On, Occupies, Move, Deactivate, outside,
      slotVars, clientVars, poolVars
  <1>1. overlapped \subseteq overlapped' /\ overlapped' \subseteq Slots
    BY OverlappedGrows
  <1> USE <1>1
  <1>2. CASE ClearState(s)
    <2> USE <1>2 DEF ClearState
    <2>1. TurnInv'
      BY DEF TurnInv, TurnAt
    <2>2. OccupantInv'
      BY DEF OccupantInv
    <2>3. HoldInv' /\ GrabbedInv' /\ OnlyRemovedCancelled'
      BY DEF HoldInv, GrabbedInv, OnlyRemovedCancelled
    <2> QED
      BY <2>1, <2>2, <2>3
  <1>3. CASE Ungate(s)
    <2> USE <1>3 DEF Ungate
    <2>1. TurnInv'
      BY DEF TurnInv, TurnAt
    <2>2. OccupantInv'
      BY DEF OccupantInv
    <2>3. HoldInv' /\ GrabbedInv' /\ OnlyRemovedCancelled'
      BY DEF HoldInv, GrabbedInv, OnlyRemovedCancelled
    <2> QED
      BY <2>1, <2>2, <2>3
  <1>4. CASE ClearFunc(s)
    <2> USE <1>4 DEF ClearFunc
    <2>1. TurnInv'
      BY DEF TurnInv, TurnAt
    <2>2. OccupantInv'
      BY DEF OccupantInv
    <2>3. HoldInv' /\ GrabbedInv' /\ OnlyRemovedCancelled'
      BY DEF HoldInv, GrabbedInv, OnlyRemovedCancelled
    <2> QED
      BY <2>1, <2>2, <2>3
  <1>5. CASE ClearCancel(s)
    <2> USE <1>5 DEF ClearCancel
    <2>1. TurnInv'
      BY DEF TurnInv, TurnAt
    <2>2. OccupantInv'
      BY DEF OccupantInv
    <2>3. HoldInv' /\ GrabbedInv' /\ OnlyRemovedCancelled'
      BY DEF HoldInv, GrabbedInv, OnlyRemovedCancelled
    <2> QED
      BY <2>1, <2>2, <2>3
  <1>6. CASE DeallocateSlot(s)
    <2> USE <1>6 DEF DeallocateSlot
    <2>1. TurnInv'
      BY DEF TurnInv, TurnAt
    <2>2. OccupantInv'
      BY DEF OccupantInv
    <2>3. HoldInv' /\ GrabbedInv' /\ OnlyRemovedCancelled'
      BY DEF HoldInv, GrabbedInv, OnlyRemovedCancelled
    <2> QED
      BY <2>1, <2>2, <2>3
  <1> QED
    BY <1>2, <1>3, <1>4, <1>5, <1>6 DEF Cleanup

-----------------------------------------------------------------------------
(* Shutdown.                                                               *)

LEMMA ShutdownKeepsCalls ==
  ASSUME PoolInv, CallsInv, CallsNext, RootCancel \/ WaitGroupDone
  PROVE  CallsInv'
  <1>1. /\ UNCHANGED <<slotVars, loopVars, clientVars, cancelled>>
        /\ down' # "up"
    BY DEF RootCancel, WaitGroupDone
  <1>2. overlapped \subseteq overlapped' /\ overlapped' \subseteq Slots
    BY OverlappedGrows
  <1> USE <1>1, <1>2 DEF CallsInv, slotVars, loopVars, clientVars
  <1>3. HoldInv' /\ TurnInv'
    BY DEF HoldInv, TurnInv, TurnAt, On
  <1>4. OccupantInv'
    BY DEF OccupantInv, Occupies, On
  <1>5. GrabbedInv' /\ OnlyRemovedCancelled'
    BY DEF GrabbedInv, OnlyRemovedCancelled
  <1> QED
    BY <1>3, <1>4, <1>5

-----------------------------------------------------------------------------
(* The invariant and what it gives.                                        *)

LEMMA NextCallsInv == PoolInv /\ PoolInv' /\ CallsInv /\ [CallsNext]_callHistory => CallsInv'
  <1> SUFFICES ASSUME PoolInv, PoolInv', CallsInv, [CallsNext]_callHistory
               PROVE  CallsInv'
    OBVIOUS
  <1>1. CASE UNCHANGED callHistory
    BY <1>1
    DEF callHistory, vars, slotVars, loopVars, clientVars, poolVars, CallsInv, HoldInv,
        TurnInv, TurnAt, OccupantInv, GrabbedInv, OnlyRemovedCancelled, On, Occupies
  <1>2. CASE CallsNext
    <2>1. CASE \E r \in Readers : AddStep(r) \/ ClearActive(r) \/ RemoveStep(r)
      BY <1>2, <2>1, ClaimKeepsCalls, AddKeepsCalls, RemoveKeepsCalls DEF AddStep
    <2>2. CASE \E s \in Slots : RunSlot(s) \/ ReaderReturn(s)
      BY <1>2, <2>2, IdleLoopKeepsCalls, ActivationKeepsCalls, CleanupKeepsCalls
      DEF RunSlot
    <2>3. CASE RootCancel \/ WaitGroupDone
      BY <1>2, <2>3, ShutdownKeepsCalls
    <2> QED
      BY <1>2, <2>1, <2>2, <2>3 DEF CallsNext, Next
  <1> QED
    BY <1>1, <1>2

(***************************************************************************)
(* A slot whose calls came one after the other is one reader's at a time,  *)
(* for every number of readers and slots, whatever happens in other slots. *)
(***************************************************************************)
THEOREM CallsInvHolds == CallsSpec => []CallsInv
  BY HistoryObserves, PoolInvHolds, InitCallsInv, NextCallsInv, PTL DEF CallsSpec

(***************************************************************************)
(* ReaderGatesWriter: the writer waits for every reader that has been      *)
(* added and runs, and that nobody has asked to leave.                     *)
(***************************************************************************)
THEOREM ReaderGatesWriterHolds == CallsSpec => []ReaderGatesWriter
  <1>1. PoolInv /\ CallsInv => ReaderGatesWriter
    BY DEF PoolInv, SlotInv, CallsInv, OccupantInv, ReaderGatesWriter, Runs
  <1> QED
    BY <1>1, HistoryObserves, PoolInvHolds, CallsInvHolds, PTL

(***************************************************************************)
(* NoGhostBit: while the pool is up and no call is under way, only a slot  *)
(* that a reader occupies holds the writer back.                           *)
(***************************************************************************)
THEOREM NoGhostBitHolds == CallsSpec => []NoGhostBit
  <1>1. PoolInv /\ CallsInv => NoGhostBit
    <2> SUFFICES ASSUME PoolInv, CallsInv, down = "up", \A r \in Readers : ~InCall(r),
                        NEW s \in activeSlots, s \notin overlapped
                 PROVE  s \in allocatedSlots
      BY DEF NoGhostBit
    <2>1. s \in Slots
      BY DEF PoolInv, TypeOK
    <2>2. PICK r \in Readers : On(s, r) /\ pc[r] = "added"
      BY <2>1 DEF CallsInv, TurnInv, TurnAt, InCall
    <2>3. "Active" \in state[s]
      BY <2>1, <2>2 DEF CallsInv, TurnInv, TurnAt
    <2> QED
      BY <2>1, <2>3 DEF PoolInv, SlotInv
  <1> QED
    BY <1>1, HistoryObserves, PoolInvHolds, CallsInvHolds, PTL

(***************************************************************************)
(* OnlyRemovedCancelled: a reader's context is cancelled by its own        *)
(* RemoveReader, never by one meant for the slot's previous reader.        *)
(***************************************************************************)
THEOREM OnlyRemovedCancelledHolds == CallsSpec => []OnlyRemovedCancelled
  <1>1. CallsInv => OnlyRemovedCancelled
    BY DEF CallsInv
  <1> QED
    BY <1>1, CallsInvHolds, PTL
=============================================================================
