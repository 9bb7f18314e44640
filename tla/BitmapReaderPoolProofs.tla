----------------------- MODULE BitmapReaderPoolProofs -----------------------
(***************************************************************************)
(* Theorems about BitmapReaderPool, for every set of readers, number of    *)
(* slots and word size.                                                    *)
(*                                                                         *)
(* The argument: AddReader has the slot it claimed to itself until its     *)
(* swap of the state, and beyond it if no goroutine runs there (OwnerInv); *)
(* from then on the goroutine has it, until it gives it back at the end of *)
(* its cleanup (SlotInv); and whoever removes the reader in between either *)
(* finds the cancel function of this activation or has cleared the Active  *)
(* bit before the goroutine looks at it again (RemovalInv).                *)
(***************************************************************************)
EXTENDS PoolCalls, WellFoundedInduction, TLAPS

-----------------------------------------------------------------------------
(* allocateSlot: the lowest free bit is a free bit.                        *)

LEMMA LowestIn ==
  ASSUME NEW S, S \subseteq Slots, S # {}
  PROVE  Lowest(S) \in S
  <1>1. S \subseteq Nat
    BY DEF Slots
  <1>2. PICK s \in S : \A t \in S : ~(<<t, s>> \in OpToRel(<, Nat))
    BY <1>1, NatLessThanWellFounded, WFMin, Zenon
  <1>3. \A t \in S : s <= t
    <2> TAKE t \in S
    <2>1. s \in Nat /\ t \in Nat
      BY <1>1
    <2>2. ~(t < s)
      BY <1>2, <2>1 DEF OpToRel
    <2> QED
      BY <2>1, <2>2
  <1> QED
    BY <1>3 DEF Lowest

LEMMA ClaimSlot ==
  ASSUME PoolInv, NEW r \in Readers, NEW word \in 0 .. 1, ClaimIn(r, word)
  PROVE  \E s \in Slots \ allocatedSlots :
           /\ slot' = [slot EXCEPT ![r] = s]
           /\ allocatedSlots' = allocatedSlots \cup {s}
  <1>1. FreeIn(word) \subseteq Slots \ allocatedSlots
    BY DEF FreeIn
  <1>2. Lowest(FreeIn(word)) \in FreeIn(word)
    BY <1>1, LowestIn DEF ClaimIn
  <1> QED
    BY <1>1, <1>2 DEF ClaimIn

LEMMA NoneIsNobody == None \notin Readers
  BY PoolAssumption

LEMMA InitPoolInv == Init => PoolInv
  <1> SUFFICES ASSUME Init PROVE PoolInv
    OBVIOUS
  <1>1. TypeOK
    BY DEF Init, TypeOK
  <1>2. OwnerInv
    BY DEF Init, OwnerInv, Owns, Fresh
  <1>3. SlotInv
    BY DEF Init, SlotInv, Parked
  <1>4. RemovalInv /\ NothingRunsAfterShutdown
    BY NoneIsNobody DEF Init, RemovalInv, NothingRunsAfterShutdown
  <1> QED
    BY <1>1, <1>2, <1>3, <1>4 DEF PoolInv

-----------------------------------------------------------------------------
(* AddReader.                                                              *)

LEMMA AllocateKeeps ==
  ASSUME PoolInv, NEW r \in Readers, AllocateWord0(r) \/ AllocateWord1(r)
  PROVE  PoolInv'
  <1> USE NoneIsNobody
      DEF PoolInv, TypeOK, OwnerInv, SlotInv, RemovalInv, NothingRunsAfterShutdown, NoSlot,
      Owns, Fresh, Parked, Removing, Bits,
      Goto, loopVars, poolVars
  <1>1. /\ pc[r] \in {"new", "word1"}
        /\ UNCHANGED <<activeSlots, state, readerFunc, cancelFn, loopVars>>
        /\ UNCHANGED <<oldState, grabbed, cancelled, poolVars>>
    BY DEF AllocateWord0, AllocateWord1
  <1>2. CASE /\ \E p \in {"word1", "rejected"} : pc' = [pc EXCEPT ![r] = p]
             /\ UNCHANGED <<slot, allocatedSlots>>
    BY <1>1, <1>2
  <1>3. CASE /\ pc' = [pc EXCEPT ![r] = "func"]
             /\ \E word \in 0 .. 1 : ClaimIn(r, word)
    <2>1. PICK s \in Slots \ allocatedSlots :
            /\ slot' = [slot EXCEPT ![r] = s]
            /\ allocatedSlots' = allocatedSlots \cup {s}
      BY <1>3, ClaimSlot
    <2>2. s # NoSlot
      BY DEF Slots
    <2>3. TypeOK'
      BY <1>1, <1>3, <2>1
    <2>4. Owns(r)' /\ \A q \in Readers \ {r} : Owns(q)' <=> Owns(q)
      BY <1>1, <1>3
    <2>5. \A q \in Readers : Owns(q) => slot[q] # s
      BY <2>1
    <2>6. OwnerInv'
      BY <1>1, <1>3, <2>1, <2>2, <2>4, <2>5
    <2>7. SlotInv' /\ NothingRunsAfterShutdown'
      BY <1>1, <2>1
    <2>8. \A t \in Slots : readerFunc[t] # r
      BY <1>1 DEF Slots
    <2>9. RemovalInv'
      BY <1>1, <1>3, <2>1, <2>8
    <2> QED
      BY <2>3, <2>6, <2>7, <2>9
  <1> QED
    BY <1>2, <1>3 DEF AllocateWord0, AllocateWord1

LEMMA AddKeeps ==
  ASSUME PoolInv, NEW r \in Readers, AddStep(r)
  PROVE  PoolInv'
  <1> USE NoneIsNobody
      DEF PoolInv, TypeOK, OwnerInv, SlotInv, RemovalInv, NothingRunsAfterShutdown, NoSlot,
      Owns, Fresh, Parked, Removing, Bits,
      Goto, slotVars, loopVars, poolVars
  <1>1. CASE StoreFunc(r)
    BY <1>1 DEF StoreFunc
  <1>2. CASE SwapState(r)
    BY <1>2 DEF SwapState
  <1>3. CASE ActivateSlot(r)
    BY <1>3 DEF ActivateSlot
  <1>4. CASE Spawn(r)
    BY <1>4 DEF Spawn
  <1> QED
    BY <1>1, <1>2, <1>3, <1>4, AllocateKeeps DEF AddStep

-----------------------------------------------------------------------------
(* RemoveReader.                                                           *)

LEMMA RemoveKeeps ==
  ASSUME PoolInv, NEW r \in Readers, ClearActive(r) \/ RemoveStep(r)
  PROVE  PoolInv'
  <1> USE NoneIsNobody
      DEF PoolInv, TypeOK, OwnerInv, SlotInv, RemovalInv, NothingRunsAfterShutdown, NoSlot,
      Owns, Fresh, Parked, Removing, Bits,
      Goto, Deactivate, slotVars, loopVars, poolVars
  <1>1. CASE ClearActive(r)
    BY <1>1 DEF ClearActive
  <1>2. CASE LoadCancel(r)
    BY <1>2 DEF LoadCancel
  <1>3. CASE InvokeCancel(r)
    BY <1>3 DEF InvokeCancel
  <1>4. CASE DeactivateSlot(r)
    BY <1>4 DEF DeactivateSlot
  <1> QED
    BY <1>1, <1>2, <1>3, <1>4 DEF RemoveStep

-----------------------------------------------------------------------------
(* runSlot: waiting for work, an activation, its cleanup.                   *)

LEMMA IdleLoopKeeps ==
  ASSUME PoolInv, NEW s \in Slots, ExitOnShutdown(s) \/ FindWork(s) \/ FindNone(s) \/ Backoff(s) \/ Terminate(s)
  PROVE  PoolInv'
  <1> USE NoneIsNobody
      DEF PoolInv, TypeOK, OwnerInv, SlotInv, RemovalInv, NothingRunsAfterShutdown, NoSlot,
      Owns, Fresh, Parked, Removing, Bits,
      Move, outside, slotVars, clientVars, poolVars
  <1>1. CASE ExitOnShutdown(s)
    BY <1>1 DEF ExitOnShutdown
  <1>2. CASE FindWork(s)
    BY <1>2 DEF FindWork
  <1>3. CASE FindNone(s)
    BY <1>3 DEF FindNone
  <1>4. CASE Backoff(s)
    BY <1>4 DEF Backoff
  <1>5. CASE Terminate(s)
    BY <1>5 DEF Terminate
  <1> QED
    BY <1>1, <1>2, <1>3, <1>4, <1>5

LEMMA ActivationKeeps ==
  ASSUME PoolInv, NEW s \in Slots, SetUp(s) \/ BarrierCheck(s) \/ CallReader(s) \/ ReaderReturn(s)
  PROVE  PoolInv'
  <1> USE NoneIsNobody
      DEF PoolInv, TypeOK, OwnerInv, SlotInv, RemovalInv, NothingRunsAfterShutdown, NoSlot,
      Owns, Fresh, Parked, Removing, Bits,
      Move, outside, slotVars, clientVars, poolVars
  <1>1. CASE SetUp(s)
    BY <1>1 DEF SetUp
  <1>2. CASE BarrierCheck(s)
    BY <1>2 DEF BarrierCheck
  <1>3. CASE CallReader(s)
    BY <1>3 DEF CallReader
  <1>4. CASE ReaderReturn(s)
    BY <1>4 DEF ReaderReturn
  <1> QED
    BY <1>1, <1>2, <1>3, <1>4

LEMMA CleanupKeeps ==
  ASSUME PoolInv, NEW s \in Slots, Cleanup(s)
  PROVE  PoolInv'
  <1> USE NoneIsNobody
      DEF PoolInv, TypeOK, OwnerInv, SlotInv, RemovalInv, NothingRunsAfterShutdown, NoSlot,
      Owns, Fresh, Parked, Removing, Bits,
      Move, Deactivate, outside, slotVars, clientVars, poolVars
  <1>1. CASE ClearState(s)
    BY <1>1 DEF ClearState
  <1>2. CASE Ungate(s)
    BY <1>2 DEF Ungate
  <1>3. CASE ClearFunc(s)
    BY <1>3 DEF ClearFunc
  <1>4. CASE ClearCancel(s)
    BY <1>4 DEF ClearCancel
  <1>5. CASE DeallocateSlot(s)
    BY <1>5 DEF DeallocateSlot
  <1> QED
    BY <1>1, <1>2, <1>3, <1>4, <1>5 DEF Cleanup

-----------------------------------------------------------------------------
(* Shutdown.                                                               *)

LEMMA ShutdownKeeps ==
  ASSUME PoolInv, RootCancel \/ WaitGroupDone
  PROVE  PoolInv'
  <1> USE NoneIsNobody
      DEF PoolInv, TypeOK, OwnerInv, SlotInv, RemovalInv, NothingRunsAfterShutdown, NoSlot,
      Owns, Fresh, Parked, Removing, Bits,
      slotVars, loopVars, clientVars
  <1>1. CASE RootCancel
    BY <1>1 DEF RootCancel
  <1>2. CASE WaitGroupDone
    BY <1>2 DEF WaitGroupDone
  <1> QED
    BY <1>1, <1>2

-----------------------------------------------------------------------------
(* The invariant and what it gives.                                        *)

LEMMA NextPoolInv == PoolInv /\ [Next]_vars => PoolInv'
  <1> SUFFICES ASSUME PoolInv, [Next]_vars PROVE PoolInv'
    OBVIOUS
  <1>1. CASE \E r \in Readers : AddStep(r) \/ ClearActive(r) \/ RemoveStep(r)
    BY <1>1, AddKeeps, RemoveKeeps
  <1>2. CASE \E s \in Slots : RunSlot(s) \/ ReaderReturn(s)
    BY <1>2, IdleLoopKeeps, ActivationKeeps, CleanupKeeps DEF RunSlot
  <1>3. CASE RootCancel \/ WaitGroupDone
    BY <1>3, ShutdownKeeps
  <1>4. CASE UNCHANGED vars
    BY <1>4
    DEF vars, slotVars, loopVars, clientVars, poolVars, PoolInv, TypeOK, OwnerInv,
        SlotInv, RemovalInv, NothingRunsAfterShutdown, Owns, Fresh
  <1> QED
    BY <1>1, <1>2, <1>3, <1>4 DEF Next

(***************************************************************************)
(* In every state of the pool, each slot belongs to at most one call, to   *)
(* its goroutine or to nobody, and its words say so.                       *)
(***************************************************************************)
THEOREM PoolInvHolds == Spec => []PoolInv
  BY InitPoolInv, NextPoolInv, PTL DEF Spec

(* A behaviour with the history variable of PoolCalls is one of the pool.  *)
LEMMA HistoryObserves == CallsSpec => Spec
  <1>1. CallsInit => Init
    BY DEF CallsInit
  <1>2. [CallsNext]_callHistory => [Next]_vars
    BY DEF CallsNext, callHistory
  <1> QED
    BY <1>1, <1>2, PTL DEF CallsSpec, Spec

(***************************************************************************)
(* The pool's words, and what its goroutines and clients hold, have their  *)
(* types: a claimed slot is a slot of the pool.                            *)
(***************************************************************************)
THEOREM PoolTypeCorrect == Spec => []TypeOK
  <1>1. PoolInv => TypeOK
    BY DEF PoolInv
  <1> QED
    BY <1>1, PoolInvHolds, PTL

(***************************************************************************)
(* AddReader spawns a goroutine only in a slot that has none.              *)
(***************************************************************************)
THEOREM AtMostOneGoroutineHolds == Spec => []AtMostOneGoroutine
  <1>1. PoolInv => AtMostOneGoroutine
    BY DEF PoolInv, OwnerInv, AtMostOneGoroutine
  <1> QED
    BY <1>1, PoolInvHolds, PTL

(***************************************************************************)
(* A slot that gets its next reader holds nothing of the last, and the     *)
(* function that is called is that of the reader the context was made for. *)
(***************************************************************************)
THEOREM TenantIsolationHolds == Spec => []TenantIsolation
  <1>1. PoolInv => TenantIsolation
    BY NoneIsNobody
    DEF PoolInv, TypeOK, OwnerInv, SlotInv, TenantIsolation, Owns, Fresh, NoSlot
  <1> QED
    BY <1>1, PoolInvHolds, PTL

(***************************************************************************)
(* Once RemoveReader has dealt with the context, the reader's function is  *)
(* not running without knowing it.                                         *)
(***************************************************************************)
THEOREM RemoveReachesReaderHolds == Spec => []RemoveReachesReader
  <1>1. PoolInv => RemoveReachesReader
    BY DEF PoolInv, SlotInv, RemovalInv, RemoveReachesReader, Runs
  <1> QED
    BY <1>1, PoolInvHolds, PTL

(***************************************************************************)
(* When Shutdown has returned, no reader function runs or will run.        *)
(***************************************************************************)
THEOREM NothingRunsAfterShutdownHolds == Spec => []NothingRunsAfterShutdown
  <1>1. PoolInv => NothingRunsAfterShutdown
    BY DEF PoolInv
  <1> QED
    BY <1>1, PoolInvHolds, PTL
=============================================================================
