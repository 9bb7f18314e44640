-------------------------- MODULE BitmapReaderPool --------------------------
(***************************************************************************)
(* The life of the readers in bitmap_reader_pool.go: AddReader and         *)
(* RemoveReader, called from any goroutine, the goroutine pooled in every  *)
(* slot (runSlot), and Shutdown.  Each access to an atomic word (the two   *)
(* bitmaps, a slot's state, readerFunc or cancelFn) is a step of its own.  *)
(*                                                                         *)
(* A reader stands for one AddReader call, the function it passes and the  *)
(* context that function is given, and for the RemoveReader calls made     *)
(* with the slot it was told.  Cursors belong to RingBuffer; here the bit  *)
(* in activeSlots says whether the writer is gated on the slot.            *)
(***************************************************************************)
EXTENDS Integers, FiniteSets

CONSTANTS
  Readers,    \* the AddReader calls, at most one for each reader
  None,       \* no reader: a nil readerFunc, cancelFn or context
  NumSlots,   \* slots of the pool (128 in the code)
  WordSize,   \* slots per bitmap word (64 in the code)
  Quitters,   \* readers whose function may return by itself
  Thresholds  \* the idle loops after which the pool's goroutines may stop

ASSUME PoolAssumption ==
  /\ None \notin Readers
  /\ Quitters \subseteq Readers
  /\ NumSlots \in Nat \ {0}
  /\ WordSize \in Nat \ {0}
  /\ Thresholds \subseteq Nat

Slots == 0 .. NumSlots - 1
NoSlot == -1

VARIABLES
  allocatedSlots,   \* slots claimed by allocateSlot
  activeSlots,      \* slots that gate the writer
  state,            \* slotControl[s].state, as a set of its three bits
  readerFunc,       \* slotControl[s].readerFunc: whose function it is
  cancelFn,         \* slotControl[s].cancelFn: whose context it cancels
  gpc,              \* the slot's goroutine; "none" when there is none
  currentState,     \* what that goroutine last loaded from state
  idleLoops,        \* how often it has found no work since it last had some
  ctx,              \* whose context it made for this activation
  pc,               \* the client of each reader: its AddReader, its RemoveReader
  slot,             \* the slotId that client holds
  oldState,         \* what its Swap returned
  grabbed,          \* the cancelFn its RemoveReader loaded
  cancelled,        \* readers whose context is cancelled
  terminateThreshold, \* 0 in a Stage, which sets none; else a minute's worth
  down              \* Shutdown: "up", "cancelled" or "stopped"

slotVars   == <<allocatedSlots, activeSlots, state, readerFunc, cancelFn>>
loopVars   == <<gpc, currentState, idleLoops, ctx>>
clientVars == <<pc, slot, oldState, grabbed>>
poolVars == <<terminateThreshold, down>>
vars == <<slotVars, loopVars, clientVars, cancelled, poolVars>>

Bits == {"Allocated", "Active", "Running"}

Init ==
  /\ allocatedSlots = {}
  /\ activeSlots = {}
  /\ state = [s \in Slots |-> {}]
  /\ readerFunc = [s \in Slots |-> None]
  /\ cancelFn = [s \in Slots |-> None]
  /\ gpc = [s \in Slots |-> "none"]
  /\ currentState = [s \in Slots |-> {}]
  /\ idleLoops = [s \in Slots |-> 0]
  /\ terminateThreshold \in Thresholds
  /\ ctx = [s \in Slots |-> None]
  /\ pc = [r \in Readers |-> "new"]
  /\ slot = [r \in Readers |-> NoSlot]
  /\ oldState = [r \in Readers |-> {}]
  /\ grabbed = [r \in Readers |-> None]
  /\ cancelled = {}
  /\ down = "up"

-----------------------------------------------------------------------------
(* AddReader and RemoveReader.                                             *)

Goto(r, from, to) == pc[r] = from /\ pc' = [pc EXCEPT ![r] = to]

(* The slots of a word of the allocation bitmap whose bit is clear. *)
FreeIn(word) ==
  {s \in Slots \ allocatedSlots : (IF s < WordSize THEN 0 ELSE 1) = word}

Lowest(S) == CHOOSE s \in S : \A t \in S : s <= t

(* allocateSlot: the compare-and-swap that takes the lowest free bit of a  *)
(* word; the loop starts over when another call got there first.           *)
ClaimIn(r, word) ==
  /\ FreeIn(word) # {}
  /\ slot' = [slot EXCEPT ![r] = Lowest(FreeIn(word))]
  /\ allocatedSlots' = allocatedSlots \cup {Lowest(FreeIn(word))}

AllocateWord0(r) ==
  /\ \/ ClaimIn(r, 0) /\ Goto(r, "new", "func")
     \/ /\ FreeIn(0) = {}
        /\ Goto(r, "new", "word1")
        /\ UNCHANGED <<slot, allocatedSlots>>
  /\ UNCHANGED <<activeSlots, state, readerFunc, cancelFn, loopVars>>
  /\ UNCHANGED <<oldState, grabbed, cancelled, poolVars>>

AllocateWord1(r) ==
  /\ \/ ClaimIn(r, 1) /\ Goto(r, "word1", "func")
     \/ /\ FreeIn(1) = {}
        /\ Goto(r, "word1", "rejected")
        /\ UNCHANGED <<slot, allocatedSlots>>
  /\ UNCHANGED <<activeSlots, state, readerFunc, cancelFn, loopVars>>
  /\ UNCHANGED <<oldState, grabbed, cancelled, poolVars>>

(* control.readerFunc.Store(fn) *)
StoreFunc(r) ==
  /\ Goto(r, "func", "swap")
  /\ readerFunc' = [readerFunc EXCEPT ![slot[r]] = r]
  /\ UNCHANGED <<allocatedSlots, activeSlots, state, cancelFn, loopVars>>
  /\ UNCHANGED <<slot, oldState, grabbed, cancelled, poolVars>>

(* Mutant: the old state is read after the swap. *)
SwapStateReadsNew(r) ==
  /\ Goto(r, "swap", "activate")
  /\ oldState' = [oldState EXCEPT ![r] = Bits]
  /\ state' = [state EXCEPT ![slot[r]] = Bits]
  /\ UNCHANGED <<allocatedSlots, activeSlots, readerFunc, cancelFn, loopVars>>
  /\ UNCHANGED <<slot, grabbed, cancelled, poolVars>>

(* The state becomes Allocated, Active and Running in one swap. *)
SwapState(r) ==
  /\ Goto(r, "swap", "activate")
  /\ oldState' = [oldState EXCEPT ![r] = state[slot[r]]]
  /\ state' = [state EXCEPT ![slot[r]] = Bits]
  /\ UNCHANGED <<allocatedSlots, activeSlots, readerFunc, cancelFn, loopVars>>
  /\ UNCHANGED <<slot, grabbed, cancelled, poolVars>>

(* Mutant: a goroutine is spawned whether or not one is running. *)
ActivateAlwaysSpawn(r) ==
  /\ Goto(r, "activate", "spawn")
  /\ activeSlots' = activeSlots \cup {slot[r]}
  /\ UNCHANGED <<allocatedSlots, state, readerFunc, cancelFn, loopVars>>
  /\ UNCHANGED <<slot, oldState, grabbed, cancelled, poolVars>>

(* Mutant: the bit is set only along with a new goroutine. *)
ActivateOnlyFresh(r) ==
  /\ Goto(r, "activate", IF "Running" \in oldState[r] THEN "added" ELSE "spawn")
  /\ activeSlots' = IF "Running" \in oldState[r] THEN activeSlots
                    ELSE activeSlots \cup {slot[r]}
  /\ UNCHANGED <<allocatedSlots, state, readerFunc, cancelFn, loopVars>>
  /\ UNCHANGED <<slot, oldState, grabbed, cancelled, poolVars>>

(* The writer is gated on the slot; a goroutine is spawned if none runs. *)
ActivateSlot(r) ==
  /\ Goto(r, "activate", IF "Running" \in oldState[r] THEN "added" ELSE "spawn")
  /\ activeSlots' = activeSlots \cup {slot[r]}
  /\ UNCHANGED <<allocatedSlots, state, readerFunc, cancelFn, loopVars>>
  /\ UNCHANGED <<slot, oldState, grabbed, cancelled, poolVars>>

(* wg.Add(1) and go runSlot(slotId). *)
Spawn(r) ==
  /\ Goto(r, "spawn", "added")
  /\ gpc' = [gpc EXCEPT ![slot[r]] = "top"]
  /\ UNCHANGED <<slotVars, currentState, idleLoops, ctx>>
  /\ UNCHANGED <<slot, oldState, grabbed, cancelled, poolVars>>

(* Mutant: the bit is cleared in word 0 whatever the slot's word. *)
DeactivateWord0(s) == activeSlots' = activeSlots \ {s % WordSize}

(* deactivateSlot: the slot's bit is cleared. *)
Deactivate(s) == activeSlots' = activeSlots \ {s}

(* RemoveReader(slot[r]) may be called once AddReader has returned: it     *)
(* clears the Active bit,                                                  *)
ClearActive(r) ==
  /\ Goto(r, "added", "cancel")
  /\ state' = [state EXCEPT ![slot[r]] = @ \ {"Active"}]
  /\ UNCHANGED <<allocatedSlots, activeSlots, readerFunc, cancelFn, loopVars>>
  /\ UNCHANGED <<slot, oldState, grabbed, cancelled, poolVars>>

(* loads the slot's cancel function,                                       *)
LoadCancel(r) ==
  /\ Goto(r, "cancel", "invoke")
  /\ grabbed' = [grabbed EXCEPT ![r] = cancelFn[slot[r]]]
  /\ UNCHANGED <<slotVars, loopVars, slot, oldState, cancelled, poolVars>>

(* calls it, unless it is nil,                                             *)
InvokeCancel(r) ==
  /\ Goto(r, "invoke", "deactivate")
  /\ cancelled' = cancelled \cup ({grabbed[r]} \ {None})
  /\ UNCHANGED <<slotVars, loopVars, slot, oldState, grabbed, poolVars>>

(* and takes the slot out of the writer's view.                            *)
DeactivateSlot(r) ==
  /\ Goto(r, "deactivate", "removed")
  /\ Deactivate(slot[r])
  /\ UNCHANGED <<allocatedSlots, state, readerFunc, cancelFn, loopVars>>
  /\ UNCHANGED <<slot, oldState, grabbed, cancelled, poolVars>>

AddStep(r) ==
  \/ AllocateWord0(r)
  \/ AllocateWord1(r)
  \/ StoreFunc(r)
  \/ SwapState(r)
  \/ ActivateSlot(r)
  \/ Spawn(r)

RemoveStep(r) ==
  \/ LoadCancel(r)
  \/ InvokeCancel(r)
  \/ DeactivateSlot(r)

-----------------------------------------------------------------------------
(* runSlot.                                                                *)

Move(s, from, to) == gpc[s] = from /\ gpc' = [gpc EXCEPT ![s] = to]

outside == <<clientVars, poolVars>>

(* rootCtx is done: the goroutine returns from the top of the loop or from *)
(* its backoff, and leaves the slot as it is.                              *)
ExitOnShutdown(s) ==
  /\ down # "up"
  /\ Move(s, "top", "none") \/ Move(s, "idle", "none")
  /\ idleLoops' = [idleLoops EXCEPT ![s] = 0]
  /\ UNCHANGED <<slotVars, currentState, ctx, outside, cancelled>>

(* Mutant: the loop does not look at the root context. *)
FindWorkAlways(s) ==
  /\ "Active" \in state[s]
  /\ Move(s, "top", "setup")
  /\ currentState' = [currentState EXCEPT ![s] = state[s]]
  /\ idleLoops' = [idleLoops EXCEPT ![s] = 0]
  /\ UNCHANGED <<slotVars, ctx, outside, cancelled>>

(* Otherwise the state tells whether the slot has work; *)
FindWork(s) ==
  /\ down = "up"
  /\ "Active" \in state[s]
  /\ Move(s, "top", "setup")
  /\ currentState' = [currentState EXCEPT ![s] = state[s]]
  /\ idleLoops' = [idleLoops EXCEPT ![s] = 0]
  /\ UNCHANGED <<slotVars, ctx, outside, cancelled>>

(* Mutant: the idle loops are not counted. *)
FindNoneUncounted(s) ==
  /\ down = "up"
  /\ "Active" \notin state[s]
  /\ Move(s, "top", IF idleLoops[s] + 1 >= terminateThreshold THEN "stop" ELSE "idle")
  /\ currentState' = [currentState EXCEPT ![s] = state[s]]
  /\ UNCHANGED <<slotVars, idleLoops, ctx, outside, cancelled>>

(* if it has none the goroutine backs off, or tries to stop when it has    *)
(* found none terminateThreshold times in a row.                           *)
FindNone(s) ==
  /\ down = "up"
  /\ "Active" \notin state[s]
  /\ Move(s, "top", IF idleLoops[s] + 1 >= terminateThreshold THEN "stop" ELSE "idle")
  /\ currentState' = [currentState EXCEPT ![s] = state[s]]
  /\ idleLoops' = [idleLoops EXCEPT ![s] = @ + 1]
  /\ UNCHANGED <<slotVars, ctx, outside, cancelled>>

(* The backoff is over: look again. *)
Backoff(s) ==
  /\ Move(s, "idle", "top")
  /\ UNCHANGED <<slotVars, currentState, idleLoops, ctx, outside, cancelled>>

(* The goroutine stops, but only if nothing happened to the state since it *)
(* was loaded; else it starts to count again.                              *)
Terminate(s) ==
  /\ IF state[s] = currentState[s]
     THEN Move(s, "stop", "none") /\ state' = [state EXCEPT ![s] = {}]
     ELSE Move(s, "stop", "top") /\ UNCHANGED state
  /\ idleLoops' = [idleLoops EXCEPT ![s] = 0]
  /\ UNCHANGED <<allocatedSlots, activeSlots, readerFunc, cancelFn>>
  /\ UNCHANGED <<currentState, ctx, outside, cancelled>>

(* A context for this activation, its cancel function published.           *)
SetUp(s) ==
  /\ Move(s, "setup", "barrier")
  /\ ctx' = [ctx EXCEPT ![s] = readerFunc[s]]
  /\ cancelFn' = [cancelFn EXCEPT ![s] = readerFunc[s]]
  /\ UNCHANGED <<allocatedSlots, activeSlots, state, readerFunc>>
  /\ UNCHANGED <<currentState, idleLoops, outside, cancelled>>

(* Mutant: the state is not checked again. *)
BarrierUnchecked(s) ==
  /\ Move(s, "barrier", "call")
  /\ UNCHANGED <<slotVars, currentState, idleLoops, ctx, outside, cancelled>>

(* Mutant: the context is cancelled whatever the check says. *)
BarrierCancelsAlways(s) ==
  /\ Move(s, "barrier", IF "Active" \in state[s] THEN "call" ELSE "clear")
  /\ cancelled' = cancelled \cup {ctx[s]}
  /\ UNCHANGED <<slotVars, currentState, idleLoops, ctx, outside>>

(* "Did RemoveReader run while we were setting up?"                        *)
BarrierCheck(s) ==
  /\ IF "Active" \in state[s]
     THEN Move(s, "barrier", "call") /\ UNCHANGED cancelled
     ELSE Move(s, "barrier", "clear") /\ cancelled' = cancelled \cup {ctx[s]}
  /\ UNCHANGED <<slotVars, currentState, idleLoops, ctx, outside>>

(* The function stored in the slot is called, *)
CallReader(s) ==
  /\ Move(s, "call", "run")
  /\ UNCHANGED <<slotVars, currentState, idleLoops, ctx, outside, cancelled>>

(* Mutant: the reader's context is not derived from the root context. *)
DoneByRemoval(s) == ctx[s] \in cancelled

(* and returns: when its context is done, or because it wants to.          *)
Done(s) == ctx[s] \in cancelled \/ down # "up"

ReaderReturn(s) ==
  /\ Move(s, "run", "clear")
  /\ Done(s) \/ readerFunc[s] \in Quitters
  /\ UNCHANGED <<slotVars, currentState, idleLoops, ctx, outside, cancelled>>

(* The cleanup, one store after the other.                                 *)
(* Mutant: the slot is offered again before its cleanup is over. *)
ClearStateAndFree(s) ==
  /\ Move(s, "clear", "ungate")
  /\ state' = [state EXCEPT ![s] = {"Running"}]
  /\ allocatedSlots' = allocatedSlots \ {s}
  /\ UNCHANGED <<activeSlots, readerFunc, cancelFn>>
  /\ UNCHANGED <<currentState, idleLoops, ctx, outside, cancelled>>

(* state.Store(slotStateRunning) *)
ClearState(s) ==
  /\ Move(s, "clear", "ungate")
  /\ state' = [state EXCEPT ![s] = {"Running"}]
  /\ UNCHANGED <<allocatedSlots, activeSlots, readerFunc, cancelFn>>
  /\ UNCHANGED <<currentState, idleLoops, ctx, outside, cancelled>>

Ungate(s) ==
  /\ Move(s, "ungate", "nilfunc")
  /\ Deactivate(s)
  /\ UNCHANGED <<allocatedSlots, state, readerFunc, cancelFn>>
  /\ UNCHANGED <<currentState, idleLoops, ctx, outside, cancelled>>

ClearFunc(s) ==
  /\ Move(s, "nilfunc", "nilcancel")
  /\ readerFunc' = [readerFunc EXCEPT ![s] = None]
  /\ UNCHANGED <<allocatedSlots, activeSlots, state, cancelFn>>
  /\ UNCHANGED <<currentState, idleLoops, ctx, outside, cancelled>>

ClearCancel(s) ==
  /\ Move(s, "nilcancel", "free")
  /\ ctx' = [ctx EXCEPT ![s] = None]
  /\ cancelFn' = [cancelFn EXCEPT ![s] = None]
  /\ UNCHANGED <<allocatedSlots, activeSlots, state, readerFunc>>
  /\ UNCHANGED <<currentState, idleLoops, outside, cancelled>>

DeallocateSlot(s) ==
  /\ Move(s, "free", "top")
  /\ allocatedSlots' = allocatedSlots \ {s}
  /\ UNCHANGED <<activeSlots, state, readerFunc, cancelFn>>
  /\ UNCHANGED <<currentState, idleLoops, ctx, outside, cancelled>>

Cleanup(s) ==
  \/ ClearState(s)
  \/ Ungate(s)
  \/ ClearFunc(s)
  \/ ClearCancel(s)
  \/ DeallocateSlot(s)

(* What the goroutine does without anybody's leave.                        *)
RunSlot(s) ==
  \/ ExitOnShutdown(s)
  \/ FindWork(s)
  \/ FindNone(s)
  \/ Backoff(s)
  \/ Terminate(s)
  \/ SetUp(s)
  \/ BarrierCheck(s)
  \/ CallReader(s)
  \/ Done(s) /\ ReaderReturn(s)
  \/ Cleanup(s)

-----------------------------------------------------------------------------
(* Shutdown cancels the root context, and with it every reader's, ...      *)
RootCancel ==
  /\ down = "up"
  /\ down' = "cancelled"
  /\ UNCHANGED <<slotVars, loopVars, clientVars, cancelled, terminateThreshold>>

(* ... and waits for the goroutines.                                       *)
WaitGroupDone ==
  /\ down = "cancelled"
  /\ \A s \in Slots : gpc[s] = "none"
  /\ down' = "stopped"
  /\ UNCHANGED <<slotVars, loopVars, clientVars, cancelled, terminateThreshold>>

Next ==
  \/ \E r \in Readers : AddStep(r) \/ ClearActive(r) \/ RemoveStep(r)
  \/ \E s \in Slots : RunSlot(s) \/ ReaderReturn(s)
  \/ RootCancel
  \/ WaitGroupDone

Spec == Init /\ [][Next]_vars

(***************************************************************************)
(* Goroutines that can run do run, a reader function returns once its      *)
(* context is done, and a call that has started is not abandoned.  Nobody  *)
(* has to call AddReader, RemoveReader or Shutdown, and no reader has to   *)
(* quit.                                                                   *)
(***************************************************************************)
Fairness ==
  /\ \A s \in Slots : WF_vars(RunSlot(s))
  /\ \A r \in Readers : WF_vars((pc[r] # "new" /\ AddStep(r)) \/ RemoveStep(r))
  /\ WF_vars(WaitGroupDone)

FairSpec == Spec /\ Fairness

(***************************************************************************)
(* One goroutine makes all the AddReader and RemoveReader calls: none      *)
(* begins while another is under way.                                      *)
(***************************************************************************)
InCall(r)  == pc[r] \notin {"new", "added", "rejected", "removed"}
OneAtATime == Cardinality({r \in Readers : InCall(r)'}) <= 1
SerialSpec == Init /\ [][Next /\ OneAtATime]_vars

-----------------------------------------------------------------------------
(* A slot's goroutine is on behalf of reader r, whose function it runs.    *)
Runs(s, r) == gpc[s] = "run" /\ ctx[s] = r

TypeOK ==
  /\ allocatedSlots \subseteq Slots
  /\ activeSlots \subseteq Slots
  /\ state \in [Slots -> SUBSET Bits]
  /\ readerFunc \in [Slots -> Readers \cup {None}]
  /\ cancelFn \in [Slots -> Readers \cup {None}]
  /\ gpc \in [Slots -> {"none", "top", "idle", "stop", "setup", "barrier", "call", "run",
                        "clear", "ungate", "nilfunc", "nilcancel", "free"}]
  /\ currentState \in [Slots -> SUBSET Bits]
  /\ idleLoops \in [Slots -> Nat]
  /\ terminateThreshold \in Thresholds
  /\ ctx \in [Slots -> Readers \cup {None}]
  /\ pc \in [Readers -> {"new", "word1", "func", "swap", "activate", "spawn",
                         "added", "rejected", "cancel", "invoke", "deactivate",
                         "removed"}]
  /\ slot \in [Readers -> Slots \cup {NoSlot}]
  /\ oldState \in [Readers -> SUBSET Bits]
  /\ grabbed \in [Readers -> Readers \cup {None}]
  /\ cancelled \subseteq Readers
  /\ down \in {"up", "cancelled", "stopped"}

(***************************************************************************)
(* AtMostOneGoroutine: AddReader spawns a goroutine only in a slot that    *)
(* has none, however its swap of the state falls against the idle          *)
(* goroutine's compare-and-swap to 0.                                      *)
(***************************************************************************)
AtMostOneGoroutine ==
  \A r \in Readers : pc[r] = "spawn" => gpc[slot[r]] = "none"

(***************************************************************************)
(* TenantIsolation: when a slot gets its next reader, nothing is left of   *)
(* the last: its cleanup is over, and the function that is called is that  *)
(* of the reader the context was made for.                                 *)
(***************************************************************************)
TenantIsolation ==
  /\ \A r \in Readers :
       pc[r] \in {"func", "swap", "spawn"} =>
         ctx[slot[r]] = None /\ cancelFn[slot[r]] = None
  /\ \A s \in Slots :
       gpc[s] \in {"call", "run"} => ctx[s] # None /\ readerFunc[s] = ctx[s]

(***************************************************************************)
(* RemoveReachesReader: once RemoveReader has dealt with the context, the  *)
(* reader's function is not running without knowing it: either RemoveReader*)
(* found the cancel function or the goroutine found the Active bit clear.  *)
(***************************************************************************)
RemoveReachesReader ==
  \A r \in Readers, s \in Slots :
    Runs(s, r) /\ pc[r] \in {"deactivate", "removed"} => r \in cancelled

(***************************************************************************)
(* NothingRunsAfterShutdown: when Shutdown has returned no reader function *)
(* runs or will run, not even one whose AddReader was under way.           *)
(***************************************************************************)
NothingRunsAfterShutdown ==
  down = "stopped" => \A s \in Slots : gpc[s] \in {"none", "top"}

(***************************************************************************)
(* PoolInv, the inductive invariant behind the four properties above.      *)
(*                                                                         *)
(* AddReader has the slot to itself until it has swapped the state, and if *)
(* it found no Running bit until it has spawned the goroutine (Owns).      *)
(***************************************************************************)
Parked   == {"none", "top", "idle", "stop"}
Removing == {"cancel", "invoke", "deactivate", "removed"}

Fresh(r) == pc[r] \in {"activate", "spawn"} /\ "Running" \notin oldState[r]
Owns(r)  == pc[r] \in {"func", "swap"} \/ Fresh(r)

OwnerInv ==
  /\ \A r \in Readers :
       /\ pc[r] \in {"new", "word1", "rejected"} <=> slot[r] = NoSlot
       /\ pc[r] = "spawn" => Fresh(r)
       /\ Owns(r) => slot[r] \in allocatedSlots /\ gpc[slot[r]] \in Parked
       /\ pc[r] \in {"func", "swap"} => "Allocated" \notin state[slot[r]]
       /\ pc[r] = "swap" => readerFunc[slot[r]] = r
       /\ Fresh(r) => "Allocated" \in state[slot[r]] /\ gpc[slot[r]] = "none"
  /\ \A r, q \in Readers : Owns(r) /\ Owns(q) /\ slot[r] = slot[q] => r = q

(* What the state of a slot says of it, and what its goroutine knows.      *)
SlotInv ==
  \A s \in Slots :
    /\ "Active" \in state[s] => "Allocated" \in state[s]
    /\ "Allocated" \in state[s] =>
         "Running" \in state[s] /\ s \in allocatedSlots /\ readerFunc[s] # None
    /\ "Running" \notin state[s] => gpc[s] = "none"
    /\ s \notin allocatedSlots => gpc[s] \in Parked
    /\ gpc[s] \in {"setup", "barrier", "call", "run", "clear"} => "Allocated" \in state[s]
    /\ gpc[s] \in {"ungate", "nilfunc", "nilcancel", "free"} => state[s] = {"Running"}
    /\ gpc[s] \in {"barrier", "call", "run"} => ctx[s] = readerFunc[s]
    /\ gpc[s] \in Parked \cup {"setup", "free"} => ctx[s] = None
    /\ cancelFn[s] = ctx[s]

(* A removal and the activation it is meant for find each other.           *)
RemovalInv ==
  \A s \in Slots : \A r \in Readers :
    readerFunc[s] = r =>
      /\ slot[r] = s
      /\ pc[r] # "func"
      /\ pc[r] \in Removing => "Active" \notin state[s]
      /\ gpc[s] \in {"call", "run"} =>
           /\ pc[r] = "invoke" => grabbed[r] = r
           /\ pc[r] \in {"deactivate", "removed"} => r \in cancelled

PoolInv == TypeOK /\ OwnerInv /\ SlotInv /\ RemovalInv /\ NothingRunsAfterShutdown

(***************************************************************************)
(* RunningReaderGated: the writer waits for every reader that has been     *)
(* added, whose function runs and that nobody has asked to leave.          *)
(***************************************************************************)
RunningReaderGated ==
  \A r \in Readers, s \in Slots : Runs(s, r) /\ pc[r] = "added" => s \in activeSlots

(***************************************************************************)
(* FreeSlotsUngated: while the pool is up, a slot that no reader occupies  *)
(* does not hold the writer back, once no call is under way.               *)
(***************************************************************************)
FreeSlotsUngated ==
  down = "up" /\ (\A r \in Readers : ~InCall(r)) => activeSlots \subseteq allocatedSlots

(***************************************************************************)
(* StopsOnlyWhenFree: "We expect the state to be just 'Running'": the      *)
(* goroutine that gives up waiting leaves behind a slot nobody occupies.   *)
(***************************************************************************)
StopsOnlyWhenFree ==
  [][\A s \in Slots :
       state[s] # {} /\ state'[s] = {} => state[s] = {"Running"}]_vars

(***************************************************************************)
(* IdleGoroutineLeaves: a goroutine that waits for work gets some, or goes *)
(* away by itself.                                                         *)
(***************************************************************************)
IdleGoroutineLeaves ==
  \A s \in Slots : gpc[s] = "idle" ~> gpc[s] \in {"setup", "none"}

(* ShutdownReturns: Shutdown does not wait for ever.                       *)
ShutdownReturns == down = "cancelled" ~> down = "stopped"
=============================================================================
