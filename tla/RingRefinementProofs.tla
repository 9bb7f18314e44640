------------------------ MODULE RingRefinementProofs ------------------------
(***************************************************************************)
(* The ring buffer implements BoundedBroadcast: the initial state maps to  *)
(* the initial state and every step to a step or a stutter.                *)
(***************************************************************************)
EXTENDS RingRefinement, RingSafetyProofs

-----------------------------------------------------------------------------
(* A step that leaves slot t's membership, and a member's position, alone. *)
Still(t) ==
  /\ Member(t)' <=> Member(t)
  /\ Member(t) => Position(t)' = Position(t)

LEMMA StillStutters ==
  ASSUME \A t \in Slots : Still(t), UNCHANGED writeCursor
  PROVE  UNCHANGED Abstract!broadcastVars
  <1>1. UNCHANGED Members
    BY DEF Members, Still
  <1>2. UNCHANGED Positions
    BY DEF Positions, Still
  <1> QED
    BY <1>1, <1>2 DEF Abstract!broadcastVars

(* A step that gives slot s the position p, or takes it out of the members. *)
LEMMA OneMoves ==
  ASSUME NEW s \in Slots, \A t \in Slots \ {s} : Still(t)
  PROVE  /\ Member(s)' =>
              /\ Members' = Members \cup {s}
              /\ Positions' = [Positions EXCEPT ![s] = Position(s)']
         /\ ~Member(s)' =>
              /\ Members' = Members \ {s}
              /\ Positions' = [Positions EXCEPT ![s] = 0]
  BY DEF Members, Positions, Still

(* What each step of a reader does to its own slot, and to no other.       *)
LEMMA ReaderMoves ==
  ASSUME TypeOK, ReaderInv, NEW s \in Slots,
         JoinStep(s) \/ Remove(s) \/ ReaderStep(s) \/ ReaderReturn(s)
  PROVE  /\ UNCHANGED writeCursor
         /\ \A t \in Slots \ {s} : Still(t)
         /\ \/ Still(s)
            \/ ~Member(s) /\ Member(s)' /\ Position(s)' = writeCursor
            \/ Member(s) /\ ~Member(s)'
            \/ /\ Member(s) /\ Member(s)'
               /\ Position(s)' \in Position(s) + 1 .. writeCursor
  <1> USE DEF Still, Member, Position, SetJoin, SetPc, writerSide, ringVars, Joining, Running
  <1>1. /\ rpc \in [Slots -> {"free", "wait", "poll", "load", "read"}]
        /\ jpc \in [Slots -> {"none", "removed", "loaded", "stored"}]
        /\ late \in [Slots -> Nat]
        /\ cursor \in [Slots -> Nat] /\ upto \in [Slots -> Nat]
        /\ writeCursor \in Nat /\ activeSlots \subseteq Slots
    BY DEF TypeOK, BarrierTypeOK
  <1>2. \A t \in Slots :
          /\ jpc[t] = "loaded" => rpc[t] = "wait" /\ cursor[t] <= upto[t]
          /\ rpc[t] = "free" => jpc[t] = "none"
          /\ upto[t] <= writeCursor
    BY DEF ReaderInv
  <1>3. CASE JoinLoad(s)
    BY <1>1, <1>2, <1>3 DEF JoinLoad
  <1>4. CASE JoinStore(s)
    BY <1>1, <1>2, <1>4 DEF JoinStore
  <1>5. CASE JoinActivate(s)
    BY <1>1, <1>2, <1>5 DEF JoinActivate
  <1>12. CASE LateActivate(s)
    <2>1. late'[s] = late[s] - 1 /\ \A t \in Slots : t # s => late'[t] = late[t]
      BY <1>1, <1>12 DEF LateActivate
    <2> QED
      BY <1>1, <1>2, <1>12, <2>1 DEF LateActivate
  <1>6. CASE Remove(s)
    BY <1>1, <1>2, <1>6 DEF Remove
  <1>7. CASE ReaderPoll(s)
    BY <1>1, <1>2, <1>7 DEF ReaderPoll
  <1>8. CASE ReaderLoad(s)
    BY <1>1, <1>2, <1>8 DEF ReaderLoad
  <1>9. CASE ReaderAdvance(s)
    <2>1. PICK q \in cursor[s] + 1 .. upto[s] :
            /\ cursor' = [cursor EXCEPT ![s] = q]
            /\ IF q = upto[s]
               THEN /\ rpc' = [rpc EXCEPT ![s] = "poll"]
                    /\ upto' = [upto EXCEPT ![s] = 0]
               ELSE UNCHANGED <<rpc, upto>>
      BY <1>9 DEF ReaderAdvance
    <2>2. q \in cursor[s] + 1 .. writeCursor
      <3>1. /\ cursor[s] \in Nat /\ upto[s] \in Nat /\ upto[s] <= writeCursor
        BY <1>1, <1>2
      <3> QED
        BY <1>1, <2>1, <3>1
    <2>3. rpc[s] = "read" /\ UNCHANGED <<writeCursor, activeSlots, jpc, late>>
      BY <1>9 DEF ReaderAdvance
    <2>4. jpc[s] # "loaded" /\ cursor'[s] = q
      BY <1>1, <1>2, <2>1, <2>3
    <2>5. \A t \in Slots \ {s} :
            jpc'[t] = jpc[t] /\ upto'[t] = upto[t] /\ cursor'[t] = cursor[t]
      BY <1>1, <2>1, <2>3
    <2> QED
      BY <1>2, <2>2, <2>3, <2>4, <2>5
  <1>10. CASE ReaderReturn(s)
    <2>1. /\ late'[s] = IF jpc[s] = "stored" THEN late[s] + 1 ELSE late[s]
          /\ \A t \in Slots : t # s => late'[t] = late[t]
      BY <1>1, <1>10 DEF ReaderReturn
    <2> QED
      BY <1>1, <1>2, <1>10, <2>1 DEF ReaderReturn
  <1>11. CASE ReaderStart(s)
    BY <1>1, <1>2, <1>11 DEF ReaderStart
  <1> QED
    BY <1>3, <1>4, <1>5, <1>6, <1>7, <1>8, <1>9, <1>10, <1>11, <1>12
    DEF JoinStep, ReaderStep

LEMMA ReaderSimulates ==
  ASSUME IInv, NEW s \in Slots,
         JoinStep(s) \/ Remove(s) \/ ReaderStep(s) \/ ReaderReturn(s)
  PROVE  [Abstract!BroadcastNext]_Abstract!broadcastVars
  <1>0. TypeOK /\ ReaderInv
    BY DEF IInv
  <1>1. UNCHANGED writeCursor /\ \A t \in Slots \ {s} : Still(t)
    BY <1>0, ReaderMoves
  <1>2. CASE Still(s)
    BY <1>1, <1>2, StillStutters
  <1>3. CASE ~Member(s) /\ Member(s)' /\ Position(s)' = writeCursor
    <2>1. Abstract!Join(s)
      BY <1>1, <1>3, OneMoves DEF Abstract!Join, Members
    <2> QED
      BY <2>1 DEF Abstract!BroadcastNext
  <1>4. CASE Member(s) /\ ~Member(s)'
    <2>1. Members' = Members \ {s} /\ Positions' = [Positions EXCEPT ![s] = 0]
      BY <1>1, <1>4, OneMoves
    <2>2. {s} \in SUBSET Members /\ Abstract!Leave({s})
      BY <1>1, <1>4, <2>1 DEF Abstract!Leave, Members, Positions
    <2> QED
      BY <2>2 DEF Abstract!BroadcastNext
  <1>5. CASE /\ Member(s) /\ Member(s)'
             /\ Position(s)' \in Position(s) + 1 .. writeCursor
    <2>1. Positions[s] = Position(s) /\ s \in Members
      BY <1>5 DEF Positions, Members
    <2>2. Members' = Members
      BY <1>1, <1>5, <2>1, OneMoves
    <2>3. Abstract!Consume(s)
      BY <1>1, <1>5, <2>1, <2>2, OneMoves DEF Abstract!Consume
    <2> QED
      BY <2>3 DEF Abstract!BroadcastNext
  <1> QED
    BY <1>0, <1>2, <1>3, <1>4, <1>5, ReaderMoves

LEMMA CommitSimulates ==
  ASSUME IInv, Commit
  PROVE  Abstract!PublishBatch
  <1>1. /\ writeCursor \in Nat /\ claim \in Nat /\ BufferSize \in Nat
        /\ cachedSlowestReader \in Nat /\ writeCursor < claim
        /\ cachedSlowestReader <= writeCursor
        /\ claim < cachedSlowestReader + BufferSize
        /\ writeCursor' = claim
    BY RingAssumption DEF IInv, TypeOK, BarrierTypeOK, WriterInv, CallInv, Claimed, Commit
  <1> DEFINE n == claim - writeCursor
  <1>2. n \in 1 .. BufferSize - 1 /\ writeCursor' = writeCursor + n
    BY <1>1
  <1>3. \A s \in Members : writeCursor + n < Positions[s] + BufferSize
    <2> SUFFICES ASSUME NEW s \in Members
                 PROVE  writeCursor + n < Positions[s] + BufferSize
      OBVIOUS
    <2>1. s \in Slots /\ Member(s) /\ Positions[s] = Position(s)
      BY DEF Members, Positions
    <2>2. Position(s) \in Nat
      BY <2>1 DEF IInv, TypeOK, BarrierTypeOK, Position
    <2>3. cachedSlowestReader <= Position(s)
      BY <2>1 DEF IInv, GateInv
    <2> QED
      BY <1>1, <2>1, <2>2, <2>3
  <1>4. UNCHANGED <<Members, Positions>>
    BY DEF Commit, readerVars, Members, Positions, Member, Position
  <1> HIDE DEF n
  <1> QED
    BY <1>2, <1>3, <1>4 DEF Abstract!PublishBatch

(* Every other step of the writer is invisible.                            *)
LEMMA WriterStutters ==
  ASSUME UNCHANGED <<readerVars, writeCursor>>
  PROVE  UNCHANGED Abstract!broadcastVars
  BY StillStutters DEF readerVars, Still, Member, Position

LEMMA StepSimulates ==
  ASSUME IInv, [Next]_vars
  PROVE  [Abstract!BroadcastNext]_Abstract!broadcastVars
  <1>1. CASE WriterCall
    BY <1>1, WriterStutters
    DEF WriterCall, Publish, TryPublish, Reserve, TryReserve, Claim, Remaining, ringVars
  <1>2. CASE WriterStep /\ ~Commit
    BY <1>2, WriterStutters
    DEF WriterStep, StartLoad, RunLoad, Granted, WaitAgain, Refused, Reported,
        RefreshGate, WriteSlot, ringVars
  <1>3. CASE Commit
    BY <1>3, CommitSimulates DEF Abstract!BroadcastNext
  <1>4. CASE \E s \in Slots :
               JoinStep(s) \/ Remove(s) \/ ReaderStep(s) \/ ReaderReturn(s)
    BY <1>4, ReaderSimulates
  <1>5. CASE UNCHANGED vars
    BY <1>5, WriterStutters DEF vars, ringVars
  <1> QED
    BY <1>1, <1>2, <1>3, <1>4, <1>5 DEF Next

LEMMA InitSimulates == Init => Abstract!BroadcastInit
  BY DEF Init, BarrierInit, Abstract!BroadcastInit, Members, Positions, Member,
         Position, Joining, Slots

(***************************************************************************)
(* The ring buffer implements BoundedBroadcast, whatever its capacity, the *)
(* batches it is asked for and the readers that join and leave: a          *)
(* publication waits for every member, at its current position.            *)
(***************************************************************************)
THEOREM Refinement == SpecQuiet => ImplementsBroadcast
  <1>1. IInv /\ [Next /\ QuietJoin]_vars
          => [Abstract!BroadcastNext]_Abstract!broadcastVars
    BY StepSimulates
  <1> QED
    BY <1>1, InitSimulates, Invariance, PTL
    DEF SpecQuiet, ImplementsBroadcast, Abstract!BroadcastSpec
=============================================================================
