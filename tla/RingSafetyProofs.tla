-------------------------- MODULE RingSafetyProofs --------------------------
(***************************************************************************)
(* The types of the variables of RingBuffer, the inductive invariant IInv  *)
(* of SpecQuiet and the safety properties it gives, for every capacity,    *)
(* number of slots and number of publications.                             *)
(*                                                                         *)
(* The argument: the writer never claims BufferSize or more beyond its     *)
(* cached gate (WriterInv), and its gate is never ahead of a member        *)
(* (GateInv).  The second is what a refresh must re-establish, while       *)
(* readers join, leave and advance between its reads: LoadInv says how     *)
(* each member is accounted for after each of them.                        *)
(***************************************************************************)
EXTENDS RingBuffer, TLAPS

-----------------------------------------------------------------------------
(* Type correctness.                                                       *)

LEMMA InitTypeOK == Init => TypeOK
  BY RingAssumption
  DEF Init, BarrierInit, TypeOK, BarrierTypeOK, Slots, Paths, Joining, Running

(* The writer's calls and the steps it takes inside them.                  *)
LEMMA ClaimTypeOK ==
  ASSUME TypeOK, NEW n \in Nat, NEW m \in {"block", "try"}, Claim(n, m)
  PROVE  TypeOK'
  BY DEF Claim, TypeOK, BarrierTypeOK, ringVars, readerVars, barrierVars

LEMMA CallTypeOK == TypeOK /\ WriterCall => TypeOK'
  <1> SUFFICES ASSUME TypeOK, WriterCall PROVE TypeOK'
    OBVIOUS
  <1>1. CASE Publish
    BY <1>1, ClaimTypeOK DEF Publish
  <1>2. CASE TryPublish
    BY <1>2, ClaimTypeOK DEF TryPublish
  <1>3. CASE \E n \in BatchSizes : Reserve(n) \/ TryReserve(n)
    <2>1. BatchSizes \subseteq Nat
      BY RingAssumption
    <2> QED
      BY <1>3, <2>1, ClaimTypeOK DEF Reserve, TryReserve
  <1>4. CASE Remaining
    BY <1>4 DEF Remaining, TypeOK, BarrierTypeOK, ringVars, readerVars, barrierVars
  <1> QED
    BY <1>1, <1>2, <1>3, <1>4 DEF WriterCall

LEMMA PathType == \A s : Path(s) \in Paths
  BY DEF Path, Paths

LEMMA LoadStepBarrierTypeOK ==
  ASSUME BarrierTypeOK, LoadStep, UNCHANGED <<writeCursor, activeSlots, cursor>>
  PROVE  BarrierTypeOK'
  <1> USE DEF BarrierTypeOK, cacheVars, scanVars
  <1>1. CASE LoadBitmap1
    BY <1>1 DEF LoadBitmap1
  <1>2. CASE LoadUpstream
    BY <1>2 DEF LoadUpstream
  <1>3. CASE GateHit
    BY <1>3 DEF GateHit
  <1>4. CASE GateMiss
    BY <1>4 DEF GateMiss
  <1>5. CASE ScanMax
    <2>1. 0 \in Slots
      BY RingAssumption DEF Slots
    <2> QED
      BY <1>5, <2>1 DEF ScanMax
  <1>6. CASE ScanSlot
    BY <1>6, PathType DEF ScanSlot
  <1>7. CASE ScanDone
    BY <1>7 DEF ScanDone, Paths
  <1> QED
    BY <1>1, <1>2, <1>3, <1>4, <1>5, <1>6, <1>7 DEF LoadStep

LEMMA RefreshTypeOK ==
  ASSUME TypeOK, NEW next \in {"fill", "load", "idle"}, RefreshGate(next)
  PROVE  TypeOK'
  <1>1. 0 \in Slots
    BY RingAssumption DEF Slots
  <1> QED
    BY <1>1
    DEF RefreshGate, CallOver, LoadReturn, TypeOK, BarrierTypeOK, cacheVars, readerVars

LEMMA WriterStepTypeOK == TypeOK /\ WriterStep => TypeOK'
  <1> SUFFICES ASSUME TypeOK, WriterStep PROVE TypeOK'
    OBVIOUS
  <1> USE DEF TypeOK, ringVars, callVars, readerVars, barrierVars
  <1>1. CASE StartLoad
    BY <1>1 DEF StartLoad, LoadBitmap0, BarrierTypeOK, cacheVars, scanVars
  <1>2. CASE RunLoad
    BY <1>2, LoadStepBarrierTypeOK DEF RunLoad
  <1>3. ASSUME NEW next \in {"fill", "load", "idle"}, RefreshGate(next)
        PROVE  TypeOK'
    BY <1>3, RefreshTypeOK
  <1>4. CASE WriteSlot
    <2>1. fill \in Nat /\ fill + 1 \in Nat
      OBVIOUS
    <2> QED
      BY <1>4, <2>1 DEF WriteSlot, BarrierTypeOK
  <1>5. CASE Commit
    BY <1>5 DEF Commit, CallOver, BarrierTypeOK
  <1> QED
    BY <1>1, <1>2, <1>3, <1>4, <1>5
    DEF WriterStep, Granted, WaitAgain, Refused, Reported

LEMMA ReaderTypeOK ==
  ASSUME TypeOK, NEW s \in Slots,
         JoinStep(s) \/ Remove(s) \/ ReaderStep(s) \/ ReaderReturn(s)
  PROVE  TypeOK'
  <1> USE DEF TypeOK, BarrierTypeOK, SetJoin, SetPc, writerSide, ringVars, callVars,
              barrierVars, Joining, Running
  <1>1. CASE JoinLoad(s)
    BY <1>1 DEF JoinLoad
  <1>2. CASE JoinStore(s)
    BY <1>2 DEF JoinStore
  <1>3. CASE JoinActivate(s)
    BY <1>3 DEF JoinActivate
  <1>4. CASE Remove(s)
    BY <1>4 DEF Remove
  <1>5. CASE LateActivate(s)
    <2>1. late[s] \in Nat /\ late[s] > 0
      BY <1>5 DEF LateActivate
    <2>2. late[s] - 1 \in Nat
      BY <2>1
    <2>3. late' \in [Slots -> Nat]
      BY <1>5, <2>2 DEF LateActivate
    <2> QED
      BY <1>5, <2>3 DEF LateActivate
  <1>6. CASE ReaderPoll(s)
    <2>1. rpc' \in [Slots -> {"free"} \cup Running]
      BY <1>6 DEF ReaderPoll
    <2> QED
      BY <1>6, <2>1 DEF ReaderPoll
  <1>7. CASE ReaderLoad(s)
    <2>1. rpc' \in [Slots -> {"free"} \cup Running]
      BY <1>7 DEF ReaderLoad
    <2>2. upto' \in [Slots -> Nat]
      BY <1>7 DEF ReaderLoad
    <2> QED
      BY <1>7, <2>1, <2>2 DEF ReaderLoad
  <1>8. CASE ReaderAdvance(s)
    <2>1. PICK q \in cursor[s] + 1 .. upto[s] :
            /\ cursor' = [cursor EXCEPT ![s] = q]
            /\ IF q = upto[s]
               THEN /\ rpc' = [rpc EXCEPT ![s] = "poll"]
                    /\ upto' = [upto EXCEPT ![s] = 0]
               ELSE UNCHANGED <<rpc, upto>>
      BY <1>8 DEF ReaderAdvance
    <2>2. cursor[s] \in Nat /\ upto[s] \in Nat
      OBVIOUS
    <2>3. q \in Nat
      BY <2>2
    <2>4. cursor' \in [Slots -> Nat]
      BY <2>1, <2>3
    <2>5. rpc' = rpc \/ rpc' = [rpc EXCEPT ![s] = "poll"]
      BY <2>1
    <2>6. upto' = upto \/ upto' = [upto EXCEPT ![s] = 0]
      BY <2>1
    <2>7. upto \in [Slots -> Nat]
      OBVIOUS
    <2>8. upto' \in [Slots -> Nat]
      <3>1. CASE upto' = upto
        BY <2>7, <3>1
      <3>2. CASE upto' = [upto EXCEPT ![s] = 0]
        BY <2>7, <3>2
      <3> QED
        BY <2>6, <3>1, <3>2
    <2> QED
      BY <1>8, <2>4, <2>5, <2>8 DEF ReaderAdvance
  <1>9. CASE ReaderReturn(s)
    <2>1. late \in [Slots -> Nat] /\ late[s] \in Nat /\ late[s] + 1 \in Nat
      OBVIOUS
    <2>2. late' = late \/ late' = [late EXCEPT ![s] = late[s] + 1]
      BY <1>9 DEF ReaderReturn
    <2>3. late' \in [Slots -> Nat]
      BY <2>1, <2>2
    <2> QED
      BY <1>9, <2>3 DEF ReaderReturn
  <1>10. CASE ReaderStart(s)
    BY <1>10 DEF ReaderStart
  <1> QED
    BY <1>1, <1>2, <1>3, <1>4, <1>5, <1>6, <1>7, <1>8, <1>9, <1>10
    DEF JoinStep, ReaderStep

LEMMA StutterTypeOK == TypeOK /\ UNCHANGED vars => TypeOK'
  BY DEF TypeOK, BarrierTypeOK, vars, ringVars, callVars, readerVars, barrierVars

LEMMA NextTypeOK == TypeOK /\ [Next]_vars => TypeOK'
  BY CallTypeOK, WriterStepTypeOK, ReaderTypeOK, StutterTypeOK DEF Next

(***************************************************************************)
(* Every variable keeps its type, for every ring, whatever the joins.      *)
(***************************************************************************)
THEOREM TypeCorrect == Spec => []TypeOK
  BY InitTypeOK, NextTypeOK, PTL DEF Spec

-----------------------------------------------------------------------------
(* Two sequences less than a lap apart are stored in different elements.   *)

LEMMA DivMod ==
  \A n \in Nat \ {0}, a \in Nat :
    /\ a = n * (a \div n) + (a % n)
    /\ a \div n \in Nat
    /\ a % n \in 0 .. (n - 1)
  OBVIOUS

LEMMA IndexDistinct ==
  ASSUME NEW a \in Nat, NEW b \in Nat, a < b, b < a + BufferSize
  PROVE  Index(a) # Index(b)
  <1> SUFFICES ASSUME Index(a) = Index(b) PROVE FALSE
    OBVIOUS
  <1>1. BufferSize \in Nat \ {0}
    BY RingAssumption
  <1>2. PICK i \in Nat : a = BufferSize * i + Index(a)
    BY <1>1, DivMod DEF Index
  <1>3. PICK j \in Nat : b = BufferSize * j + Index(b)
    BY <1>1, DivMod DEF Index
  <1>4. Index(a) \in Int
    BY <1>1, DivMod DEF Index
  <1>5. b - a = BufferSize * j - BufferSize * i
    BY <1>1, <1>2, <1>3, <1>4
  <1>6. CASE j <= i
    <2>1. BufferSize * j <= BufferSize * i
      BY <1>1, <1>6
    <2> QED
      BY <1>1, <1>5, <2>1
  <1>7. CASE j >= i + 1
    <2>1. BufferSize * j >= BufferSize * (i + 1)
      BY <1>1, <1>7
    <2>2. BufferSize * (i + 1) = BufferSize * i + BufferSize
      BY <1>1
    <2> QED
      BY <1>1, <1>5, <2>1, <2>2
  <1> QED
    BY <1>6, <1>7

LEMMA IndexRange == \A q \in Nat : Index(q) \in 0 .. BufferSize - 1
  BY DivMod, RingAssumption DEF Index

-----------------------------------------------------------------------------
(* The initial states.                                                     *)

LEMMA InitIInv == Init => IInv
  <1> SUFFICES ASSUME Init PROVE IInv
    OBVIOUS
  <1>1. TypeOK
    BY InitTypeOK
  <1>2. WriterInv
    BY RingAssumption DEF Init, BarrierInit, WriterInv, CallInv, Claimed
  <1>3. ReaderInv /\ GateInv
    BY DEF Init, BarrierInit, ReaderInv, GateInv, Member, Position, Joining, Slots
  <1>4. LoadInv
    BY DEF Init, BarrierInit, LoadInv
  <1>5. BufferInv
    BY DEF Init, BarrierInit, BufferInv, Written, Claimed
  <1> QED
    BY <1>1, <1>2, <1>3, <1>4, <1>5 DEF IInv

-----------------------------------------------------------------------------
(* The readers' steps.                                                     *)

(***************************************************************************)
(* What a step of the readers does to slot t, as far as the writer's gate  *)
(* is concerned: a member that was none before stands at the writer's      *)
(* position, any other has not moved back; one whose bit is cleared is     *)
(* none any longer, unless a late AddReader is to set it again; and a      *)
(* settled AddReader stays settled.                                        *)
(***************************************************************************)
Advances(t) ==
  /\ Member(t)' =>
       \/ Position(t)' = writeCursor
       \/ /\ Member(t)
          /\ Position(t) <= Position(t)'
          /\ t \in activeSlots => t \in activeSlots' \/ late'[t] > 0
  /\ Settled(t) => Settled(t)'

LEMMA ReaderAdvances ==
  ASSUME TypeOK, ReaderInv, NEW s \in Slots,
         JoinStep(s) \/ Remove(s) \/ ReaderStep(s) \/ ReaderReturn(s)
  PROVE  ReaderInv' /\ \A t \in Slots : Advances(t)
  <1> USE DEF ReaderInv, Advances, Member, Position, Settled, SetJoin, SetPc,
              writerSide, ringVars, Joining, Running
  <1>0. /\ writeCursor \in Nat
        /\ cursor \in [Slots -> Nat] /\ upto \in [Slots -> Nat]
        /\ rpc \in [Slots -> {"free", "wait", "poll", "load", "read"}]
        /\ jpc \in [Slots -> {"none", "removed", "loaded", "stored"}]
        /\ late \in [Slots -> Nat]
        /\ activeSlots \subseteq Slots
    BY DEF TypeOK, BarrierTypeOK
  <1>1. CASE JoinLoad(s)
    BY <1>0, <1>1 DEF JoinLoad
  <1>2. CASE JoinStore(s)
    BY <1>0, <1>2 DEF JoinStore
  <1>3. CASE JoinActivate(s)
    BY <1>0, <1>3 DEF JoinActivate
  <1>4. CASE Remove(s)
    BY <1>0, <1>4 DEF Remove
  <1>10. CASE LateActivate(s)
    <2>1. late'[s] = late[s] - 1 /\ \A t \in Slots : t # s => late'[t] = late[t]
      BY <1>0, <1>10 DEF LateActivate
    <2> QED
      BY <1>0, <1>10, <2>1 DEF LateActivate
  <1>5. CASE ReaderPoll(s)
    BY <1>0, <1>5 DEF ReaderPoll
  <1>6. CASE ReaderLoad(s)
    BY <1>0, <1>6 DEF ReaderLoad
  <1>7. CASE ReaderAdvance(s)
    <2>1. PICK q \in cursor[s] + 1 .. upto[s] :
            /\ cursor' = [cursor EXCEPT ![s] = q]
            /\ IF q = upto[s]
               THEN /\ rpc' = [rpc EXCEPT ![s] = "poll"]
                    /\ upto' = [upto EXCEPT ![s] = 0]
               ELSE UNCHANGED <<rpc, upto>>
      BY <1>7 DEF ReaderAdvance
    <2>2. /\ cursor[s] \in Nat /\ upto[s] \in Nat /\ upto[s] <= writeCursor
          /\ q \in Nat /\ cursor[s] < q /\ q <= writeCursor
      BY <1>0, <2>1
    <2>3. rpc[s] = "read" /\ UNCHANGED <<writeCursor, activeSlots, jpc, late>>
      BY <1>7 DEF ReaderAdvance
    <2>4. ReaderInv'
      BY <1>0, <2>1, <2>2, <2>3
    <2>5. ASSUME NEW t \in Slots PROVE Advances(t)
      BY <1>0, <2>1, <2>2, <2>3
    <2> QED
      BY <2>4, <2>5
  <1>8. CASE ReaderReturn(s)
    <2>1. /\ late'[s] = IF jpc[s] = "stored" THEN late[s] + 1 ELSE late[s]
          /\ \A t \in Slots : t # s => late'[t] = late[t]
      BY <1>0, <1>8 DEF ReaderReturn
    <2> QED
      BY <1>0, <1>8, <2>1 DEF ReaderReturn
  <1>9. CASE ReaderStart(s)
    BY <1>0, <1>9 DEF ReaderStart
  <1> QED
    BY <1>1, <1>2, <1>3, <1>4, <1>5, <1>6, <1>7, <1>8, <1>9, <1>10
    DEF JoinStep, ReaderStep

(* Nor does a cursor fall behind the writer's gate.                        *)
Forward(t) == Advances(t) /\ (cursor[t] <= cursor'[t] \/ cachedSlowestReader <= cursor'[t])

LEMMA ReaderStepForward ==
  ASSUME IInv, NEW s \in Slots,
         JoinStep(s) \/ Remove(s) \/ ReaderStep(s) \/ ReaderReturn(s)
  PROVE  ReaderInv' /\ \A t \in Slots : Forward(t)
  <1>1. TypeOK /\ ReaderInv /\ GateInv
    BY DEF IInv
  <1>2. cursor \in [Slots -> Nat] /\ upto \in [Slots -> Nat]
    BY <1>1 DEF TypeOK, BarrierTypeOK
  <1>3. ReaderInv' /\ \A t \in Slots : Advances(t)
    BY <1>1, ReaderAdvances
  <1>4. ASSUME NEW t \in Slots
        PROVE  cursor[t] <= cursor'[t] \/ cachedSlowestReader <= cursor'[t]
    <2>1. CASE JoinStore(s)
      <3>0. cachedSlowestReader \in Nat /\ jpc[s] = "loaded"
        BY <1>1, <2>1 DEF JoinStore, SetJoin, TypeOK
      <3>1. cachedSlowestReader <= upto[s]
        BY <1>1, <1>2, <3>0 DEF GateInv, ReaderInv, Member, Position, Joining
      <3> QED
        BY <1>2, <2>1, <3>1 DEF JoinStore
    <2>2. CASE ReaderAdvance(s)
      <3>1. PICK q \in cursor[s] + 1 .. upto[s] : cursor' = [cursor EXCEPT ![s] = q]
        BY <2>2 DEF ReaderAdvance
      <3> QED
        BY <1>2, <3>1
    <2>3. CASE UNCHANGED cursor
      BY <1>2, <2>3
    <2> QED
      BY <2>1, <2>2, <2>3
      DEF JoinStep, JoinLoad, JoinActivate, LateActivate, Remove, ReaderStep,
          ReaderStart, ReaderPoll, ReaderLoad, ReaderReturn
  <1> QED
    BY <1>3, <1>4 DEF Forward

(* Forward keeps every member behind neither gate, and accounted for.      *)
LEMMA ForwardGate ==
  ASSUME IInv, TypeOK', ReaderInv', UNCHANGED writerSide,
         \A t \in Slots : Forward(t)
  PROVE  GateInv' /\ LoadInv'
  <1> USE DEF IInv, writerSide, ringVars, callVars, barrierVars
  <1>0. /\ writeCursor \in Nat /\ cachedSlowestReader \in Nat /\ lastMinimum \in Nat
        /\ cursor \in [Slots -> Nat] /\ cursor' \in [Slots -> Nat]
        /\ upto \in [Slots -> Nat] /\ upto' \in [Slots -> Nat]
        /\ cachedSlowestReader <= writeCursor /\ lastMinimum <= writeCursor
        /\ todo \subseteq Slots /\ bitmap \subseteq Slots
        /\ minimum \in [Paths -> Nat] /\ loaded \in Nat
    BY DEF TypeOK, BarrierTypeOK, WriterInv, CallInv
  <1>1. ASSUME NEW t \in Slots
        PROVE  /\ Position(t) \in Nat /\ Position(t)' \in Nat
               /\ Position(t)' <= writeCursor
    BY <1>0, <1>1 DEF Position, ReaderInv
  <1>2. GateInv'
    BY <1>0, <1>1 DEF GateInv, Forward, Advances
  <1>3. ASSUME NEW t \in Slots, Member(t)', Member(t) => Seen(t)
        PROVE  Seen(t)'
    BY <1>0, <1>1, <1>3 DEF Seen, Forward, Advances
  <1>4. lpc # "idle" => \A t \in Slots : Settled(t)'
    BY DEF LoadInv, Forward, Advances
  <1>5. lpc = "bitmap1" =>
          \A t \in Slots :
            Member(t)' => Seen(t)' \/ (Word(t) = 1 /\ t \in activeSlots')
    <2> SUFFICES ASSUME lpc = "bitmap1", NEW t \in Slots, Member(t)'
                 PROVE  Seen(t)' \/ (Word(t) = 1 /\ t \in activeSlots')
      OBVIOUS
    <2>1. late'[t] > 0 => Position(t)' = writeCursor
      BY <1>0, <1>4 DEF Settled, Position, TypeOK
    <2>2. CASE Position(t)' = writeCursor
      BY <2>2 DEF Seen
    <2>3. CASE Member(t) => Seen(t)
      BY <1>3, <2>3
    <2>4. CASE Member(t) /\ Word(t) = 1 /\ t \in activeSlots
      BY <2>1, <2>2, <2>4 DEF Forward, Advances, Word
    <2> QED
      BY <2>3, <2>4 DEF LoadInv
  <1>6. lpc \in {"upstream", "gate", "max"} =>
          \A t \in Slots : Member(t)' => Seen(t)'
    BY <1>3 DEF LoadInv
  <1>7. lpc = "scan" =>
          \A t \in Slots : Member(t)' =>
            t \in todo \/ \E p \in Paths : minimum[p] <= Position(t)'
    <2> SUFFICES ASSUME lpc = "scan", NEW t \in Slots, Member(t)', t \notin todo
                 PROVE  \E p \in Paths : minimum[p] <= Position(t)'
      OBVIOUS
    <2>1. \A p \in Paths : minimum[p] \in Nat /\ minimum[p] <= writeCursor
      BY <1>0 DEF LoadInv
    <2>2. CASE Position(t)' = writeCursor
      BY <2>1, <2>2 DEF Paths
    <2>3. CASE Member(t) /\ Position(t) <= Position(t)'
      <3>1. PICK p \in Paths : minimum[p] <= Position(t)
        BY <2>3 DEF LoadInv
      <3> QED
        BY <1>1, <2>1, <2>3, <3>1
    <2> QED
      BY <2>2, <2>3 DEF Forward, Advances
  <1>8. \A t \in bitmap : cachedSlowestReader <= cursor'[t]
    <2> SUFFICES ASSUME NEW t \in bitmap PROVE cachedSlowestReader <= cursor'[t]
      OBVIOUS
    <2>1. t \in Slots /\ cachedSlowestReader <= cursor[t]
      BY <1>0 DEF LoadInv
    <2> QED
      BY <1>0, <2>1 DEF Forward, Advances
  <1>9. lpc = "done" =>
          \A t \in Slots : Member(t)' => loaded <= Position(t)'
    BY <1>0, <1>1 DEF LoadInv, Forward, Advances
  <1> QED
    BY <1>2, <1>4, <1>5, <1>6, <1>7, <1>8, <1>9 DEF LoadInv

LEMMA ReaderIInv ==
  ASSUME IInv, NEW s \in Slots,
         JoinStep(s) \/ Remove(s) \/ ReaderStep(s) \/ ReaderReturn(s)
  PROVE  IInv'
  <1>1. UNCHANGED writerSide
    BY DEF JoinStep, ReaderStep, JoinLoad, JoinStore, JoinActivate, LateActivate,
           Remove, ReaderStart, ReaderPoll, ReaderLoad, ReaderAdvance, ReaderReturn
  <1>2. TypeOK'
    BY ReaderTypeOK DEF IInv
  <1>3. ReaderInv' /\ GateInv' /\ LoadInv'
    BY <1>1, <1>2, ReaderStepForward, ForwardGate
  <1>4. WriterInv' /\ BufferInv'
    BY <1>1 DEF IInv, WriterInv, CallInv, BufferInv, Written, Claimed,
                writerSide, ringVars, callVars, barrierVars
  <1> QED
    BY <1>2, <1>3, <1>4 DEF IInv

-----------------------------------------------------------------------------
(* The writer's steps outside a Load.                                      *)

OutsideLoad == WriterCall \/ WriteSlot \/ Commit

LEMMA OutsideTypeOK == TypeOK /\ OutsideLoad => TypeOK'
  BY CallTypeOK, WriterStepTypeOK DEF OutsideLoad, WriterStep

(* A call either claims some sequences or, in Remaining, asks for the gate. *)
LEMMA CallShape ==
  ASSUME WriterCall
  PROVE  Remaining \/ \E n \in Nat \ {0}, m \in {"block", "try"} : Claim(n, m)
  <1>1. BatchSizes \subseteq Nat \ {0}
    BY RingAssumption
  <1>2. CASE Publish \/ TryPublish
    BY <1>2 DEF Publish, TryPublish
  <1>3. CASE \E n \in BatchSizes : Reserve(n) \/ TryReserve(n)
    BY <1>1, <1>3 DEF Reserve, TryReserve
  <1> QED
    BY <1>2, <1>3 DEF WriterCall

(* Neither the readers nor the gates move, and the cursor not in a Load.   *)
LEMMA OutsideFrame ==
  ASSUME TypeOK, CallInv, OutsideLoad
  PROVE  /\ UNCHANGED <<readerVars, barrierVars, cachedSlowestReader>>
         /\ writeCursor' \in Nat /\ writeCursor <= writeCursor'
         /\ lpc # "idle" => UNCHANGED writeCursor
  <1>1. TypeOK' /\ writeCursor \in Nat /\ claim \in Nat
    BY OutsideTypeOK DEF TypeOK, BarrierTypeOK
  <1>2. CASE WriterCall
    BY <1>1, <1>2, CallShape DEF Claim, Remaining, ringVars
  <1>3. CASE WriteSlot
    BY <1>1, <1>3 DEF WriteSlot
  <1>4. CASE Commit
    BY <1>1, <1>4 DEF Commit, CallInv
  <1> QED
    BY <1>2, <1>3, <1>4 DEF OutsideLoad

(* A claim that is granted without a refresh stays within a lap of every   *)
(* position the gate has not passed.                                       *)
LEMMA OutsideBound ==
  ASSUME TypeOK, CallInv, OutsideLoad,
         NEW p \in Nat, cachedSlowestReader <= p, Claimed < p + BufferSize
  PROVE  Claimed' < p + BufferSize
  <1>0. /\ cachedSlowestReader \in Nat /\ nextSequence \in Nat /\ claim \in Nat
        /\ BufferSize \in Nat
    BY RingAssumption DEF TypeOK
  <1>1. CASE \E n \in Nat \ {0}, m \in {"block", "try"} : Claim(n, m)
    BY <1>0, <1>1 DEF Claim, Claimed, HasRoom, ringVars
  <1>2. CASE Remaining
    BY <1>2 DEF Remaining, Claimed, ringVars
  <1>3. CASE WriteSlot
    BY <1>3 DEF WriteSlot, Claimed
  <1>4. CASE Commit
    BY <1>4 DEF Commit, Claimed
  <1>5. CASE WriterCall
    BY <1>1, <1>2, <1>5, CallShape
  <1> QED
    BY <1>3, <1>4, <1>5 DEF OutsideLoad

LEMMA OutsideCallInv ==
  ASSUME TypeOK, CallInv, OutsideLoad
  PROVE  CallInv'
  <1>0. /\ writeCursor \in Nat /\ writeCursor' \in Nat /\ writeCursor <= writeCursor'
        /\ cachedSlowestReader \in Nat /\ lastMinimum \in Nat /\ nextSequence \in Nat
        /\ fill \in Nat /\ claim \in Nat /\ BufferSize \in Nat
    BY OutsideFrame, RingAssumption DEF TypeOK, BarrierTypeOK
  <1>1. Claimed' \in Nat
    BY OutsideTypeOK DEF TypeOK, Claimed
  <1>2. Claimed' < writeCursor + BufferSize
    BY <1>0, OutsideBound DEF CallInv
  <1>3. Claimed' < writeCursor' + BufferSize
    <2>1. \A a, b, c, d \in Nat : c < a + d /\ a <= b => c < b + d
      OBVIOUS
    <2> QED
      BY <1>0, <1>1, <1>2, <2>1
  <1>4. ASSUME NEW n \in Nat \ {0}, NEW m \in {"block", "try"}, Claim(n, m)
        PROVE  CallInv'
    BY <1>0, <1>3, <1>4 DEF Claim, CallInv, ringVars, barrierVars
  <1>5. CASE Remaining
    BY <1>0, <1>3, <1>5 DEF Remaining, CallInv, ringVars, barrierVars
  <1>6. CASE WriteSlot
    BY <1>0, <1>3, <1>6 DEF WriteSlot, CallInv, barrierVars
  <1>7. CASE Commit
    BY <1>0, <1>3, <1>7 DEF Commit, CallOver, CallInv, barrierVars
  <1> QED
    BY <1>4, <1>5, <1>6, <1>7, CallShape DEF OutsideLoad

LEMMA WriteSlotBufferInv ==
  ASSUME TypeOK, CallInv, BufferInv, WriteSlot
  PROVE  BufferInv'
  <1>0. /\ fill \in Nat /\ claim \in Nat /\ writeCursor \in Nat /\ BufferSize \in Nat
        /\ buffer \in [0 .. BufferSize - 1 -> Nat]
        /\ wpc = "fill" /\ writeCursor < fill /\ fill <= claim
    BY RingAssumption DEF TypeOK, BarrierTypeOK, CallInv, WriteSlot
  <1>1. Written = fill - 1 /\ Written' = fill
    BY <1>0 DEF WriteSlot, Written, Claimed
  <1>2. buffer' = [buffer EXCEPT ![Index(fill)] = fill]
    BY DEF WriteSlot
  <1> SUFFICES ASSUME NEW q \in 1 .. fill, fill - BufferSize < q
               PROVE  buffer'[Index(q)] = q
    BY <1>1 DEF BufferInv
  <1>3. Index(q) \in 0 .. BufferSize - 1 /\ Index(fill) \in 0 .. BufferSize - 1
    BY <1>0, IndexRange
  <1>4. CASE q = fill
    BY <1>0, <1>2, <1>3, <1>4
  <1>5. CASE q < fill
    <2>1. Index(q) # Index(fill)
      BY <1>0, <1>5, IndexDistinct
    <2>2. buffer[Index(q)] = q
      BY <1>0, <1>1, <1>5 DEF BufferInv
    <2> QED
      BY <1>0, <1>2, <1>3, <2>1, <2>2
  <1> QED
    BY <1>0, <1>4, <1>5

LEMMA OutsideBufferInv ==
  ASSUME TypeOK, CallInv, BufferInv, OutsideLoad
  PROVE  BufferInv'
  <1>0. nextSequence \in Nat /\ nextSequence = writeCursor
    BY DEF TypeOK, CallInv
  <1>1. ASSUME NEW n \in Nat \ {0}, NEW m \in {"block", "try"}, Claim(n, m)
        PROVE  BufferInv'
    <2>1. Written' = Written
      BY <1>0, <1>1 DEF Claim, Written, Claimed, ringVars
    <2> QED
      BY <1>1, <2>1 DEF Claim, BufferInv, ringVars
  <1>2. CASE Remaining
    BY <1>2 DEF Remaining, BufferInv, Written, Claimed, ringVars
  <1>3. CASE WriteSlot
    BY <1>3, WriteSlotBufferInv
  <1>4. CASE Commit
    BY <1>4 DEF Commit, BufferInv, Written, Claimed
  <1> QED
    BY <1>1, <1>2, <1>3, <1>4, CallShape DEF OutsideLoad

(* With the readers, the gates and the call to Load left alone, only the   *)
(* writer's own part is at stake.                                          *)
LEMMA OutsideReaderInv ==
  ASSUME TypeOK, CallInv, ReaderInv, OutsideLoad
  PROVE  ReaderInv'
  <1>1. /\ UNCHANGED <<jpc, rpc, upto, cursor>>
        /\ writeCursor \in Nat /\ writeCursor' \in Nat /\ writeCursor <= writeCursor'
    BY OutsideFrame DEF readerVars, TypeOK, BarrierTypeOK
  <1>2. \A s \in Slots : cursor[s] \in Nat /\ upto[s] \in Nat
    BY DEF TypeOK, BarrierTypeOK
  <1> QED
    BY <1>1, <1>2 DEF ReaderInv

LEMMA OutsideIInv == IInv /\ OutsideLoad => IInv' /\ UNCHANGED cachedSlowestReader
  <1> SUFFICES ASSUME IInv, OutsideLoad
               PROVE  IInv' /\ UNCHANGED cachedSlowestReader
    OBVIOUS
  <1>0. TypeOK /\ CallInv /\ ReaderInv /\ BufferInv /\ GateInv /\ LoadInv
    BY DEF IInv, WriterInv
  <1>1. /\ UNCHANGED <<readerVars, barrierVars, cachedSlowestReader>>
        /\ lpc # "idle" => UNCHANGED writeCursor
    BY <1>0, OutsideFrame
  <1>2. TypeOK' /\ CallInv' /\ ReaderInv' /\ BufferInv'
    BY <1>0, OutsideTypeOK, OutsideCallInv, OutsideReaderInv, OutsideBufferInv
  <1>3. WriterInv'
    <2>1. cachedSlowestReader \in Nat
      BY <1>0 DEF TypeOK
    <2>2. Claimed' < cachedSlowestReader + BufferSize
      BY <1>0, <2>1, OutsideBound DEF IInv, WriterInv
    <2> QED
      BY <1>1, <1>2, <2>2 DEF WriterInv
  <1>4. GateInv'
    BY <1>0, <1>1 DEF GateInv, Member, Position, readerVars, barrierVars
  <1>5. LoadInv'
    <2>1. CASE lpc = "idle"
      BY <1>0, <1>1, <2>1 DEF LoadInv, readerVars, barrierVars
    <2>2. CASE UNCHANGED writeCursor
      BY <1>0, <1>1, <2>2
      DEF LoadInv, Seen, Settled, Member, Position, readerVars, barrierVars
    <2> QED
      BY <1>1, <2>1, <2>2
  <1> QED
    BY <1>1, <1>2, <1>3, <1>4, <1>5 DEF IInv

-----------------------------------------------------------------------------
(* The writer's call to Load.                                              *)

(* A step inside the call leaves the writer and the readers as they are.   *)
LEMMA LoadFrame ==
  ASSUME CallInv, ReaderInv, BufferInv, wpc = "load", lastMinimum' <= writeCursor,
         UNCHANGED <<ringVars, callVars, readerVars>>
  PROVE  CallInv' /\ ReaderInv' /\ BufferInv' /\ Claimed' = Claimed
  BY DEF ReaderInv, CallInv, BufferInv, Written, Claimed, ringVars, callVars, readerVars

(* While a Load runs, nothing about the readers changes.                   *)
LEMMA MemberFrame ==
  ASSUME UNCHANGED readerVars
  PROVE  \A t \in Slots : (Member(t)' <=> Member(t)) /\ Position(t)' = Position(t)
  BY DEF Member, Position, readerVars

LEMMA SettledFrame ==
  ASSUME UNCHANGED <<readerVars, writeCursor>>
  PROVE  \A t \in Slots : Settled(t)' <=> Settled(t)
  BY DEF Settled, readerVars

(* What the four ways of taking the result have in common.                 *)
Refresh(next) ==
  /\ RefreshGate(next)
  /\ next = "fill" => mode # "remaining" /\ HasRoom(claim, loaded)
  /\ next = "load" => mode = "block"

WriterSteps ==
  \/ OutsideLoad
  \/ StartLoad
  \/ RunLoad
  \/ \E next \in {"fill", "load", "idle"} : Refresh(next)

LEMMA WriterShape == WriterCall \/ WriterStep => WriterSteps
  BY DEF WriterSteps, WriterStep, OutsideLoad, Granted, WaitAgain, Refused, Reported, Refresh

(* A claim that the new gate grants is within a lap of what it allows.     *)
LEMMA RefreshBound ==
  ASSUME TypeOK, CallInv, NEW next \in {"fill", "load", "idle"}, Refresh(next),
         NEW p \in Nat, loaded <= p, Claimed < p + BufferSize
  PROVE  Claimed' < p + BufferSize
  <1>1. /\ wpc = "load" /\ wpc' = next /\ UNCHANGED nextSequence
        /\ next = "fill" => UNCHANGED claim
        /\ loaded \in Nat /\ claim \in Nat /\ BufferSize \in Nat
    BY RingAssumption DEF Refresh, RefreshGate, TypeOK, BarrierTypeOK
  <1>2. CASE next = "fill"
    BY <1>1, <1>2 DEF Refresh, Claimed, HasRoom
  <1>3. CASE next # "fill"
    BY <1>1, <1>3 DEF Claimed
  <1> QED
    BY <1>2, <1>3

LEMMA RefreshFrame ==
  ASSUME TypeOK, CallInv, ReaderInv, BufferInv,
         NEW next \in {"fill", "load", "idle"}, Refresh(next), loaded <= writeCursor
  PROVE  CallInv' /\ ReaderInv' /\ BufferInv'
  <1>0. /\ lpc' = "idle" /\ wpc = "load" /\ wpc' = next /\ cachedSlowestReader' = loaded
        /\ UNCHANGED <<readerVars, lastMinimum, writeCursor, nextSequence, buffer>>
        /\ next # "idle" => UNCHANGED <<mode, claim, fill>>
        /\ next = "fill" => mode # "remaining"
        /\ next = "load" => mode = "block"
    BY DEF Refresh, RefreshGate, LoadReturn, cacheVars
  <1>1. /\ nextSequence = writeCursor /\ writeCursor \in Nat /\ claim \in Nat
        /\ mode # "remaining" => writeCursor < claim /\ fill = writeCursor + 1
    BY <1>0 DEF CallInv, TypeOK, BarrierTypeOK
  <1>2. Claimed' < writeCursor + BufferSize
    BY <1>1, RefreshBound DEF CallInv
  <1>3. CallInv'
    BY <1>0, <1>1, <1>2 DEF CallInv
  <1>4. Written' = Written
    BY <1>0, <1>1 DEF Written, Claimed
  <1> QED
    BY <1>0, <1>3, <1>4 DEF ReaderInv, BufferInv, readerVars

LEMMA StartLoadIInv ==
  ASSUME IInv, StartLoad, QuietJoin
  PROVE  IInv'
  <1>1. TypeOK'
    BY WriterStepTypeOK DEF IInv, WriterStep
  <1>2. /\ lpc = "idle" /\ lpc' = "bitmap1" /\ wpc = "load"
        /\ bitmap' = {s \in activeSlots : Word(s) = 0}
        /\ UNCHANGED <<ringVars, callVars, readerVars, lastMinimum, lastBitmap>>
    BY DEF StartLoad, LoadBitmap0, cacheVars
  <1>3. \A s \in Slots : Settled(s) /\ Settled(s)'
    BY <1>2, SettledFrame DEF QuietJoin, RefreshBegins, Overtaken, ringVars
  <1>4. ReaderInv' /\ WriterInv' /\ BufferInv'
    BY <1>2, LoadFrame DEF IInv, WriterInv, CallInv, ringVars
  <1>5. GateInv'
    BY <1>2, MemberFrame DEF IInv, GateInv, ringVars
  <1>6. \A s \in Slots : Member(s) =>
          \/ Position(s) = writeCursor
          \/ s \in bitmap'
          \/ Word(s) = 1 /\ s \in activeSlots
    <2> SUFFICES ASSUME NEW s \in Slots, Member(s), s \notin activeSlots
                 PROVE  Position(s) = writeCursor
      BY <1>2 DEF Word
    <2>1. late[s] \in Nat
      BY DEF IInv, TypeOK
    <2> QED
      BY <1>3, <2>1 DEF Member, Position, Settled, Joining
  <1>7. \A s \in bitmap' : cachedSlowestReader <= cursor[s]
    BY <1>2
    DEF IInv, ReaderInv, GateInv, Member, Position, TypeOK, BarrierTypeOK
  <1>8. lastBitmap # {} => lastMinimum = cachedSlowestReader
    BY <1>2 DEF IInv, LoadInv
  <1>9. LoadInv'
    BY <1>2, <1>3, <1>6, <1>7, <1>8, MemberFrame
    DEF LoadInv, Seen, readerVars, ringVars
  <1> QED
    BY <1>1, <1>4, <1>5, <1>9 DEF IInv

LEMMA RefreshIInv ==
  ASSUME IInv, NEW next \in {"fill", "load", "idle"}, Refresh(next)
  PROVE  IInv' /\ cachedSlowestReader <= cachedSlowestReader'
  <1>0. RefreshGate(next)
    BY DEF Refresh
  <1>1. TypeOK'
    BY <1>0, RefreshTypeOK DEF IInv
  <1>2. /\ lpc = "done" /\ lpc' = "idle" /\ bitmap' = {}
        /\ cachedSlowestReader' = loaded
        /\ UNCHANGED <<readerVars, lastMinimum, lastBitmap, writeCursor>>
    BY <1>0 DEF RefreshGate, LoadReturn, cacheVars
  <1>3. /\ cachedSlowestReader <= loaded /\ loaded <= writeCursor
        /\ \A s \in Slots : Member(s) => loaded <= Position(s)
        /\ lastBitmap # {} => lastMinimum = loaded
    BY <1>2 DEF IInv, LoadInv
  <1>4. GateInv'
    BY <1>2, <1>3, MemberFrame DEF IInv, GateInv
  <1>5. LoadInv'
    BY <1>2, <1>3 DEF LoadInv
  <1>6. CallInv' /\ ReaderInv' /\ BufferInv'
    BY <1>3, RefreshFrame DEF IInv, WriterInv
  <1>7. Claimed' < loaded + BufferSize
    <2>1. /\ loaded \in Nat /\ cachedSlowestReader \in Nat /\ BufferSize \in Nat
          /\ Claimed \in Nat
      BY RingAssumption DEF IInv, TypeOK, BarrierTypeOK, Claimed
    <2>2. Claimed < loaded + BufferSize
      BY <1>3, <2>1 DEF IInv, WriterInv
    <2> QED
      BY <2>1, <2>2, RefreshBound DEF IInv, WriterInv
  <1> QED
    BY <1>1, <1>2, <1>3, <1>4, <1>5, <1>6, <1>7 DEF IInv, WriterInv

(* The clauses of LoadInv that no phase of the call disturbs.              *)
LoadAlways ==
  /\ \A s \in Slots : Settled(s)
  /\ \A s \in bitmap : cachedSlowestReader <= cursor[s]
  /\ lastBitmap # {} => lastMinimum = cachedSlowestReader

LEMMA RunLoadIInv ==
  ASSUME IInv, RunLoad
  PROVE  IInv'
  <1>0. /\ wpc = "load" /\ lpc # "idle"
        /\ UNCHANGED <<ringVars, callVars, readerVars>>
    BY DEF RunLoad, LoadStep, LoadBitmap1, LoadUpstream, GateHit, GateMiss,
           ScanMax, ScanSlot, ScanDone
  <1>1. /\ writeCursor \in Nat /\ cachedSlowestReader \in Nat
        /\ lastMinimum \in Nat /\ cursor \in [Slots -> Nat]
        /\ upto \in [Slots -> Nat] /\ minimum \in [Paths -> Nat]
        /\ activeSlots \subseteq Slots /\ bitmap \subseteq Slots
        /\ todo \subseteq Slots
        /\ lastMinimum <= writeCursor /\ cachedSlowestReader <= writeCursor
    BY DEF IInv, TypeOK, BarrierTypeOK, WriterInv, CallInv
  <1>2. TypeOK'
    BY WriterStepTypeOK DEF IInv, WriterStep
  <1>3. \A t \in Slots : /\ Member(t)' <=> Member(t)
                         /\ Position(t)' = Position(t)
                         /\ Settled(t)' <=> Settled(t)
    BY <1>0, MemberFrame, SettledFrame DEF ringVars
  <1>4. \A t \in Slots : Position(t) \in Nat /\ Position(t) <= writeCursor
    BY <1>1 DEF Position, IInv, ReaderInv
  <1>5. lpc # "done" => LoadAlways
    BY <1>0 DEF IInv, LoadInv, LoadAlways
  <1>6. ASSUME lastMinimum' <= writeCursor, GateInv', LoadInv'
        PROVE  IInv'
    BY <1>0, <1>2, <1>6, LoadFrame DEF IInv, WriterInv, ringVars
  <1>7. ASSUME UNCHANGED lastMinimum
        PROVE  GateInv'
    BY <1>0, <1>3, <1>7 DEF IInv, GateInv, ringVars
  <1> USE DEF LoadAlways, readerVars, ringVars, cacheVars, scanVars
  <1>8. CASE LoadBitmap1
    <2>1. \A t \in Slots : Member(t) => Seen(t)'
      BY <1>0, <1>3, <1>8 DEF LoadBitmap1, IInv, LoadInv, Seen
    <2>2. \A t \in bitmap' : cachedSlowestReader <= cursor[t]
      BY <1>1, <1>5, <1>8
      DEF LoadBitmap1, IInv, ReaderInv, GateInv, Member, Position, Running
    <2>3. LoadInv'
      BY <1>0, <1>3, <1>5, <1>8, <2>1, <2>2 DEF LoadBitmap1, LoadInv
    <2> QED
      BY <1>1, <1>6, <1>7, <1>8, <2>3 DEF LoadBitmap1
  <1>9. CASE LoadUpstream
    <2>1. \A t \in Slots : Member(t) => Position(t) = writeCursor
      BY <1>9 DEF LoadUpstream, IInv, LoadInv, Seen
    <2>2. LoadInv'
      BY <1>0, <1>1, <1>3, <1>4, <1>5, <1>9, <2>1 DEF LoadUpstream, IInv, LoadInv
    <2> QED
      BY <1>1, <1>6, <1>7, <1>9, <2>2 DEF LoadUpstream
  <1>10. CASE GateHit
    <2>1. lastMinimum = cachedSlowestReader
      BY <1>5, <1>10 DEF GateHit, IInv, LoadInv
    <2>2. LoadInv'
      BY <1>0, <1>1, <1>3, <1>5, <1>10, <2>1 DEF GateHit, IInv, LoadInv, GateInv
    <2> QED
      BY <1>1, <1>6, <1>7, <1>10, <2>2 DEF GateHit
  <1>11. CASE GateMiss
    <2>1. LoadInv'
      BY <1>0, <1>3, <1>5, <1>11 DEF GateMiss, IInv, LoadInv, Seen
    <2> QED
      BY <1>1, <1>6, <1>7, <1>11, <2>1 DEF GateMiss
  <1>12. CASE ScanMax
    <2>1. \A p \in Paths : minimum'[p] = writeCursor
      BY <1>12 DEF ScanMax
    <2>2. \A t \in Slots : Member(t) =>
            t \in bitmap \/ \E p \in Paths : minimum'[p] <= Position(t)
      BY <1>1, <1>12, <2>1 DEF ScanMax, IInv, LoadInv, Seen, Paths
    <2>3. LoadInv'
      BY <1>0, <1>1, <1>3, <1>5, <1>12, <2>1, <2>2 DEF ScanMax, LoadInv
    <2> QED
      BY <1>1, <1>6, <1>7, <1>12, <2>3 DEF ScanMax
  <1>13. CASE ScanSlot
    <2>0. lpc = "scan" /\ UNCHANGED <<lpc, bitmap, lastMinimum, lastBitmap>>
      BY <1>13 DEF ScanSlot
    <2>1. PICK s \in todo :
            /\ todo' = todo \ {s}
            /\ IF cursor[s] < minimum[Path(s)]
               THEN minimum' = [minimum EXCEPT ![Path(s)] = cursor[s]]
               ELSE UNCHANGED minimum
      BY <1>13 DEF ScanSlot
    <2>2. /\ s \in Slots /\ Path(s) \in Paths /\ cursor[s] \in Nat
          /\ cachedSlowestReader <= cursor[s] /\ cursor[s] <= writeCursor
      BY <1>1, <1>5, <2>0, PathType DEF IInv, LoadInv, ReaderInv
    <2>3. \A p \in Paths :
            /\ minimum[p] \in Nat /\ minimum'[p] \in Nat
            /\ cachedSlowestReader <= minimum[p] /\ minimum[p] <= writeCursor
            /\ minimum'[p] <= minimum[p] /\ cachedSlowestReader <= minimum'[p]
      BY <1>1, <2>0, <2>1, <2>2 DEF IInv, LoadInv
    <2>4. minimum'[Path(s)] <= cursor[s]
      BY <1>1, <2>1, <2>2, <2>3
    <2>5. ASSUME NEW t \in Slots, Member(t), t \notin todo'
          PROVE  \E p \in Paths : minimum'[p] <= Position(t)
      <3>1. CASE t = s /\ Position(s) # cursor[s]
        <4>1. Position(s) = writeCursor
          BY <1>5, <2>0, <2>2, <3>1 DEF Position, Settled
        <4> QED
          BY <1>1, <2>2, <2>3, <3>1, <4>1
      <3>2. CASE t = s /\ Position(s) = cursor[s]
        BY <2>2, <2>4, <3>2
      <3>3. CASE t # s
        <4>1. PICK p \in Paths : minimum[p] <= Position(t)
          BY <2>0, <2>1, <2>5, <3>3 DEF IInv, LoadInv
        <4> QED
          BY <1>4, <2>3, <2>5, <4>1
      <3> QED
        BY <3>1, <3>2, <3>3
    <2>6. todo' \subseteq bitmap
      BY <2>0, <2>1 DEF IInv, LoadInv
    <2>7. \A p \in Paths :
            cachedSlowestReader <= minimum'[p] /\ minimum'[p] <= writeCursor
      BY <1>1, <2>3
    <2>8. LoadInv'
      BY <1>0, <1>3, <1>5, <2>0, <2>5, <2>6, <2>7 DEF LoadInv
    <2> QED
      BY <1>1, <1>6, <1>7, <2>0, <2>8
  <1>14. CASE ScanDone
    <2>0. /\ lpc = "scan" /\ lpc' = "done" /\ todo = {} /\ loaded' = lastMinimum'
          /\ lastBitmap' = bitmap /\ UNCHANGED <<bitmap, minimum>>
      BY <1>14 DEF ScanDone
    <2>1. /\ minimum["A"] \in Nat /\ minimum["B"] \in Nat
          /\ loaded' \in {minimum["A"], minimum["B"]}
          /\ loaded' <= minimum["A"] /\ loaded' <= minimum["B"]
      BY <1>1, <1>14 DEF ScanDone, Paths
    <2>2. cachedSlowestReader <= loaded' /\ loaded' <= writeCursor
      BY <2>0, <2>1 DEF IInv, LoadInv, Paths
    <2>3. ASSUME NEW t \in Slots, Member(t) PROVE loaded' <= Position(t)
      <3>1. PICK p \in Paths : minimum[p] <= Position(t)
        BY <2>0, <2>3 DEF IInv, LoadInv
      <3> QED
        BY <1>4, <2>1, <3>1 DEF Paths
    <2>4. GateInv'
      BY <1>0, <1>3, <2>0, <2>3 DEF IInv, GateInv
    <2>5. LoadInv'
      BY <1>0, <1>3, <1>5, <2>0, <2>2, <2>3 DEF LoadInv
    <2> QED
      BY <1>6, <2>0, <2>2, <2>4, <2>5
  <1> QED
    BY <1>8, <1>9, <1>10, <1>11, <1>12, <1>13, <1>14 DEF RunLoad, LoadStep

(* The step lemma: every step of SpecQuiet preserves the invariant, and no *)
(* step moves the writer's gate backwards.                                 *)
LEMMA NextIInv ==
  ASSUME IInv, [Next /\ QuietJoin]_vars
  PROVE  IInv' /\ cachedSlowestReader <= cachedSlowestReader'
  <1>1. cachedSlowestReader \in Nat
    BY DEF IInv, TypeOK
  <1>2. CASE (WriterCall \/ WriterStep) /\ QuietJoin
    <2>1. CASE OutsideLoad
      BY <1>1, <2>1, OutsideIInv
    <2>2. CASE StartLoad
      BY <1>1, <1>2, <2>2, StartLoadIInv DEF StartLoad, ringVars
    <2>3. CASE RunLoad
      BY <1>1, <2>3, RunLoadIInv DEF RunLoad, ringVars
    <2>4. CASE \E next \in {"fill", "load", "idle"} : Refresh(next)
      BY <2>4, RefreshIInv
    <2> QED
      BY <1>2, <2>1, <2>2, <2>3, <2>4, WriterShape DEF WriterSteps
  <1>3. ASSUME NEW s \in Slots,
               JoinStep(s) \/ Remove(s) \/ ReaderStep(s) \/ ReaderReturn(s)
        PROVE  IInv' /\ cachedSlowestReader <= cachedSlowestReader'
    <2>1. UNCHANGED cachedSlowestReader
      BY <1>3 DEF JoinStep, ReaderStep, JoinLoad, JoinStore, JoinActivate, LateActivate,
                  Remove, ReaderStart, ReaderPoll, ReaderLoad, ReaderAdvance, ReaderReturn,
                  writerSide, ringVars
    <2> QED
      BY <1>1, <1>3, <2>1, ReaderIInv
  <1>4. CASE UNCHANGED vars
    <2>1. TypeOK'
      BY <1>4, StutterTypeOK DEF IInv
    <2>2. /\ ReaderInv' /\ GateInv' /\ LoadInv'
          /\ WriterInv' /\ BufferInv'
      BY <1>4 DEF vars, ringVars, callVars, readerVars, barrierVars, IInv, ReaderInv,
                  GateInv, LoadInv, Seen, Settled, Member, Position, WriterInv, CallInv,
                  BufferInv, Written, Claimed
    <2> QED
      BY <1>1, <1>4, <2>1, <2>2 DEF IInv, vars, ringVars
  <1> QED
    BY <1>2, <1>3, <1>4 DEF Next

(***************************************************************************)
(* IInv holds of every reachable state when no refresh begins while an     *)
(* AddReader is overtaken, for every capacity, slot count and bound.       *)
(***************************************************************************)
THEOREM Invariance == SpecQuiet => []IInv
  BY InitIInv, NextIInv, PTL DEF SpecQuiet

(***************************************************************************)
(* A program that commits nothing while an AddReader is under way, one     *)
(* that registers its readers before the first publish for instance, has   *)
(* only quiet joins, however its readers start, read and return meanwhile: *)
(* whatever holds of SpecQuiet holds of it.                                *)
(***************************************************************************)
THEOREM PausedIsQuiet == SpecPaused => SpecQuiet
  <1> DEFINE AllSettled == \A s \in Slots : Settled(s)
  <1>1. Init => AllSettled
    BY DEF Init, BarrierInit, Settled, Slots
  <1>2. AllSettled => QuietJoin
    BY DEF QuietJoin, Overtaken
  <1>3. ASSUME IInv, AllSettled, Next, Paused
        PROVE  AllSettled'
    <2>0. TypeOK /\ CallInv /\ ReaderInv
      BY <1>3 DEF IInv, WriterInv
    <2>1. ASSUME NEW s \in Slots,
                 JoinStep(s) \/ Remove(s) \/ ReaderStep(s) \/ ReaderReturn(s)
          PROVE  AllSettled'
      BY <1>3, <2>0, <2>1, ReaderAdvances DEF Advances
    <2>2. CASE UNCHANGED <<readerVars, writeCursor>>
      BY <1>3, <2>2, SettledFrame
    <2>3. CASE ~AddUnderWay /\ UNCHANGED readerVars
      <3>1. \A s \in Slots : jpc'[s] \notin Joining /\ ~(late'[s] > 0)
        BY <2>3 DEF AddUnderWay, readerVars
      <3> QED
        BY <3>1 DEF Settled, Joining
    <2>4. CASE WriterCall \/ WriterStep
      <3>1. UNCHANGED readerVars
        BY <2>0, <2>4, WriterShape, OutsideFrame
        DEF WriterSteps, StartLoad, RunLoad, Refresh, RefreshGate
      <3>2. CASE AddUnderWay
        BY <1>3, <2>2, <3>1, <3>2 DEF Paused
      <3> QED
        BY <2>3, <3>1, <3>2
    <2> QED
      BY <1>3, <2>1, <2>4 DEF Next
  <1>4. IInv /\ AllSettled /\ [Next /\ Paused]_vars => (IInv /\ AllSettled)'
    <2> SUFFICES ASSUME IInv, AllSettled, [Next /\ Paused]_vars
                 PROVE  IInv' /\ AllSettled'
      OBVIOUS
    <2>1. IInv'
      BY <1>2, NextIInv
    <2>2. CASE Next /\ Paused
      BY <1>3, <2>1, <2>2
    <2>3. CASE UNCHANGED vars
      <3>1. UNCHANGED <<readerVars, writeCursor>>
        BY <2>3 DEF vars, ringVars
      <3> QED
        BY <2>1, <3>1, SettledFrame
    <2> QED
      BY <2>2, <2>3
  <1>5. AllSettled /\ [Next /\ Paused]_vars => [Next /\ QuietJoin]_vars
    BY <1>2
  <1> QED
    BY <1>1, <1>4, <1>5, InitIInv, PTL DEF SpecPaused, SpecQuiet

-----------------------------------------------------------------------------
(* What the invariant gives.                                               *)

(* A slot that is less than a lap behind the claim has its unread events   *)
(* in the ring, and not in the element that is being written.              *)
LEMMA InTheRing ==
  ASSUME TypeOK, CallInv, BufferInv, NEW s \in Slots,
         Claimed < cursor[s] + BufferSize, NEW q \in Unread(s)
  PROVE  /\ buffer[Index(q)] = q
         /\ wpc = "fill" => Index(q) # Index(fill)
  <1>1. /\ cursor[s] \in Nat /\ writeCursor \in Nat /\ claim \in Nat /\ fill \in Nat
        /\ nextSequence = writeCursor /\ BufferSize \in Nat
        /\ wpc = "fill" => writeCursor < fill /\ fill <= claim
        /\ wpc = "commit" => writeCursor < claim
    BY RingAssumption DEF TypeOK, BarrierTypeOK, CallInv
  <1>2. Written \in Nat /\ writeCursor <= Written /\ Written <= Claimed /\ Claimed \in Nat
    BY <1>1 DEF Written, Claimed
  <1>3. /\ q \in Nat /\ 0 < q /\ q <= writeCursor
        /\ Claimed < q + BufferSize
    BY <1>1, <1>2 DEF Unread
  <1>4. q \in 1 .. Written /\ Written - BufferSize < q
    BY <1>1, <1>2, <1>3
  <1>5. ASSUME wpc = "fill" PROVE Index(q) # Index(fill)
    <2>1. q < fill /\ fill < q + BufferSize
      BY <1>1, <1>3, <1>5 DEF Claimed
    <2> QED
      BY <1>1, <1>3, <2>1, IndexDistinct
  <1> QED
    BY <1>4, <1>5 DEF BufferInv

LEMMA ClaimedRange ==
  ASSUME TypeOK, CallInv
  PROVE  Claimed \in Nat /\ writeCursor <= Claimed
  BY DEF TypeOK, BarrierTypeOK, CallInv, Claimed

(* The gate is not ahead of a gated reader, nor the claim a lap.           *)
LEMMA GatedBound ==
  ASSUME IInv, NEW s \in activeSlots
  PROVE  s \in Slots /\ Claimed < cursor[s] + BufferSize
  <1>1. /\ s \in Slots /\ cursor[s] \in Nat /\ cachedSlowestReader \in Nat
        /\ BufferSize \in Nat /\ Claimed \in Nat
    BY RingAssumption DEF IInv, TypeOK, BarrierTypeOK, Claimed
  <1>2. Member(s) /\ Position(s) = cursor[s]
    BY <1>1 DEF Member, Position
  <1>3. cachedSlowestReader <= cursor[s]
    BY <1>1, <1>2 DEF IInv, GateInv
  <1> QED
    BY <1>1, <1>3 DEF IInv, WriterInv

LEMMA IInvNoOverrun == IInv => NoOverrun /\ NoDataRace
  BY InTheRing, GatedBound DEF IInv, WriterInv, NoOverrun, NoDataRace

LEMMA IInvRemainingExact == IInv => RemainingExact
  <1> SUFFICES ASSUME IInv, wpc = "idle" PROVE RemainingExact
    BY DEF RemainingExact
  <1>1. /\ nextSequence \in Nat /\ cachedSlowestReader \in Nat /\ BufferSize \in Nat
        /\ cachedSlowestReader <= nextSequence
        /\ nextSequence < cachedSlowestReader + BufferSize
    BY RingAssumption DEF IInv, TypeOK, WriterInv, CallInv, Claimed
  <1> QED
    BY <1>1 DEF RemainingExact, HasRoom

(***************************************************************************)
(* No publication of Publish, TryPublish, Reserve or TryReserve overwrites *)
(* an event a gated reader has not consumed.                               *)
(***************************************************************************)
THEOREM NoOverrunHolds == SpecQuiet => []NoOverrun
  BY Invariance, IInvNoOverrun, PTL

(***************************************************************************)
(* The writer never writes an element that a gated reader may be reading.  *)
(***************************************************************************)
THEOREM NoDataRaceHolds == SpecQuiet => []NoDataRace
  BY Invariance, IInvNoOverrun, PTL

(***************************************************************************)
(* What Remaining returns is in its range, and zero exactly when           *)
(* TryPublish would be refused.                                            *)
(***************************************************************************)
THEOREM RemainingExactHolds == SpecQuiet => []RemainingExact
  BY Invariance, IInvRemainingExact, PTL

(***************************************************************************)
(* The range a gated reader gives to GetSegments is shorter than the ring, *)
(* as its precondition wants it: the comment of GetSegments is right of    *)
(* the programs whose joins are quiet.                                     *)
(***************************************************************************)
THEOREM GetSegmentsContractHolds == SpecQuiet => []GetSegmentsContract
  <1>1. ASSUME IInv, NEW s \in activeSlots
        PROVE  upto[s] - (cursor[s] + 1) < BufferSize
    <2>1. s \in Slots /\ Claimed < cursor[s] + BufferSize
      BY <1>1, GatedBound
    <2>2. /\ upto[s] \in Nat /\ cursor[s] \in Nat /\ writeCursor \in Nat
          /\ upto[s] <= writeCursor /\ BufferSize \in Nat
      BY <1>1, <2>1, RingAssumption DEF IInv, TypeOK, BarrierTypeOK, ReaderInv
    <2>3. Claimed \in Nat /\ writeCursor <= Claimed
      BY <1>1, ClaimedRange DEF IInv, WriterInv
    <2> QED
      BY <2>1, <2>2, <2>3
  <1>2. IInv => GetSegmentsContract
    BY <1>1 DEF GetSegmentsContract
  <1> QED
    BY <1>2, Invariance, PTL

(***************************************************************************)
(* A refresh never moves the writer's gate backwards.                      *)
(***************************************************************************)
THEOREM GateMonotoneHolds == SpecQuiet => GateMonotone
  <1>1. IInv /\ [Next /\ QuietJoin]_vars => [cachedSlowestReader' >= cachedSlowestReader]_vars
    BY NextIInv DEF IInv, TypeOK
  <1> QED
    BY <1>1, Invariance, PTL DEF SpecQuiet, GateMonotone
=============================================================================
