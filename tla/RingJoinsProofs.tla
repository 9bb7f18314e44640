--------------------------- MODULE RingJoinsProofs ---------------------------
(***************************************************************************)
(* The ring keeps its promise to every reader that no refresh of the gate  *)
(* has missed, when AddReader and the writer interleave freely: the proofs *)
(* of RingJoins, with no hypothesis on when readers join.                  *)
(*                                                                         *)
(* A missed reader may stand behind the gate, and a later scan then moves  *)
(* the gate, and the barrier's cache, backwards.  So the argument of       *)
(* RingSafetyProofs, which bounds the claim by the gate, is not available: *)
(* here each unmissed member bounds the claim by itself (Accounted), and   *)
(* what a Load returns is compared with that member's position only.       *)
(***************************************************************************)
EXTENDS RingJoins, RingRefinementProofs

-----------------------------------------------------------------------------
LEMMA InitJoinsInv == JoinsInit => JoinsInv
  <1> SUFFICES ASSUME JoinsInit PROVE JoinsInv
    OBVIOUS
  <1>1. TypeOK /\ CallInv /\ ReaderInv /\ BufferInv
    BY InitIInv DEF JoinsInit, IInv, WriterInv
  <1>2. Waited = {}
    BY DEF JoinsInit, Init, BarrierInit, Waited, Member, Joining, Slots
  <1>3. LocalsInv
    BY DEF JoinsInit, Init, BarrierInit, LocalsInv
  <1> QED
    BY <1>1, <1>2, <1>3 DEF JoinsInv

(* The members the gate takes into account after a step: the members the   *)
(* step does not miss and no earlier one has.                              *)
LEMMA WaitedNext ==
  ASSUME JoinsNext
  PROVE  Waited' = {t \in Slots : Member(t)' /\ t \notin missed /\ ~Misses(t)}
  BY DEF Waited, JoinsNext

(* What is known of a member that has not been missed before a step.       *)
LEMMA PositionType ==
  ASSUME TypeOK, ReaderInv, NEW t \in Slots
  PROVE  Position(t) \in Nat /\ Position(t) <= writeCursor
  BY DEF TypeOK, BarrierTypeOK, ReaderInv, Position

(* A settled member has its bit set or stands at the writer's position.    *)
LEMMA SettledPosition ==
  ASSUME TypeOK, NEW t \in Slots, Member(t), Settled(t)
  PROVE  Position(t) = writeCursor \/ t \in activeSlots
  <1>1. late[t] \in Nat
    BY DEF TypeOK
  <1> QED
    BY <1>1 DEF Member, Position, Settled, Joining

-----------------------------------------------------------------------------
(* The readers' steps.                                                     *)

LEMMA ReaderAccounted ==
  ASSUME JoinsInv, TypeOK', ReaderInv', UNCHANGED writerSide,
         NEW t \in Slots, t \notin missed, Member(t)', Advances(t)
  PROVE  Accounted(t)'
  <1> USE DEF writerSide, ringVars, callVars, barrierVars
  <1>0. /\ writeCursor \in Nat /\ cachedSlowestReader \in Nat /\ lastMinimum \in Nat
        /\ cachedSlowestReader <= writeCursor /\ lastMinimum <= writeCursor
        /\ Claimed \in Nat /\ Claimed' = Claimed /\ Claimed < writeCursor + BufferSize
        /\ minimum \in [Paths -> Nat] /\ loaded \in Nat /\ BufferSize \in Nat
    BY RingAssumption DEF JoinsInv, TypeOK, BarrierTypeOK, CallInv, Claimed
  <1>1. /\ Position(t) \in Nat /\ Position(t)' \in Nat
        /\ Position(t) <= writeCursor /\ Position(t)' <= writeCursor
    <2>1. Position(t) \in Nat /\ Position(t) <= writeCursor
      BY PositionType DEF JoinsInv
    <2>2. Position(t)' \in Nat /\ Position(t)' <= writeCursor'
      BY DEF TypeOK, BarrierTypeOK, ReaderInv, Position
    <2> QED
      BY <2>1, <2>2
  <1>2. lpc # "idle" => Settled(t)'
    <2>1. CASE Member(t)
      BY <2>1 DEF JoinsInv, Waited, Accounted, Advances
    <2>2. CASE ~Member(t)
      BY <2>2 DEF Member, Settled, Joining, Advances
    <2> QED
      BY <2>1, <2>2
  <1>3. CASE Position(t)' = writeCursor
    <2>1. lpc = "scan" => \E p \in Paths : minimum[p] <= Position(t)'
      BY <1>3 DEF JoinsInv, LocalsInv, Paths
    <2>2. lpc = "done" => loaded <= Position(t)'
      BY <1>3 DEF JoinsInv, LocalsInv
    <2> QED
      BY <1>0, <1>2, <1>3, <2>1, <2>2 DEF Accounted, Seen
  <1>4. CASE /\ Position(t)' # writeCursor
             /\ Member(t) /\ Position(t) <= Position(t)'
             /\ t \in activeSlots => t \in activeSlots' \/ late'[t] > 0
    <2>1. Accounted(t)
      BY <1>4 DEF JoinsInv, Waited
    <2>2. lpc # "idle" => ~(late'[t] > 0)
      BY <1>2, <1>4 DEF Settled, Position, TypeOK
    <2>3. lpc = "scan" /\ t \notin todo => \E p \in Paths : minimum[p] <= Position(t)'
      BY <1>0, <1>1, <1>4, <2>1 DEF Accounted
    <2>4. Position(t) # writeCursor
      BY <1>0, <1>1, <1>4
    <2> QED
      BY <1>0, <1>1, <1>2, <1>4, <2>1, <2>2, <2>3, <2>4 DEF Accounted, Seen
  <1> QED
    BY <1>3, <1>4 DEF Advances

LEMMA ReaderJoinsInv ==
  ASSUME JoinsInv, JoinsNext, NEW s \in Slots,
         JoinStep(s) \/ Remove(s) \/ ReaderStep(s) \/ ReaderReturn(s)
  PROVE  JoinsInv'
  <1>1. UNCHANGED writerSide
    BY DEF JoinStep, ReaderStep, JoinLoad, JoinStore, JoinActivate, LateActivate,
           Remove, ReaderStart, ReaderPoll, ReaderLoad, ReaderAdvance, ReaderReturn
  <1>2. TypeOK' /\ ReaderInv' /\ \A t \in Slots : Advances(t)
    BY ReaderTypeOK, ReaderAdvances DEF JoinsInv
  <1>3. CallInv' /\ BufferInv' /\ LocalsInv'
    BY <1>1 DEF JoinsInv, CallInv, BufferInv, LocalsInv, Written, Claimed,
                writerSide, ringVars, callVars, barrierVars
  <1>4. \A t \in Waited' : Accounted(t)'
    BY <1>1, <1>2, WaitedNext, ReaderAccounted
  <1> QED
    BY <1>2, <1>3, <1>4 DEF JoinsInv

-----------------------------------------------------------------------------
(* The writer's steps, none of which changes the readers.                  *)

LEMMA OutsideJoinsInv ==
  ASSUME JoinsInv, JoinsNext, OutsideLoad
  PROVE  JoinsInv'
  <1>0. TypeOK /\ CallInv /\ ReaderInv /\ BufferInv /\ LocalsInv
    BY DEF JoinsInv
  <1>1. /\ UNCHANGED <<readerVars, barrierVars, cachedSlowestReader>>
        /\ lpc # "idle" => UNCHANGED writeCursor
    BY <1>0, OutsideFrame
  <1>2. TypeOK' /\ CallInv' /\ ReaderInv' /\ BufferInv'
    BY <1>0, OutsideTypeOK, OutsideCallInv, OutsideReaderInv, OutsideBufferInv
  <1>3. LocalsInv'
    BY <1>0, <1>1 DEF LocalsInv, barrierVars
  <1>4. ASSUME NEW t \in Waited'
        PROVE  Accounted(t)'
    <2>1. t \in Slots /\ Member(t)' /\ t \notin missed
      BY <1>2, <1>4, WaitedNext
    <2>2. /\ Position(t)' = Position(t) /\ Position(t) \in Nat
          /\ Accounted(t)
      BY <1>0, <1>1, <2>1, MemberFrame, PositionType DEF JoinsInv, Waited
    <2>3. Claimed' < Position(t) + BufferSize
      BY <1>0, <2>2, OutsideBound DEF Accounted
    <2> QED
      BY <1>1, <2>2, <2>3 DEF Accounted, Seen, Settled, readerVars, barrierVars
  <1> QED
    BY <1>2, <1>3, <1>4 DEF JoinsInv

(* A reader that the beginning of a Load does not miss is overtaken by     *)
(* nothing: it stands at the writer's position or its bit is set.          *)
LEMMA StartLoadJoinsInv ==
  ASSUME JoinsInv, JoinsNext, StartLoad
  PROVE  JoinsInv'
  <1>0. TypeOK /\ CallInv /\ ReaderInv /\ BufferInv
    BY DEF JoinsInv
  <1>1. /\ lpc = "idle" /\ lpc' = "bitmap1" /\ wpc = "load"
        /\ bitmap' = {s \in activeSlots : Word(s) = 0}
        /\ UNCHANGED <<ringVars, callVars, readerVars, lastMinimum>>
    BY DEF StartLoad, LoadBitmap0, cacheVars
  <1>2. TypeOK'
    BY <1>0, WriterStepTypeOK DEF WriterStep
  <1>3. CallInv' /\ ReaderInv' /\ BufferInv' /\ Claimed' = Claimed
    BY <1>0, <1>1, LoadFrame DEF CallInv
  <1>4. LocalsInv'
    BY <1>1 DEF LocalsInv
  <1>5. ASSUME NEW t \in Waited'
        PROVE  Accounted(t)'
    <2>1. t \in Slots /\ Member(t)' /\ t \notin missed /\ ~Misses(t)
      BY <1>3, <1>5, WaitedNext
    <2>2. /\ Member(t) /\ Position(t)' = Position(t)
          /\ Accounted(t)
      BY <1>1, <2>1, MemberFrame DEF JoinsInv, Waited
    <2>3. Settled(t) /\ Settled(t)'
      BY <1>1, <2>1, SettledFrame DEF Misses, RefreshBegins, Overtaken, ringVars
    <2>4. \/ Position(t) = writeCursor
          \/ t \in bitmap'
          \/ Word(t) = 1 /\ t \in activeSlots
      BY <1>0, <1>1, <2>1, <2>2, <2>3, SettledPosition DEF Word
    <2> QED
      BY <1>1, <1>3, <2>2, <2>3, <2>4 DEF Accounted, Seen, readerVars, ringVars
  <1> QED
    BY <1>2, <1>3, <1>4, <1>5 DEF JoinsInv

(* What a step of a running Load has to establish for a reader.            *)
LEMMA RunLoadAccounted ==
  ASSUME JoinsInv, RunLoad, NEW t \in Waited
  PROVE  Accounted(t)'
  <1>0. /\ lpc # "idle" /\ UNCHANGED <<ringVars, callVars, readerVars>>
    BY DEF RunLoad, LoadStep, LoadBitmap1, LoadUpstream, GateHit, GateMiss,
           ScanMax, ScanSlot, ScanDone
  <1>1. /\ t \in Slots /\ Member(t) /\ Accounted(t)
        /\ Position(t)' = Position(t) /\ Claimed' = Claimed
        /\ Settled(t) /\ Settled(t)'
    BY <1>0, MemberFrame, SettledFrame DEF JoinsInv, Waited, Accounted, Claimed, ringVars, callVars
  <1>2. /\ Position(t) \in Nat /\ Position(t) <= writeCursor /\ cursor[t] \in Nat
        /\ minimum \in [Paths -> Nat] /\ writeCursor \in Nat
    BY <1>1, PositionType DEF JoinsInv, TypeOK, BarrierTypeOK
  <1> USE DEF readerVars, ringVars, cacheVars, scanVars
  <1>3. CASE LoadBitmap1
    <2>1. Seen(t)'
      BY <1>0, <1>1, <1>3 DEF LoadBitmap1, Accounted, Seen
    <2> QED
      BY <1>0, <1>1, <1>3, <2>1 DEF LoadBitmap1, Accounted
  <1>4. CASE LoadUpstream
    <2>1. Position(t) = writeCursor
      BY <1>1, <1>4 DEF LoadUpstream, JoinsInv, LocalsInv, Accounted, Seen
    <2> QED
      BY <1>0, <1>1, <1>2, <1>4, <2>1 DEF LoadUpstream, Accounted
  <1>5. CASE GateHit
    BY <1>0, <1>1, <1>5 DEF GateHit, Accounted
  <1>6. CASE GateMiss
    BY <1>0, <1>1, <1>6 DEF GateMiss, Accounted, Seen
  <1>7. CASE ScanMax
    <2>1. \A p \in Paths : minimum'[p] = writeCursor
      BY <1>7 DEF ScanMax
    <2>2. t \in bitmap \/ \E p \in Paths : minimum'[p] <= Position(t)
      BY <1>1, <1>2, <1>7, <2>1 DEF ScanMax, Accounted, Seen, Paths
    <2> QED
      BY <1>0, <1>1, <1>7, <2>2 DEF ScanMax, Accounted
  <1>8. CASE ScanSlot
    <2>0. lpc = "scan" /\ UNCHANGED <<lpc, lastMinimum>>
      BY <1>8 DEF ScanSlot
    <2>1. PICK s \in todo :
            /\ todo' = todo \ {s}
            /\ IF cursor[s] < minimum[Path(s)]
               THEN minimum' = [minimum EXCEPT ![Path(s)] = cursor[s]]
               ELSE UNCHANGED minimum
      BY <1>8 DEF ScanSlot
    <2>2. s \in Slots /\ cursor[s] \in Nat /\ Path(s) \in Paths
      BY <2>1, PathType DEF JoinsInv, TypeOK, BarrierTypeOK
    <2>3. /\ \A p \in Paths : minimum'[p] \in Nat /\ minimum'[p] <= minimum[p]
          /\ minimum'[Path(s)] <= cursor[s]
      BY <1>2, <2>1, <2>2
    <2>4. ASSUME t \notin todo'
          PROVE  \E p \in Paths : minimum'[p] <= Position(t)
      <3>1. CASE t = s /\ Position(t) = cursor[t]
        BY <2>2, <2>3, <3>1
      <3>2. CASE t = s /\ Position(t) # cursor[t]
        <4>1. Position(t) = writeCursor
          BY <1>1, <3>2 DEF Position, Settled
        <4> QED
          BY <1>1, <1>2, <2>0, <2>2, <2>3, <4>1 DEF JoinsInv, LocalsInv
      <3>3. CASE t # s
        <4>1. PICK p \in Paths : minimum[p] <= Position(t)
          BY <1>1, <2>0, <2>1, <2>4, <3>3 DEF Accounted
        <4> QED
          BY <1>2, <2>3, <4>1
      <3> QED
        BY <3>1, <3>2, <3>3
    <2> QED
      BY <1>0, <1>1, <2>0, <2>4 DEF Accounted
  <1>9. CASE ScanDone
    <2>1. /\ lpc = "scan" /\ lpc' = "done" /\ todo = {} /\ lastMinimum' = loaded'
          /\ loaded' \in Nat /\ loaded' <= minimum["A"] /\ loaded' <= minimum["B"]
      BY <1>2, <1>9 DEF ScanDone, Paths
    <2>2. PICK p \in Paths : minimum[p] <= Position(t)
      BY <1>1, <2>1 DEF Accounted
    <2>3. loaded' <= Position(t)
      BY <1>2, <2>1, <2>2 DEF Paths
    <2> QED
      BY <1>0, <1>1, <2>1, <2>3 DEF Accounted
  <1> QED
    BY <1>3, <1>4, <1>5, <1>6, <1>7, <1>8, <1>9 DEF RunLoad, LoadStep

(* The locals of the call, and the barrier's cache, stay in their range.   *)
LEMMA RunLoadLocals ==
  ASSUME JoinsInv, RunLoad
  PROVE  LocalsInv' /\ lastMinimum' <= writeCursor
  <1>0. /\ writeCursor \in Nat /\ lastMinimum \in Nat /\ lastMinimum <= writeCursor
        /\ minimum \in [Paths -> Nat] /\ cursor \in [Slots -> Nat] /\ todo \subseteq Slots
        /\ UNCHANGED writeCursor
    BY DEF JoinsInv, TypeOK, BarrierTypeOK, CallInv, RunLoad, ringVars
  <1> USE DEF LocalsInv, cacheVars, scanVars
  <1>1. CASE LoadBitmap1
    BY <1>0, <1>1 DEF LoadBitmap1
  <1>2. CASE LoadUpstream \/ GateHit \/ GateMiss
    BY <1>0, <1>2 DEF LoadUpstream, GateHit, GateMiss
  <1>3. CASE ScanMax
    BY <1>0, <1>3 DEF ScanMax
  <1>4. CASE ScanSlot
    <2>1. PICK s \in todo :
            /\ todo' = todo \ {s}
            /\ \/ minimum' = [minimum EXCEPT ![Path(s)] = cursor[s]]
               \/ UNCHANGED minimum
      BY <1>4 DEF ScanSlot
    <2>2. cursor[s] \in Nat /\ cursor[s] <= writeCursor
      BY <1>0 DEF JoinsInv, ReaderInv
    <2>3. \A p \in Paths : minimum'[p] <= writeCursor
      BY <1>0, <1>4, <2>1, <2>2 DEF JoinsInv, ScanSlot
    <2> QED
      BY <1>0, <1>4, <2>1, <2>3 DEF JoinsInv, ScanSlot
  <1>5. CASE ScanDone
    BY <1>0, <1>5 DEF JoinsInv, ScanDone, Paths
  <1> QED
    BY <1>1, <1>2, <1>3, <1>4, <1>5 DEF RunLoad, LoadStep

LEMMA RunLoadJoinsInv ==
  ASSUME JoinsInv, JoinsNext, RunLoad
  PROVE  JoinsInv'
  <1>1. wpc = "load" /\ lpc # "idle" /\ UNCHANGED <<ringVars, callVars, readerVars>>
    BY DEF RunLoad, LoadStep, LoadBitmap1, LoadUpstream, GateHit, GateMiss,
           ScanMax, ScanSlot, ScanDone
  <1>2. TypeOK'
    BY WriterStepTypeOK DEF JoinsInv, WriterStep
  <1>3. CallInv' /\ ReaderInv' /\ BufferInv' /\ LocalsInv'
    BY <1>1, RunLoadLocals, LoadFrame DEF JoinsInv
  <1>4. \A t \in Waited' : t \in Waited
    BY <1>1, <1>3, WaitedNext, MemberFrame DEF Waited
  <1> QED
    BY <1>2, <1>3, <1>4, RunLoadAccounted DEF JoinsInv

LEMMA RefreshJoinsInv ==
  ASSUME JoinsInv, JoinsNext, NEW next \in {"fill", "load", "idle"}, Refresh(next)
  PROVE  JoinsInv'
  <1>0. TypeOK /\ CallInv /\ ReaderInv /\ BufferInv /\ RefreshGate(next)
    BY DEF JoinsInv, Refresh
  <1>1. /\ lpc = "done" /\ lpc' = "idle" /\ cachedSlowestReader' = loaded
        /\ UNCHANGED <<readerVars, lastMinimum, writeCursor>>
    BY <1>0 DEF RefreshGate, LoadReturn, cacheVars
  <1>2. TypeOK'
    BY <1>0, RefreshTypeOK
  <1>3. CallInv' /\ ReaderInv' /\ BufferInv'
    BY <1>0, <1>1, RefreshFrame DEF JoinsInv, LocalsInv
  <1>4. LocalsInv'
    BY <1>1 DEF LocalsInv
  <1>5. ASSUME NEW t \in Waited'
        PROVE  Accounted(t)'
    <2>1. t \in Slots /\ Member(t)' /\ t \notin missed
      BY <1>3, <1>5, WaitedNext
    <2>2. /\ Position(t)' = Position(t) /\ Position(t) \in Nat
          /\ Accounted(t)
      BY <1>0, <1>1, <2>1, MemberFrame, PositionType DEF JoinsInv, Waited
    <2>3. Claimed' < Position(t) + BufferSize
      BY <1>0, <1>1, <2>2, RefreshBound DEF Accounted
    <2> QED
      BY <1>1, <2>2, <2>3 DEF Accounted
  <1> QED
    BY <1>2, <1>3, <1>4, <1>5 DEF JoinsInv

-----------------------------------------------------------------------------
LEMMA StutterJoinsInv == JoinsInv /\ UNCHANGED joinHistory => JoinsInv'
  <1> SUFFICES ASSUME JoinsInv, UNCHANGED joinHistory PROVE JoinsInv'
    OBVIOUS
  <1> USE DEF joinHistory, vars, ringVars, callVars, readerVars, barrierVars
  <1>1. TypeOK'
    BY StutterTypeOK DEF JoinsInv
  <1>2. CallInv' /\ ReaderInv' /\ BufferInv' /\ LocalsInv'
    BY DEF JoinsInv, CallInv, ReaderInv, BufferInv, LocalsInv, Written, Claimed
  <1>3. \A t \in Waited' : Accounted(t)'
    BY DEF JoinsInv, Waited, Member, Accounted, Seen, Settled, Position, Claimed
  <1> QED
    BY <1>1, <1>2, <1>3 DEF JoinsInv

(* The step lemma: one case for each kind of step.                         *)
LEMMA NextJoinsInv == JoinsInv /\ [JoinsNext]_joinHistory => JoinsInv'
  <1> SUFFICES ASSUME JoinsInv, JoinsNext PROVE JoinsInv'
    BY StutterJoinsInv
  <1>1. CASE \E s \in Slots :
               JoinStep(s) \/ Remove(s) \/ ReaderStep(s) \/ ReaderReturn(s)
    BY <1>1, ReaderJoinsInv
  <1>2. CASE WriterSteps
    BY <1>2, OutsideJoinsInv, StartLoadJoinsInv, RunLoadJoinsInv, RefreshJoinsInv
    DEF WriterSteps
  <1> QED
    BY <1>1, <1>2, WriterShape DEF JoinsNext, Next

(***************************************************************************)
(* JoinsInv holds of every reachable state, for every capacity, slot count *)
(* and interleaving of AddReader with the writer.                          *)
(***************************************************************************)
THEOREM JoinsInvHolds == JoinsSpec => []JoinsInv
  BY InitJoinsInv, NextJoinsInv, PTL DEF JoinsSpec

(***************************************************************************)
(* The writer never claims a lap or more ahead of a reader that no refresh *)
(* has missed (Publish, Reserve and Load against AddReader).               *)
(***************************************************************************)
THEOREM NotLappedHolds == JoinsSpec => []NotLapped
  <1>1. JoinsInv => NotLapped
    BY DEF JoinsInv, Accounted, NotLapped
  <1> QED
    BY <1>1, JoinsInvHolds, PTL

(* A gated reader that has not been missed is a member at its cursor.      *)
LEMMA UnmissedBound ==
  ASSUME JoinsInv, NEW s \in activeSlots \ missed
  PROVE  s \in Slots /\ Claimed < cursor[s] + BufferSize
  <1>1. s \in Waited /\ Position(s) = cursor[s]
    BY DEF JoinsInv, TypeOK, BarrierTypeOK, Waited, Member, Position
  <1> QED
    BY <1>1 DEF JoinsInv, Accounted, Waited

(***************************************************************************)
(* The unread events of a gated reader that no refresh has missed are in   *)
(* the ring, and the writer never writes the element of one of them.       *)
(***************************************************************************)
THEOREM UnmissedIntactHolds == JoinsSpec => []UnmissedIntact
  <1>1. JoinsInv => UnmissedIntact
    BY UnmissedBound, InTheRing DEF JoinsInv, UnmissedIntact
  <1> QED
    BY <1>1, JoinsInvHolds, PTL

(***************************************************************************)
(* The range a reader that no refresh has missed gives to GetSegments is   *)
(* shorter than the ring, as its precondition wants it.                    *)
(***************************************************************************)
THEOREM UnmissedSegmentsHolds == JoinsSpec => []UnmissedSegments
  <1>1. ASSUME JoinsInv, NEW s \in activeSlots \ missed
        PROVE  upto[s] - (cursor[s] + 1) < BufferSize
    <2>1. s \in Slots /\ Claimed < cursor[s] + BufferSize
      BY <1>1, UnmissedBound
    <2>2. upto[s] \in Nat /\ upto[s] <= writeCursor
      BY <1>1, <2>1 DEF JoinsInv, TypeOK, ReaderInv
    <2> QED
      <3>1. /\ writeCursor \in Nat /\ cursor[s] \in Nat /\ BufferSize \in Nat
            /\ Claimed \in Nat /\ writeCursor <= Claimed
        BY <1>1, <2>1, ClaimedRange, RingAssumption DEF JoinsInv, TypeOK, BarrierTypeOK
      <3> QED
        BY <2>1, <2>2, <3>1
  <1>2. JoinsInv => UnmissedSegments
    BY <1>1 DEF UnmissedSegments
  <1> QED
    BY <1>2, JoinsInvHolds, PTL
-----------------------------------------------------------------------------
(* The ring and the broadcast among the readers that no refresh has missed. *)

(* While the readers stand still, the broadcast can only lose members.     *)
LEMMA MembersLeave ==
  ASSUME Waited' \subseteq Waited, UNCHANGED writeCursor,
         \A t \in Slots : Position(t)' = Position(t)
  PROVE  [Partial!BroadcastNext]_Partial!broadcastVars
  <1> DEFINE R == Waited \ Waited'
  <1>1. Waited \subseteq Slots
    BY DEF Waited
  <1>2. CASE R = {}
    <2>1. Waited' = Waited
      BY <1>2
    <2>2. UNCHANGED WaitedPositions
      BY <2>1 DEF WaitedPositions
    <2> QED
      BY <2>1, <2>2 DEF Partial!broadcastVars
  <1>3. CASE R # {}
    <2>1. R \in SUBSET Waited /\ Waited' = Waited \ R
      OBVIOUS
    <2>2. WaitedPositions' =
            [t \in Slots |-> IF t \in R THEN 0 ELSE WaitedPositions[t]]
      BY <1>1 DEF WaitedPositions
    <2> HIDE DEF R
    <2>3. Partial!Leave(R)
      BY <1>3, <2>1, <2>2 DEF Partial!Leave
    <2> QED
      BY <2>1, <2>3 DEF Partial!BroadcastNext
  <1> QED
    BY <1>2, <1>3

LEMMA WriterJoinsSimulates ==
  ASSUME JoinsInv, ReaderInv', JoinsNext, UNCHANGED <<readerVars, writeCursor>>
  PROVE  [Partial!BroadcastNext]_Partial!broadcastVars
  <1>1. /\ \A t \in Slots : Member(t)' <=> Member(t)
        /\ \A t \in Slots : Position(t)' = Position(t)
    BY MemberFrame
  <1>2. Waited' \subseteq Waited
    BY <1>1, WaitedNext DEF Waited
  <1> QED
    BY <1>1, <1>2, MembersLeave

LEMMA CommitJoinsSimulates ==
  ASSUME JoinsInv, ReaderInv', JoinsNext, Commit
  PROVE  Partial!PublishBatch
  <1>1. /\ writeCursor \in Nat /\ claim \in Nat /\ BufferSize \in Nat
        /\ writeCursor < claim /\ claim < writeCursor + BufferSize
        /\ writeCursor' = claim /\ Claimed = claim
        /\ UNCHANGED <<lpc, readerVars>>
    BY RingAssumption
    DEF JoinsInv, TypeOK, BarrierTypeOK, CallInv, Claimed, Commit, barrierVars
  <1> DEFINE n == claim - writeCursor
  <1>2. n \in 1 .. BufferSize - 1 /\ writeCursor' = writeCursor + n
    BY <1>1
  <1>3. \A s \in Waited : writeCursor + n < WaitedPositions[s] + BufferSize
    <2> SUFFICES ASSUME NEW s \in Waited
                 PROVE  writeCursor + n < WaitedPositions[s] + BufferSize
      OBVIOUS
    <2>1. s \in Slots /\ WaitedPositions[s] = Position(s)
      BY DEF Waited, WaitedPositions
    <2>2. claim < Position(s) + BufferSize
      BY <1>1 DEF JoinsInv, Accounted
    <2> QED
      BY <1>1, <2>1, <2>2
  <1>4. UNCHANGED <<Waited, WaitedPositions>>
    <2>1. \A t \in Slots : (Member(t)' <=> Member(t)) /\ Position(t)' = Position(t)
      BY <1>1, MemberFrame
    <2>2. Waited' = Waited
      BY <1>1, <2>1, WaitedNext DEF Waited, Misses, RefreshBegins
    <2> QED
      BY <2>1, <2>2 DEF WaitedPositions
  <1> HIDE DEF n
  <1> QED
    BY <1>2, <1>3, <1>4 DEF Partial!PublishBatch

LEMMA ReaderJoinsSimulates ==
  ASSUME JoinsInv, ReaderInv', JoinsNext, NEW s \in Slots,
         JoinStep(s) \/ Remove(s) \/ ReaderStep(s) \/ ReaderReturn(s)
  PROVE  [Partial!BroadcastNext]_Partial!broadcastVars
  <1>1. UNCHANGED <<lpc, writeCursor>>
    BY DEF JoinStep, ReaderStep, JoinLoad, JoinStore, JoinActivate, LateActivate,
           Remove, ReaderStart, ReaderPoll, ReaderLoad, ReaderAdvance, ReaderReturn,
           writerSide, ringVars, barrierVars
  <1>2. \A t \in Slots : /\ t \in Waited' <=> Member(t)' /\ t \notin missed
                         /\ t \in Waited <=> Member(t) /\ t \notin missed
    BY <1>1, WaitedNext DEF Waited, Misses, RefreshBegins
  <1>3. /\ \A t \in Slots \ {s} : Still(t)
        /\ \/ Still(s)
           \/ ~Member(s) /\ Member(s)' /\ Position(s)' = writeCursor
           \/ Member(s) /\ ~Member(s)'
           \/ /\ Member(s) /\ Member(s)'
              /\ Position(s)' \in Position(s) + 1 .. writeCursor
    BY ReaderMoves DEF JoinsInv
  <1>4. Waited \subseteq Slots /\ Waited' \subseteq Slots
    BY DEF Waited
  <1>5. CASE Still(s) \/ s \in missed
    <2>1. UNCHANGED Waited
      BY <1>2, <1>3, <1>4, <1>5 DEF Still
    <2>2. UNCHANGED WaitedPositions
      BY <1>2, <1>3, <1>5, <2>1 DEF WaitedPositions, Still
    <2> QED
      BY <1>1, <2>1, <2>2 DEF Partial!broadcastVars
  <1>6. CASE s \notin missed /\ ~Member(s) /\ Member(s)' /\ Position(s)' = writeCursor
    <2>1. s \notin Waited /\ Waited' = Waited \cup {s}
      BY <1>2, <1>3, <1>4, <1>6 DEF Still
    <2>2. WaitedPositions' = [WaitedPositions EXCEPT ![s] = writeCursor]
      BY <1>2, <1>3, <1>6, <2>1 DEF WaitedPositions, Still
    <2>3. Partial!Join(s)
      BY <1>1, <2>1, <2>2 DEF Partial!Join
    <2> QED
      BY <2>3 DEF Partial!BroadcastNext
  <1>7. CASE s \notin missed /\ Member(s) /\ ~Member(s)'
    <2>1. s \in Waited /\ Waited' = Waited \ {s}
      BY <1>2, <1>3, <1>4, <1>7 DEF Still
    <2>2. WaitedPositions' = [t \in Slots |-> IF t \in {s} THEN 0 ELSE WaitedPositions[t]]
      BY <1>2, <1>3, <1>7, <2>1 DEF WaitedPositions, Still
    <2>3. {s} \in SUBSET Waited /\ Partial!Leave({s})
      BY <1>1, <2>1, <2>2 DEF Partial!Leave
    <2> QED
      BY <2>3 DEF Partial!BroadcastNext
  <1>8. CASE /\ s \notin missed /\ Member(s) /\ Member(s)'
             /\ Position(s)' \in Position(s) + 1 .. writeCursor
    <2>1. s \in Waited /\ WaitedPositions[s] = Position(s)
      BY <1>2, <1>8 DEF WaitedPositions
    <2>2. Waited' = Waited
      BY <1>2, <1>3, <1>4, <1>8 DEF Still
    <2>3. WaitedPositions' = [WaitedPositions EXCEPT ![s] = Position(s)']
      BY <1>2, <1>3, <2>1, <2>2 DEF WaitedPositions, Still
    <2>4. Partial!Consume(s)
      BY <1>1, <1>8, <2>1, <2>2, <2>3 DEF Partial!Consume
    <2> QED
      BY <2>4 DEF Partial!BroadcastNext
  <1> QED
    BY <1>3, <1>5, <1>6, <1>7, <1>8

LEMMA JoinsStepSimulates ==
  ASSUME JoinsInv, [JoinsNext]_joinHistory
  PROVE  [Partial!BroadcastNext]_Partial!broadcastVars
  <1>0. ReaderInv'
    BY NextJoinsInv DEF JoinsInv
  <1>1. CASE JoinsNext /\ (WriterCall \/ WriterStep) /\ ~Commit
    <2>1. UNCHANGED <<readerVars, writeCursor>>
      BY <1>1 DEF WriterCall, Publish, TryPublish, Reserve, TryReserve, Claim, Remaining,
                  WriterStep, StartLoad, RunLoad, Granted, WaitAgain, Refused,
                  Reported, RefreshGate, WriteSlot, ringVars
    <2> QED
      BY <1>0, <1>1, <2>1, WriterJoinsSimulates
  <1>2. CASE JoinsNext /\ Commit
    BY <1>0, <1>2, CommitJoinsSimulates DEF Partial!BroadcastNext
  <1>3. CASE JoinsNext /\ \E s \in Slots :
               JoinStep(s) \/ Remove(s) \/ ReaderStep(s) \/ ReaderReturn(s)
    BY <1>0, <1>3, ReaderJoinsSimulates
  <1>4. CASE UNCHANGED joinHistory
    <2>1. UNCHANGED Waited
      BY <1>4 DEF joinHistory, vars, readerVars, Waited, Member
    <2>2. UNCHANGED <<writeCursor, WaitedPositions>>
      BY <1>4, <2>1
      DEF joinHistory, vars, ringVars, readerVars, WaitedPositions, Position
    <2> QED
      BY <2>1, <2>2 DEF Partial!broadcastVars
  <1> QED
    BY <1>1, <1>2, <1>3, <1>4 DEF JoinsNext, Next

LEMMA JoinsInitSimulates == JoinsInit => Partial!BroadcastInit
  BY DEF JoinsInit, Init, BarrierInit, Partial!BroadcastInit, Waited, WaitedPositions,
         Member, Joining, Slots

(***************************************************************************)
(* Among the readers that no refresh of the gate has missed, the ring      *)
(* implements BoundedBroadcast, however AddReader and the writer are       *)
(* interleaved: each of them is waited for at its current position.        *)
(***************************************************************************)
THEOREM JoinsBroadcastHolds == JoinsSpec => JoinsBroadcast
  <1>1. JoinsInv /\ [JoinsNext]_joinHistory
          => [Partial!BroadcastNext]_Partial!broadcastVars
    BY JoinsStepSimulates
  <1> QED
    BY <1>1, JoinsInitSimulates, JoinsInvHolds, PTL
    DEF JoinsSpec, JoinsBroadcast, Partial!BroadcastSpec

=============================================================================
