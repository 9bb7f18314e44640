-------------------------- MODULE LatencyRunProofs --------------------------
(***************************************************************************)
(* Theorems about LatencyRun, for every set of scenarios in which no stage *)
(* is empty, every number of readers and every Capacity and BurstSize.     *)
(*                                                                         *)
(* The argument: a reader stores its cursor behind what it has recorded,   *)
(* its batch ends behind what the stage before it has stored (ReaderInv),  *)
(* and the producer's call ends less than a lap beyond the last stage      *)
(* (ProducerInv).  All that is written is therefore less than a lap beyond *)
(* every cursor of both stages (LapBound): the elements and the stamps of  *)
(* a batch are still those of its sequences, and a stamp is only replaced  *)
(* by a later one.                                                         *)
(***************************************************************************)
EXTENDS LatencyRun, WellFoundedInduction, TLAPS

-----------------------------------------------------------------------------
(* Constants, elements and minima.                                         *)

LEMMA DivMod ==
  \A n \in Nat \ {0}, a \in Nat :
    /\ a = n * (a \div n) + (a % n)
    /\ a \div n \in Nat
    /\ a % n \in 0 .. (n - 1)
  OBVIOUS

LEMMA IndexRange == \A q \in Nat : Index(q) \in Elements
  BY DivMod, LatencyAssumption DEF Index, Elements

(* Two sequences less than a lap apart are stored in different elements.   *)
LEMMA IndexDistinct ==
  ASSUME NEW a \in Nat, NEW b \in Nat, a < b, b < a + Capacity
  PROVE  Index(a) # Index(b)
  <1> SUFFICES ASSUME Index(a) = Index(b) PROVE FALSE
    OBVIOUS
  <1>1. Capacity \in Nat \ {0} /\ Index(a) \in Int
    BY LatencyAssumption, DivMod DEF Index
  <1>2. PICK i \in Nat : a = Capacity * i + Index(a)
    BY <1>1, DivMod DEF Index
  <1>3. PICK j \in Nat : b = Capacity * j + Index(b)
    BY <1>1, DivMod DEF Index
  <1>4. b - a = Capacity * j - Capacity * i
    BY <1>1, <1>2, <1>3
  <1>5. CASE j <= i
    <2>1. Capacity * j <= Capacity * i
      BY <1>1, <1>5
    <2> QED
      BY <1>1, <1>4, <2>1
  <1>6. CASE i + 1 <= j
    <2>1. Capacity * (i + 1) <= Capacity * j
      BY <1>1, <1>6
    <2>2. Capacity * (i + 1) = Capacity * i + Capacity
      BY <1>1
    <2> QED
      BY <1>1, <1>4, <2>1, <2>2
  <1> QED
    BY <1>5, <1>6

LEMMA MinOf ==
  ASSUME NEW S, S \subseteq Nat, S # {}
  PROVE  Min(S) \in S /\ \A x \in S : Min(S) <= x
  <1>1. PICK m \in S : \A x \in S : ~(<<x, m>> \in OpToRel(<, Nat))
    BY NatLessThanWellFounded, WFMin, Zenon
  <1>2. \A x \in S : m <= x
    <2> TAKE x \in S
    <2>1. ~(x < m)
      BY <1>1 DEF OpToRel
    <2> QED
      BY <2>1
  <1> QED
    BY <1>2 DEF Min

LEMMA ScenarioIs ==
  ASSUME TypeOK
  PROVE  /\ scenario.shape \in Shapes
         /\ scenario.stageOf \in [Readers -> 1 .. 2]
         /\ \E r \in Readers : scenario.stageOf[r] = 1
         /\ Capacity \in Nat /\ Capacity > 1 /\ MaxSequence \in Nat
         /\ CallSize \in 1 .. Capacity - 1
  BY LatencyAssumption DEF TypeOK, CallSize

(***************************************************************************)
(* What the producer's call will have published is less than a lap beyond  *)
(* every reader: beyond those of the last stage because the call waited    *)
(* for them, beyond those of the first because they are ahead of the last. *)
(***************************************************************************)
Ahead == IF ppc \in {"fill", "commit"} THEN published + CallSize ELSE published

LEMMA LapBound ==
  ASSUME LatencyInv, NEW r \in Readers
  PROVE  /\ Ahead < position[r] + Capacity
         /\ seq <= Ahead /\ published <= seq /\ Ahead \in Nat
  <1>1. /\ seq \in Nat /\ published \in Nat
        /\ position \in [Readers -> Nat] /\ expected \in [Readers -> Nat]
        /\ limit \in [Readers -> Nat]
    BY ScenarioIs DEF LatencyInv, TypeOK, Stamps
  <1>2. CallSize \in Nat /\ Capacity \in Nat
    BY ScenarioIs DEF LatencyInv
  <1>3. seq <= Ahead /\ published <= seq /\ Ahead \in Nat
    BY <1>1, <1>2 DEF LatencyInv, ProducerInv, Ahead
  <1>4. CASE r \in Leaves
    BY <1>3, <1>4 DEF LatencyInv, ProducerInv, Ahead
  <1>5. CASE r \notin Leaves
    <2>1. scenario.stageOf[r] = 1 /\ LastStage = 2
      BY <1>5, ScenarioIs DEF LatencyInv, Leaves, InStage, LastStage
    <2>2. PICK b \in Readers : scenario.stageOf[b] = 2
      BY <2>1 DEF LastStage
    <2>3. Ahead < position[b] + Capacity
      BY <2>1, <2>2 DEF LatencyInv, ProducerInv, Ahead, Leaves, InStage
    <2>4. position[b] <= position[r]
      BY <1>1, <2>1, <2>2 DEF LatencyInv, ReaderInv, InStage
    <2> QED
      BY <1>1, <1>2, <1>3, <2>3, <2>4
  <1> QED
    BY <1>3, <1>4, <1>5

(* What LoadWriterBarrier tells a reader is no less than it told before,   *)
(* and behind what is published or the stage before has consumed.          *)
LEMMA BarrierIs ==
  ASSUME LatencyInv, NEW r \in Readers
  PROVE  /\ Barrier(r) \in limit[r] .. published
         /\ scenario.stageOf[r] = 2
              => \A u \in InStage(1) : Barrier(r) <= position[u]
  <1>1. /\ published \in Nat /\ position \in [Readers -> Nat]
        /\ expected \in [Readers -> Nat] /\ limit \in [Readers -> Nat]
    BY ScenarioIs DEF LatencyInv, TypeOK, Stamps
  <1>2. scenario.stageOf[r] \in 1 .. 2
    BY ScenarioIs DEF LatencyInv
  <1>3. CASE scenario.stageOf[r] = 1
    BY <1>1, <1>3 DEF Barrier, LatencyInv, ReaderInv
  <1>4. CASE scenario.stageOf[r] = 2
    <2> DEFINE S == {position[u] : u \in InStage(1)}
    <2>1. S \subseteq Nat /\ S # {}
      BY <1>1, ScenarioIs DEF LatencyInv, InStage
    <2>2. Min(S) \in S /\ \A x \in S : Min(S) <= x
      BY <2>1, MinOf
    <2>3. PICK u \in InStage(1) : Min(S) = position[u]
      BY <2>2
    <2>4. u \in Readers /\ limit[r] <= position[u]
      BY <1>4, <2>3 DEF LatencyInv, ReaderInv, InStage
    <2>5. position[u] <= published
      BY <1>1, <2>4 DEF LatencyInv, ReaderInv
    <2>6. Barrier(r) = Min(S)
      BY <1>4 DEF Barrier
    <2> QED
      BY <1>1, <2>2, <2>3, <2>4, <2>5, <2>6
  <1> QED
    BY <1>2, <1>3, <1>4

(* The values every step deals with; SameScenario: no step changes the run *)
(* that was asked for.                                                     *)
Domain ==
  /\ scenario.shape \in Shapes
  /\ scenario.stageOf \in [Readers -> 1 .. 2]
  /\ Capacity \in Nat /\ Capacity > 1 /\ MaxSequence \in Nat
  /\ BurstSize \in Nat /\ BurstSize > 0
  /\ CallSize \in Nat /\ CallSize > 0 /\ CallSize < Capacity
  /\ seq \in Nat /\ published \in Nat /\ row \in Nat /\ t0 \in Nat
  /\ element \in [Elements -> Nat]
  /\ position \in [Readers -> Nat]
  /\ expected \in [Readers -> Nat]
  /\ limit \in [Readers -> Nat]
  /\ stamp \in [1 .. 2 -> [Elements -> Nat]]

LEMMA DomainIs == LatencyInv => Domain
  <1> SUFFICES ASSUME LatencyInv PROVE Domain
    OBVIOUS
  <1>1. Stamps \subseteq Nat /\ 1 .. MaxSequence + 1 \subseteq Nat
    BY ScenarioIs DEF LatencyInv, Stamps
  <1>2. /\ BurstSize \in Nat /\ BurstSize > 0
        /\ CallSize \in Nat /\ CallSize > 0 /\ CallSize < Capacity
    BY ScenarioIs, LatencyAssumption DEF LatencyInv
  <1>3. /\ element \in [Elements -> Nat]
        /\ stamp \in [1 .. 2 -> [Elements -> Nat]]
    <2>1. element \in [Elements -> Stamps] /\ stamp \in [1 .. 2 -> [Elements -> Stamps]]
      BY DEF LatencyInv, TypeOK
    <2>2. element \in [Elements -> Nat]
      BY <1>1, <2>1
    <2>3. stamp \in [1 .. 2 -> [Elements -> Nat]]
      BY <1>1, <2>1
    <2> QED
      BY <2>2, <2>3
  <1>4. /\ seq \in Nat /\ published \in Nat /\ row \in Nat /\ t0 \in Nat
        /\ position \in [Readers -> Nat]
        /\ expected \in [Readers -> Nat]
        /\ limit \in [Readers -> Nat]
    BY <1>1, ScenarioIs DEF LatencyInv, TypeOK
  <1> QED
    BY <1>2, <1>3, <1>4, ScenarioIs DEF LatencyInv, Domain

SameScenario ==
  /\ scenario' = scenario
  /\ CallSize' = CallSize
  /\ LastStage' = LastStage
  /\ Leaves' = Leaves
  /\ InStage(1)' = InStage(1)

LEMMA ScenarioKept == scenario' = scenario => SameScenario
  BY DEF SameScenario, CallSize, LastStage, Leaves, InStage

LEMMA InitLatencyInv == Init => LatencyInv
  <1> SUFFICES ASSUME Init PROVE LatencyInv
    OBVIOUS
  <1> USE DEF Init
  <1>1. TypeOK
    <2>1. Capacity \in Nat /\ MaxSequence \in Nat /\ BurstSize \in Nat
      BY LatencyAssumption
    <2>2. 0 \in Stamps /\ 1 \in 1 .. MaxSequence + 1 /\ 0 \in 0 .. BurstSize
      BY <2>1 DEF Stamps
    <2>3. /\ element \in [Elements -> Stamps]
          /\ stamp \in [1 .. 2 -> [Elements -> Stamps]]
      BY <2>2 DEF Elements
    <2>4. merged \in [Readers -> Stamps \cup {NotMerged}] /\ row \in 0 .. Capacity
      BY <2>1
    <2>5. /\ expected \in [Readers -> 1 .. MaxSequence + 1]
          /\ limit \in [Readers -> 0 .. MaxSequence]
          /\ position \in [Readers -> 0 .. MaxSequence]
      BY <2>2 DEF Stamps
    <2>6. {seq, published} \subseteq 0 .. MaxSequence /\ t0 \in Stamps
      BY <2>2 DEF Stamps
    <2> HIDE DEF Stamps
    <2> QED
      BY <2>2, <2>3, <2>4, <2>5, <2>6 DEF TypeOK
  <1>2. SetupInv
    BY DEF SetupInv
  <1>3. ReaderInv
    BY DEF ReaderInv, InStage
  <1>4. ElementInv
    BY DEF ElementInv
  <1>5. ProducerInv
    BY <1>1, ScenarioIs DEF ProducerInv, Leaves, InStage
  <1>6. StampInv
    BY <1>1, ScenarioIs DEF StampInv, Elements
  <1>7. ResultInv /\ MergeComplete
    BY DEF ResultInv, MergeComplete
  <1> QED
    BY <1>1, <1>2, <1>3, <1>4, <1>5, <1>6, <1>7 DEF LatencyInv

-----------------------------------------------------------------------------
(* Every action keeps LatencyInv.                                          *)

(* The steps at which the producer writes nothing. *)
LEMMA AnnounceKeeps ==
  ASSUME LatencyInv, Fire \/ ReturnAtDeadline \/ Unstall \/ Resume
  PROVE  LatencyInv'
  <1>0. Domain /\ SameScenario
    BY DomainIs, ScenarioKept
       DEF Fire, ReturnAtDeadline, Unstall, Resume, Produce, producerOnly
  <1> USE <1>0 DEF Domain, SameScenario, LatencyInv, Fire, ReturnAtDeadline,
           Unstall, Resume, Produce, producerOnly, readerVars, resultVars
  <1>1. TypeOK'
    <2>1. left' \in 0 .. BurstSize
      BY DEF TypeOK
    <2> QED
      BY <2>1 DEF TypeOK
  <1>2. SetupInv'
    BY DEF SetupInv
  <1>3. ProducerInv'
    BY DEF ProducerInv, HasRoom
  <1>4. ResultInv'
    BY DEF ResultInv
  <1>5. ReaderInv' /\ ElementInv' /\ StampInv' /\ MergeComplete'
    BY DEF ReaderInv, ElementInv, StampInv, MergeComplete
  <1> QED
    BY <1>1, <1>2, <1>3, <1>4, <1>5

LEMMA FillKeeps ==
  ASSUME LatencyInv, Fill
  PROVE  LatencyInv'
  <1>0. Domain /\ SameScenario
    BY DomainIs, ScenarioKept DEF Fill, Produce, producerOnly
  <1> USE <1>0 DEF Domain, SameScenario, LatencyInv, Fill, Produce,
           producerOnly, readerVars, resultVars
  <1>1. TypeOK'
    <2>1. seq + 1 \in 0 .. MaxSequence
      BY DEF ProducerInv
    <2>2. element' \in [Elements -> Stamps]
      BY <2>1 DEF TypeOK, Stamps
    <2>3. {seq, published}' \subseteq 0 .. MaxSequence
      BY <2>1 DEF TypeOK
    <2> QED
      BY <2>2, <2>3 DEF TypeOK
  <1>2. ProducerInv'
    BY DEF ProducerInv
  <1>3. ElementInv'
    <2> SUFFICES ASSUME NEW q \in 1 .. seq + 1, seq + 1 - Capacity < q
                 PROVE  element'[Index(q)] = q
      BY DEF ElementInv
    <2>1. q \in Nat /\ Index(q) \in Elements /\ Index(seq + 1) \in Elements
      BY IndexRange
    <2>2. CASE q = seq + 1
      BY <2>1, <2>2
    <2>3. CASE q # seq + 1
      <3>1. Index(q) # Index(seq + 1)
        BY <2>1, <2>3, IndexDistinct
      <3>2. element[Index(q)] = q
        BY <2>1, <2>3 DEF ElementInv
      <3> QED
        BY <2>1, <3>1, <3>2
    <2> QED
      BY <2>2, <2>3
  <1>4. SetupInv' /\ ReaderInv' /\ StampInv' /\ ResultInv' /\ MergeComplete'
    BY DEF SetupInv, ReaderInv, StampInv, ResultInv, MergeComplete
  <1> QED
    BY <1>1, <1>2, <1>3, <1>4

LEMMA CommitKeeps ==
  ASSUME LatencyInv, Commit
  PROVE  LatencyInv'
  <1>0. Domain /\ SameScenario
    BY DomainIs, ScenarioKept DEF Commit, Produce, producerOnly
  <1> USE <1>0 DEF Domain, SameScenario, LatencyInv, Commit, Produce,
           producerOnly, readerVars, resultVars
  <1>1. TypeOK'
    <2>1. published' \in 0 .. MaxSequence
      BY DEF ProducerInv
    <2>2. left' \in 0 .. BurstSize
      BY DEF TypeOK
    <2> QED
      BY <2>1, <2>2 DEF TypeOK
  <1>2. ProducerInv'
    BY DEF ProducerInv
  <1>3. ReaderInv'
    BY DEF ReaderInv
  <1>4. StampInv'
    BY DEF StampInv
  <1>5. SetupInv' /\ ElementInv' /\ ResultInv' /\ MergeComplete'
    BY DEF SetupInv, ElementInv, ResultInv, MergeComplete
  <1> QED
    BY <1>1, <1>2, <1>3, <1>4, <1>5

(* The steps of Run that only change the phase, and the deadline. *)
LEMMA PhaseKeeps ==
  ASSUME LatencyInv, StartProducer \/ Deadline \/ Drain \/ PairsRead
  PROVE  LatencyInv'
  <1>0. Domain /\ SameScenario
    BY DomainIs, ScenarioKept DEF StartProducer, Deadline, Drain, PairsRead
  <1> USE <1>0 DEF Domain, SameScenario, LatencyInv, StartProducer, Deadline,
           Drain, PairsRead, producerVars, readerVars, resultVars
  <1>1. TypeOK'
    BY DEF TypeOK
  <1>2. SetupInv'
    BY DEF SetupInv
  <1>3. ProducerInv'
    BY DEF ProducerInv
  <1>4. ResultInv'
    BY DEF ResultInv
  <1>5. ReaderInv' /\ ElementInv' /\ StampInv' /\ MergeComplete'
    BY DEF ReaderInv, ElementInv, StampInv, MergeComplete
  <1> QED
    BY <1>1, <1>2, <1>3, <1>4, <1>5

LEMMA CancelKeeps ==
  ASSUME LatencyInv, Cancel
  PROVE  LatencyInv'
  <1>0. Domain /\ SameScenario
    BY DomainIs, ScenarioKept DEF Cancel
  <1> USE <1>0 DEF Domain, SameScenario, LatencyInv, Cancel, producerVars,
           readerVars, resultVars
  <1>1. TypeOK'
    BY DEF TypeOK
  <1>2. ResultInv'
    BY DEF ResultInv, LastStage, InStage
  <1>3. MergeComplete'
    BY DEF MergeComplete, ResultInv, Leaves, InStage
  <1>4. SetupInv' /\ ProducerInv' /\ ReaderInv' /\ ElementInv' /\ StampInv'
    BY DEF SetupInv, ProducerInv, ReaderInv, ElementInv, StampInv
  <1> QED
    BY <1>1, <1>2, <1>3, <1>4

LEMMA ReadT0Keeps ==
  ASSUME LatencyInv, ReadT0
  PROVE  LatencyInv'
  <1>0. Domain /\ SameScenario
    BY DomainIs, ScenarioKept DEF ReadT0
  <1> USE <1>0 DEF Domain, SameScenario, LatencyInv, ReadT0, producerVars,
           readerVars, resultVars
  <1>1. TypeOK'
    <2>1. stamp[1][row] \in Stamps
      BY DEF TypeOK, Elements
    <2> QED
      BY <2>1 DEF TypeOK
  <1>2. ResultInv'
    BY DEF ResultInv
  <1>3. SetupInv' /\ ProducerInv' /\ ReaderInv' /\ ElementInv' /\
       StampInv' /\ MergeComplete'
    BY DEF SetupInv, ProducerInv, ReaderInv, ElementInv, StampInv,
           MergeComplete
  <1> QED
    BY <1>1, <1>2, <1>3

LEMMA ReadT1Keeps ==
  ASSUME LatencyInv, ReadT1
  PROVE  LatencyInv'
  <1>0. Domain /\ SameScenario
    BY DomainIs, ScenarioKept DEF ReadT1
  <1> USE <1>0 DEF Domain, SameScenario, LatencyInv, ReadT1, producerVars,
           readerVars, resultVars
  <1>1. TypeOK'
    <2>1. row' \in 0 .. Capacity /\ t0' \in Stamps
      BY DEF TypeOK, Stamps
    <2> QED
      BY <2>1 DEF TypeOK
  <1>2. ResultInv'
    BY DEF ResultInv
  <1>3. SetupInv' /\ ProducerInv' /\ ReaderInv' /\ ElementInv' /\
       StampInv' /\ MergeComplete'
    BY DEF SetupInv, ProducerInv, ReaderInv, ElementInv, StampInv,
           MergeComplete
  <1> QED
    BY <1>1, <1>2, <1>3

LEMMA PollKeeps ==
  ASSUME LatencyInv, NEW r \in Readers, Poll(r)
  PROVE  LatencyInv'
  <1>0. Domain /\ SameScenario
    BY DomainIs, ScenarioKept DEF Poll, readerOnly
  <1> USE <1>0 DEF Domain, SameScenario, LatencyInv, Poll, Read, readerOnly,
           producerVars, resultVars
  <1>1. TypeOK'
    BY DEF TypeOK
  <1>2. SetupInv'
    <2>1. \A u \in Readers : u # r => rpc'[u] = rpc[u]
      BY DEF TypeOK
    <2> QED
      BY <2>1 DEF SetupInv
  <1>3. ReaderInv'
    <2>1. \A u \in Readers :
            rpc'[u] = rpc[u] \/ (rpc'[u] # "read" /\ rpc'[u] # "store")
      BY DEF TypeOK
    <2> HIDE DEF Read, Poll
    <2>2. /\ expected' = expected /\ limit' = limit /\ position' = position
          /\ recorded' = recorded /\ published' = published /\ scenario' = scenario
      BY DEF Poll
    <2> QED
      BY <2>1, <2>2 DEF ReaderInv
  <1>4. ProducerInv' /\ ElementInv' /\ StampInv' /\ ResultInv' /\
       MergeComplete'
    BY DEF ProducerInv, ElementInv, StampInv, ResultInv, MergeComplete
  <1> QED
    BY <1>1, <1>2, <1>3, <1>4

LEMMA LoadBarrierKeeps ==
  ASSUME LatencyInv, NEW r \in Readers, LoadBarrier(r)
  PROVE  LatencyInv'
  <1>0. Domain /\ SameScenario
    BY DomainIs, ScenarioKept DEF LoadBarrier, readerOnly
  <1> USE <1>0 DEF Domain, SameScenario, LatencyInv, LoadBarrier, Read,
           readerOnly, producerVars, resultVars
  <1>1. TypeOK'
    <2>1. Barrier(r) \in 0 .. MaxSequence
      BY BarrierIs DEF TypeOK
    <2> QED
      BY <2>1 DEF TypeOK
  <1>2. ReaderInv'
    BY BarrierIs DEF ReaderInv, InStage
  <1>3. SetupInv' /\ ProducerInv' /\ ElementInv' /\ StampInv' /\
       ResultInv' /\ MergeComplete'
    BY DEF SetupInv, ProducerInv, ElementInv, StampInv, ResultInv,
           MergeComplete
  <1> QED
    BY <1>1, <1>2, <1>3

(* Whether RecordConsume drops the measurement or not. *)
LEMMA RecordedBound ==
  ASSUME NEW r \in Readers, RecordConsume(r), recorded \in [Readers -> Stamps]
  PROVE  /\ recorded' \in [Readers -> Nat]
         /\ recorded'[r] <= recorded[r] + 1
         /\ \A u \in Readers \ {r} : recorded'[u] = recorded[u]
  BY LatencyAssumption DEF RecordConsume, Stamps

LEMMA RecordKeeps ==
  ASSUME LatencyInv, NEW r \in Readers, Record(r)
  PROVE  LatencyInv'
  <1>0. Domain /\ SameScenario
    BY DomainIs, ScenarioKept DEF Record, readerOnly
  <1> USE <1>0 DEF Domain, SameScenario, LatencyInv, Record, Read,
           readerOnly, producerVars, resultVars
  <1>1. TypeOK'
    <2>1. expected[r] \in 0 .. MaxSequence
      BY DEF ReaderInv, TypeOK
    <2>2. recorded' \in [Readers -> Stamps]
      <3>1. \A u \in Readers : recorded[u] \in Stamps /\ recorded[u] < expected[u]
        BY DEF ReaderInv, TypeOK
      <3>2. recorded[r] + 1 \in Stamps
        BY <2>1, <3>1 DEF Stamps
      <3> QED
        BY <3>1, <3>2 DEF RecordConsume, TypeOK
    <2>3. stamp' \in [1 .. 2 -> [Elements -> Stamps]]
      BY <2>1 DEF TypeOK, Stamps
    <2>4. expected' \in [Readers -> 1 .. MaxSequence + 1]
      BY <2>1 DEF TypeOK
    <2> QED
      BY <2>2, <2>3, <2>4 DEF TypeOK
  <1>2. ReaderInv'
    <2>1. \A u \in Readers \ {r} : expected'[u] = expected[u] /\ rpc'[u] = rpc[u]
      BY DEF TypeOK
    <2>2. /\ expected'[r] = expected[r] + 1
          /\ rpc'[r] = "store" \/ (rpc'[r] = "read" /\ expected[r] # limit[r])
      BY DEF TypeOK
    <2>3. /\ limit' = limit /\ position' = position /\ published' = published
          /\ rpc[r] = "read"
      OBVIOUS
    <2>4. /\ recorded \in [Readers -> Nat] /\ recorded'[r] <= recorded[r] + 1
          /\ recorded' \in [Readers -> Nat]
          /\ \A u \in Readers \ {r} : recorded'[u] = recorded[u]
      BY LatencyAssumption, RecordedBound DEF TypeOK, Stamps
    <2> HIDE DEF Record, Read
    <2> SUFFICES ASSUME NEW u \in Readers
                 PROVE  /\ position[u] < expected'[u]
                        /\ recorded'[u] < expected'[u]
                        /\ expected'[u] <= limit[u] + 1
                        /\ rpc'[u] = "read" => expected'[u] <= limit[u]
                        /\ rpc'[u] = "store" => position[u] < expected'[u] - 1
      BY <2>3 DEF ReaderInv
    <2>5. CASE u = r
      BY <2>2, <2>3, <2>4, <2>5 DEF ReaderInv
    <2>6. CASE u # r
      BY <2>1, <2>4, <2>6 DEF ReaderInv
    <2> QED
      BY <2>5, <2>6
  <1>3. StampInv'
    <2> DEFINE e == expected[r]
               k == scenario.stageOf[r]
    <2>1. e \in Nat /\ e <= published /\ position[r] < e /\ k \in 1 .. 2
      BY DEF ReaderInv
    <2>2. Index(e) \in Elements
      BY <2>1, IndexRange
    <2>3. /\ stamp'[k][Index(e)] = e
          /\ \A j \in 1 .. 2, i \in Elements :
               <<j, i>> # <<k, Index(e)>> => stamp'[j][i] = stamp[j][i]
      BY <2>1, <2>2
    <2>4. \A j \in 1 .. 2, i \in Elements :
            stamp'[j][i] # 0
              => Index(stamp'[j][i]) = i /\ stamp'[j][i] <= published
      BY <2>1, <2>3 DEF StampInv
    <2>5. ASSUME NEW u \in Readers, NEW q \in 1 .. expected'[u] - 1
          PROVE  q <= stamp'[scenario.stageOf[u]][Index(q)]
      <3>1. q \in Nat /\ Index(q) \in Elements /\ scenario.stageOf[u] \in 1 .. 2
        BY <2>5, IndexRange
      <3>2. CASE u = r /\ q = e
        BY <2>1, <2>3, <3>2
      <3>3. CASE ~(u = r /\ q = e)
        <4>1. q \in 1 .. expected[u] - 1
          BY <2>5, <3>3
        <4>2. CASE scenario.stageOf[u] = k /\ Index(q) = Index(e)
          <5>1. q < e + Capacity
            BY <2>1, <3>1, <4>1, LapBound DEF ReaderInv
          <5>2. ~(e < q)
            BY <2>1, <3>1, <4>2, <5>1, IndexDistinct
          <5> QED
            BY <2>1, <2>3, <3>1, <4>2, <5>2
        <4>3. CASE ~(scenario.stageOf[u] = k /\ Index(q) = Index(e))
          BY <2>3, <3>1, <4>1, <4>3 DEF StampInv
        <4> QED
          BY <4>2, <4>3
      <3> QED
        BY <3>2, <3>3
    <2> QED
      BY <2>4, <2>5 DEF StampInv
  <1>4. ResultInv' /\ MergeComplete'
    <2>1. ~drained
      BY DEF ResultInv, ReaderInv
    <2> QED
      BY <2>1 DEF ResultInv, MergeComplete
  <1>5. SetupInv' /\ ProducerInv' /\ ElementInv'
    BY DEF SetupInv, ProducerInv, ElementInv
  <1> QED
    BY <1>1, <1>2, <1>3, <1>4, <1>5

LEMMA StoreCursorKeeps ==
  ASSUME LatencyInv, NEW r \in Readers, StoreCursor(r)
  PROVE  LatencyInv'
  <1>0. Domain /\ SameScenario
    BY DomainIs, ScenarioKept DEF StoreCursor, readerOnly
  <1> USE <1>0 DEF Domain, SameScenario, LatencyInv, StoreCursor, Read,
           readerOnly, producerVars, resultVars
  <1>1. TypeOK'
    <2>1. expected[r] - 1 \in 0 .. MaxSequence
      BY DEF TypeOK
    <2> QED
      BY <2>1 DEF TypeOK
  <1>2. ProducerInv'
    <2>1. \A u \in Readers : position[u] <= position'[u]
      BY DEF ReaderInv
    <2>2. \A n \in Nat, u \in Leaves :
            n < position[u] + Capacity => n < position'[u] + Capacity
      BY <2>1 DEF Leaves, InStage
    <2> QED
      BY <2>2 DEF ProducerInv
  <1>3. ReaderInv'
    <2>1. \A u \in Readers \ {r} : position'[u] = position[u] /\ rpc'[u] = rpc[u]
      BY DEF TypeOK
    <2>2. /\ position'[r] = expected[r] - 1 /\ position[r] < expected[r] - 1
          /\ rpc'[r] = "poll" \/ (rpc'[r] = "read" /\ expected[r] <= limit[r])
      BY DEF TypeOK, ReaderInv
    <2>3. /\ expected' = expected /\ limit' = limit /\ published' = published
          /\ recorded' = recorded
      OBVIOUS
    <2> HIDE DEF StoreCursor, Read
    <2>4. \A u \in Readers : position[u] <= position'[u]
      BY <2>1, <2>2
    <2>5. ASSUME NEW u \in Readers
          PROVE  /\ position'[u] < expected[u]
                 /\ rpc'[u] = "read" => expected[u] <= limit[u]
                 /\ rpc'[u] = "store" => position'[u] < expected[u] - 1
      <3>1. CASE u = r
        BY <2>2, <3>1
      <3>2. CASE u # r
        BY <2>1, <3>2 DEF ReaderInv
      <3> QED
        BY <3>1, <3>2
    <2>6. ASSUME NEW u \in Readers, NEW v \in InStage(1), scenario.stageOf[u] = 2
          PROVE  limit[u] <= position'[v]
      <3>1. v \in Readers /\ limit[u] <= position[v] /\ position[v] <= position'[v]
        BY <2>4, <2>6 DEF ReaderInv, InStage
      <3>2. position'[v] \in Int
        BY <2>1, <2>2, <3>1
      <3> QED
        BY <3>1, <3>2
    <2> QED
      BY <2>3, <2>5, <2>6 DEF ReaderInv
  <1>4. ResultInv'
    <2>1. ~drained
      BY DEF ResultInv, ReaderInv
    <2> QED
      BY <2>1 DEF ResultInv
  <1>5. SetupInv' /\ ElementInv' /\ StampInv' /\ MergeComplete'
    BY DEF SetupInv, ElementInv, StampInv, MergeComplete
  <1> QED
    BY <1>1, <1>2, <1>3, <1>4, <1>5

LEMMA RegisterKeeps ==
  ASSUME LatencyInv, NEW r \in Readers, Register(r)
  PROVE  LatencyInv'
  <1>0. Domain /\ SameScenario
    BY DomainIs, ScenarioKept DEF Register
  <1> USE <1>0 DEF Domain, SameScenario, LatencyInv, Register, producerVars,
           readerVars, resultVars
  <1>1. TypeOK'
    BY DEF TypeOK
  <1>2. SetupInv' /\ ProducerInv' /\ ReaderInv' /\ ElementInv' /\
       StampInv' /\ ResultInv' /\ MergeComplete'
    BY DEF SetupInv, ProducerInv, ReaderInv, ElementInv, StampInv, ResultInv,
           MergeComplete
  <1> QED
    BY <1>1, <1>2

LEMMA MergeKeeps ==
  ASSUME LatencyInv, NEW r \in Readers, Merge(r)
  PROVE  LatencyInv'
  <1>0. Domain /\ SameScenario
    BY DomainIs, ScenarioKept DEF Merge
  <1> USE <1>0 DEF Domain, SameScenario, LatencyInv, Merge, producerVars,
           readerVars, resultVars
  <1>1. TypeOK'
    <2>1. recorded[r] \in Stamps
      BY DEF TypeOK
    <2> QED
      BY <2>1 DEF TypeOK
  <1>2. ResultInv'
    BY DEF ResultInv
  <1>3. MergeComplete'
    <2>1. drained => expected[r] - 1 = published
      BY DEF ResultInv, ReaderInv
    <2> QED
      BY <2>1 DEF MergeComplete, ResultInv, TypeOK
  <1>4. SetupInv' /\ ProducerInv' /\ ReaderInv' /\ ElementInv' /\ StampInv'
    BY DEF SetupInv, ProducerInv, ReaderInv, ElementInv, StampInv
  <1> QED
    BY <1>1, <1>2, <1>3, <1>4

LEMMA ProducerKeeps ==
  ASSUME LatencyInv, Fire \/ ReturnAtDeadline \/ ProducerStep
  PROVE  LatencyInv'
  BY AnnounceKeeps, FillKeeps, CommitKeeps DEF ProducerStep

LEMMA ReaderStepKeeps ==
  ASSUME LatencyInv, NEW r \in Readers, ReaderStep(r)
  PROVE  LatencyInv'
  BY PollKeeps, LoadBarrierKeeps, RecordKeeps, StoreCursorKeeps DEF ReaderStep

LEMMA RunStepKeeps ==
  ASSUME LatencyInv, RunStep
  PROVE  LatencyInv'
  BY PhaseKeeps, CancelKeeps, ReadT0Keeps, ReadT1Keeps, RegisterKeeps, MergeKeeps
     DEF RunStep

LEMMA StutterKeeps ==
  ASSUME LatencyInv, UNCHANGED vars
  PROVE  LatencyInv'
  <1> USE DEF vars, producerVars, readerVars, resultVars, LatencyInv
  <1>1. SameScenario
    BY ScenarioKept
  <1>2. TypeOK' /\ SetupInv' /\ ReaderInv'
    BY <1>1 DEF SameScenario, TypeOK, SetupInv, ReaderInv
  <1>3. ProducerInv' /\ ElementInv' /\ StampInv'
    BY <1>1 DEF SameScenario, ProducerInv, ElementInv, StampInv
  <1>4. ResultInv' /\ MergeComplete'
    BY <1>1 DEF SameScenario, ResultInv, MergeComplete
  <1> QED
    BY <1>2, <1>3, <1>4

-----------------------------------------------------------------------------
(* The theorems.                                                           *)

(* LatencyInvHolds: Run and RunPipeline, with any number of readers, slow  *)
(* ones among them, any ring and any producer, keep the producer less than *)
(* a lap ahead of both stages, and what the elements, the stamps and the   *)
(* histograms hold agrees with the cursors at every step.                  *)
THEOREM LatencyInvHolds == Spec => []LatencyInv
  <1>1. LatencyInv /\ [Next]_vars => LatencyInv'
    BY ProducerKeeps, ReaderStepKeeps, RunStepKeeps, PhaseKeeps, StutterKeeps
       DEF Next
  <1> QED
    BY InitLatencyInv, <1>1, PTL DEF Spec

(* LatencyTypeCorrect: the variables of a run stay in their types; no      *)
(* cursor and no stamp passes the last sequence a producer may publish.    *)
THEOREM LatencyTypeCorrect == Spec => []TypeOK
  <1>1. LatencyInv => TypeOK
    BY DEF LatencyInv
  <1> QED
    BY <1>1, LatencyInvHolds, PTL

(* MergeCompleteHolds: when the readers had drained the ring before they   *)
(* were cancelled, buildResult misses nothing: each recorder it merges has *)
(* seen every event published, and what RecordConsume has kept of them is  *)
(* all there, whatever the readers are still doing.                        *)
THEOREM MergeCompleteHolds == Spec => []MergeComplete
  <1>1. LatencyInv => MergeComplete
    BY DEF LatencyInv
  <1> QED
    BY <1>1, LatencyInvHolds, PTL

(* The sequences of a batch, from below and from above. *)
LEMMA BatchBounds ==
  ASSUME LatencyInv, NEW r \in Readers, NEW q \in Batch(r)
  PROVE  /\ q \in Nat /\ position[r] < q /\ expected[r] <= q
         /\ q <= limit[r] /\ q <= published
         /\ Ahead < q + Capacity
  <1>1. Domain
    BY DomainIs
  <1>2. q \in expected[r] .. limit[r]
    BY DEF Batch
  <1> QED
    BY <1>1, <1>2, LapBound DEF Domain, LatencyInv, ReaderInv

(* ReadIntactHolds: no element of a batch is written over before its       *)
(* reader has recorded it, in either stage.                                *)
THEOREM ReadIntactHolds == Spec => []ReadIntact
  <1>1. LatencyInv => ReadIntact
    <2> SUFFICES ASSUME LatencyInv, NEW r \in Readers, NEW q \in Batch(r)
                 PROVE  element[Index(q)] = q
      BY DEF ReadIntact
    <2>1. q \in 1 .. seq /\ seq - Capacity < q
      BY DomainIs, BatchBounds, LapBound DEF Domain
    <2> QED
      BY <2>1 DEF LatencyInv, ElementInv
  <1> QED
    BY <1>1, LatencyInvHolds, PTL

(* StampSurvivesHolds: the array of stamps beside the ring has no more     *)
(* elements than the ring, and no stamp of the first stage is replaced     *)
(* while a reader of the second has the event's own still to write.        *)
THEOREM StampSurvivesHolds == Spec => []StampSurvives
  <1>1. LatencyInv => StampSurvives
    <2> SUFFICES ASSUME LatencyInv, NEW r \in InStage(2), NEW q \in Batch(r)
                 PROVE  stamp[1][Index(q)] = q
      BY DEF StampSurvives
    <2> USE DomainIs DEF Domain
    <2>1. r \in Readers /\ scenario.stageOf[r] = 2
      BY DEF InStage
    <2>2. PICK u \in Readers : scenario.stageOf[u] = 1
      BY ScenarioIs DEF LatencyInv
    <2>3. /\ q \in Nat /\ 0 < q /\ q <= limit[r]
          /\ published < q + Capacity
          /\ Index(q) \in Elements
      BY <2>1, BatchBounds, LapBound, IndexRange
    <2>4. q \in 1 .. expected[u] - 1
      <3>1. limit[r] <= position[u] /\ position[u] < expected[u]
        BY <2>1, <2>2 DEF LatencyInv, ReaderInv, InStage
      <3> QED
        BY <2>1, <2>2, <2>3, <3>1
    <2> DEFINE p == stamp[1][Index(q)]
    <2>5. p \in Nat /\ q <= p
      BY <2>2, <2>3, <2>4 DEF LatencyInv, StampInv
    <2>6. Index(p) = Index(q) /\ p <= published
      BY <2>3, <2>5 DEF LatencyInv, StampInv
    <2>7. ~(q < p)
      <3> SUFFICES ASSUME q < p PROVE FALSE
        OBVIOUS
      <3>1. p < q + Capacity
        BY <2>3, <2>5, <2>6
      <3> QED
        BY <2>3, <2>5, <2>6, <3>1, IndexDistinct
    <2> QED
      BY <2>3, <2>5, <2>7
  <1> QED
    BY <1>1, LatencyInvHolds, PTL

(* PairsOneEventHolds: after a sleep that was long enough, the two stamps  *)
(* RunPipeline subtracts are of one event: both are the last of their      *)
(* element that was published.                                             *)
THEOREM PairsOneEventHolds == Spec => []PairsOneEvent
  <1>1. LatencyInv => PairsOneEvent
    <2> SUFFICES ASSUME LatencyInv, phase = "pair", drained, t0 # 0
                 PROVE  stamp[2][row] = t0
      BY DEF PairsOneEvent
    <2> USE DomainIs DEF Domain
    <2>1. /\ row \in Elements /\ t0 = stamp[1][row] /\ LastStage = 2
          /\ \A u \in Readers : position[u] = published
      BY DEF LatencyInv, ResultInv, Elements
    <2>2. Index(t0) = row /\ 0 < t0 /\ t0 <= published
      BY <2>1 DEF LatencyInv, StampInv
    <2>3. PICK r \in Readers : scenario.stageOf[r] = 2
      BY <2>1 DEF LastStage
    <2>4. /\ t0 \in 1 .. expected[r] - 1
      BY <2>1, <2>2, <2>3 DEF LatencyInv, ReaderInv
    <2> DEFINE p == stamp[2][row]
    <2>5. p \in Nat /\ t0 <= p
      BY <2>1, <2>2, <2>3, <2>4 DEF LatencyInv, StampInv
    <2>6. Index(p) = row /\ p <= published
      BY <2>1, <2>2, <2>5 DEF LatencyInv, StampInv
    <2>7. ~(t0 < p)
      <3> SUFFICES ASSUME t0 < p PROVE FALSE
        OBVIOUS
      <3>1. PICK u \in Readers : scenario.stageOf[u] = 1
        BY ScenarioIs DEF LatencyInv
      <3>2. p \in 1 .. expected[u] - 1
        BY <2>1, <2>5, <2>6, <3>1 DEF LatencyInv, ReaderInv
      <3>3. p <= stamp[1][Index(p)]
        BY <3>1, <3>2 DEF LatencyInv, StampInv
      <3> QED
        BY <2>1, <2>2, <2>5, <2>6, <3>3
    <2> QED
      BY <2>5, <2>7
  <1> QED
    BY <1>1, LatencyInvHolds, PTL

-----------------------------------------------------------------------------
(* The refinement: a run is a broadcast to the readers of its last stage.  *)

Members  == registered \cap Leaves
Consumed == [r \in Readers |-> IF r \in Leaves THEN position[r] ELSE 0]

LEMMA InitBroadcasts == Init => Broadcast!BroadcastInit
  BY DEF Init, Broadcast!BroadcastInit

(* A call publishes what fits behind every reader of the last stage. *)
LEMMA CommitBroadcasts ==
  ASSUME LatencyInv, Commit
  PROVE  Broadcast!PublishBatch
  <1>1. Domain /\ SameScenario
    BY DomainIs, ScenarioKept DEF Commit, producerOnly
  <1>2. \A r \in Leaves : published + CallSize < position[r] + Capacity
    BY DEF LatencyInv, ProducerInv, Commit, Produce
  <1>3. \A r \in Members : published + CallSize < Consumed[r] + Capacity
    BY <1>2 DEF Members, Consumed, Leaves, InStage
  <1>4. CallSize \in 1 .. Capacity - 1 /\ published' = published + CallSize
    BY <1>1 DEF Domain, Commit
  <1>5. Members' = Members /\ Consumed' = Consumed
    BY <1>1 DEF SameScenario, Members, Consumed, Commit, producerOnly, readerVars
  <1> QED
    BY <1>3, <1>4, <1>5 DEF Broadcast!PublishBatch, Members, Consumed

(* A reader joins at the writer's position, which is that of an empty ring. *)
LEMMA RegisterBroadcasts ==
  ASSUME LatencyInv, NEW r \in Readers, Register(r)
  PROVE  \/ Broadcast!Join(r)
         \/ UNCHANGED Broadcast!broadcastVars
  <1>1. Domain /\ SameScenario
    BY DomainIs, ScenarioKept DEF Register
  <1>2. /\ published = 0 /\ published' = published /\ position[r] = 0
        /\ registered' = registered \cup {r} /\ position' = position
    BY DEF Register, producerVars, LatencyInv, SetupInv
  <1>3. Consumed' = Consumed
    BY <1>1, <1>2 DEF SameScenario, Consumed
  <1>4. CASE r \in Leaves
    <2>1. r \notin Members /\ Members' = Members \cup {r}
      BY <1>1, <1>2, <1>4 DEF SameScenario, Members, Register
    <2>2. Consumed' = [Consumed EXCEPT ![r] = published]
      BY <1>2, <1>3, <1>4 DEF Consumed
    <2> QED
      BY <1>2, <2>1, <2>2 DEF Broadcast!Join, Members, Consumed
  <1>5. CASE r \notin Leaves
    <2>1. Members' = Members
      BY <1>1, <1>2, <1>5 DEF SameScenario, Members
    <2> QED
      BY <1>2, <1>3, <2>1 DEF Broadcast!broadcastVars, Members, Consumed
  <1> QED
    BY <1>4, <1>5

(* A stored cursor is further than the last one, and behind what is        *)
(* published.                                                              *)
LEMMA StoreCursorBroadcasts ==
  ASSUME LatencyInv, NEW r \in Readers, StoreCursor(r)
  PROVE  \/ Broadcast!Consume(r)
         \/ UNCHANGED Broadcast!broadcastVars
  <1>1. Domain /\ SameScenario
    BY DomainIs, ScenarioKept DEF StoreCursor, readerOnly
  <1>2. /\ published' = published /\ registered' = registered
        /\ position' = [position EXCEPT ![r] = expected[r] - 1]
        /\ rpc[r] = "store"
    BY DEF StoreCursor, Read, readerOnly, producerVars
  <1>3. r \in registered /\ expected[r] - 1 \in position[r] + 1 .. published
    BY <1>1, <1>2 DEF Domain, LatencyInv, SetupInv, ReaderInv
  <1>4. Members' = Members
    BY <1>1, <1>2 DEF SameScenario, Members
  <1>5. CASE r \in Leaves
    <2>1. r \in Members /\ expected[r] - 1 \in Consumed[r] + 1 .. published
      BY <1>3, <1>5 DEF Members, Consumed
    <2>2. Consumed' = [Consumed EXCEPT ![r] = expected[r] - 1]
      BY <1>1, <1>2, <1>5 DEF Domain, SameScenario, Consumed
    <2> QED
      BY <1>2, <1>4, <2>1, <2>2 DEF Broadcast!Consume, Members, Consumed
  <1>6. CASE r \notin Leaves
    <2>1. Consumed' = Consumed
      BY <1>1, <1>2, <1>6 DEF Domain, SameScenario, Consumed
    <2> QED
      BY <1>2, <1>4, <2>1 DEF Broadcast!broadcastVars, Members, Consumed
  <1> QED
    BY <1>5, <1>6

(* All else is not seen by who waits for the events. *)
LEMMA UnseenBroadcasts ==
  ASSUME /\ scenario' = scenario /\ published' = published
         /\ registered' = registered /\ position' = position
  PROVE  UNCHANGED Broadcast!broadcastVars
  BY ScenarioKept DEF SameScenario, Broadcast!broadcastVars

LEMMA StepBroadcasts ==
  ASSUME LatencyInv, [Next]_vars
  PROVE  [Broadcast!BroadcastNext]_Broadcast!broadcastVars
  <1> USE DEF producerVars, readerVars, resultVars
  <1>1. CASE Commit
    BY <1>1, CommitBroadcasts DEF Broadcast!BroadcastNext
  <1>2. CASE Fire \/ ReturnAtDeadline \/ Unstall \/ Fill \/ Resume \/ Deadline
    BY <1>2, UnseenBroadcasts
       DEF Fire, ReturnAtDeadline, Unstall, Fill, Resume, Deadline, producerOnly
  <1>3. CASE StartProducer \/ Drain \/ Cancel \/ ReadT0 \/ ReadT1 \/ PairsRead
    BY <1>3, UnseenBroadcasts
       DEF StartProducer, Drain, Cancel, ReadT0, ReadT1, PairsRead
  <1>4. CASE \E r \in Readers : Register(r)
    BY <1>4, RegisterBroadcasts DEF Broadcast!BroadcastNext
  <1>5. CASE \E r \in Readers : Merge(r)
    BY <1>5, UnseenBroadcasts DEF Merge
  <1>6. CASE \E r \in Readers : StoreCursor(r)
    BY <1>6, StoreCursorBroadcasts DEF Broadcast!BroadcastNext
  <1>7. CASE \E r \in Readers : Poll(r) \/ LoadBarrier(r) \/ Record(r)
    BY <1>7, UnseenBroadcasts DEF Poll, LoadBarrier, Record, readerOnly
  <1>8. CASE UNCHANGED vars
    BY <1>8, UnseenBroadcasts DEF vars
  <1> QED
    BY <1>1, <1>2, <1>3, <1>4, <1>5, <1>6, <1>7, <1>8
       DEF Next, ProducerStep, RunStep, ReaderStep

(* OverBroadcastHolds: every run is a behaviour of the broadcast the ring  *)
(* promises: the harness, with its stages, its deadlines and its late      *)
(* readers, has no step by which a reader of the last stage is lapped or   *)
(* sees what is not published.                                             *)
THEOREM OverBroadcastHolds == Spec => OverBroadcast
  <1>1. LatencyInv /\ [Next]_vars
          => [Broadcast!BroadcastNext]_Broadcast!broadcastVars
    BY StepBroadcasts
  <1> QED
    BY InitBroadcasts, <1>1, LatencyInvHolds, PTL
       DEF Spec, OverBroadcast, Broadcast!BroadcastSpec
=============================================================================
