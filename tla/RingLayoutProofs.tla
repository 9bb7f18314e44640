-------------------------- MODULE RingLayoutProofs --------------------------
(***************************************************************************)
(* Theorems about RingLayout, for rings of every size for which & is the   *)
(* remainder.                                                              *)
(*                                                                         *)
(* The argument: put one after the other, the two segments of a range are  *)
(* the indices of its sequences, one by one (SegmentsSpan,                 *)
(* GetSegmentsSpan); a range is less than a lap long, so that these are    *)
(* different elements (RemainderDistinct), and filling one leaves the      *)
(* others as they are.                                                     *)
(***************************************************************************)
EXTENDS RingLayout, SequenceTheorems, TLAPS

-----------------------------------------------------------------------------
(* Remainders.                                                             *)

LEMMA RemainderUnique ==
  ASSUME NEW n \in Nat \ {0}, NEW a \in Nat, NEW k \in Nat, NEW m \in 0 .. n - 1,
         a = n * k + m
  PROVE  a % n = m
  <1>1. a = n * (a \div n) + (a % n) /\ a \div n \in Nat /\ a % n \in 0 .. n - 1
    OBVIOUS
  <1> DEFINE d == a \div n
             r == a % n
  <1> HIDE DEF d, r
  <1>2. n * k + m = n * d + r /\ d \in Nat /\ r \in 0 .. n - 1
    BY <1>1 DEF d, r
  <1>3. CASE k < d
    <2>1. n * (k + 1) <= n * d /\ n * (k + 1) = n * k + n
      BY <1>2, <1>3
    <2> QED
      BY <1>2, <2>1
  <1>4. CASE d < k
    <2>1. n * (d + 1) <= n * k /\ n * (d + 1) = n * d + n
      BY <1>2, <1>4
    <2> QED
      BY <1>2, <2>1
  <1> QED
    BY <1>2, <1>3, <1>4 DEF r

(* Less than a lap further, the remainder is further or has wrapped once.  *)
LEMMA RemainderStep ==
  ASSUME NEW n \in Nat \ {0}, NEW a \in Nat, NEW k \in 0 .. n - 1
  PROVE  /\ a % n \in 0 .. n - 1
         /\ (a + k) % n = IF (a % n) + k < n THEN (a % n) + k ELSE (a % n) + k - n
  <1>1. a = n * (a \div n) + (a % n) /\ a \div n \in Nat /\ a % n \in 0 .. n - 1
    OBVIOUS
  <1> DEFINE d == a \div n
             r == a % n
  <1> HIDE DEF d, r
  <1>2. a = n * d + r /\ d \in Nat /\ r \in 0 .. n - 1
    BY <1>1 DEF d, r
  <1>3. CASE r + k < n
    <2>1. a + k = n * d + (r + k) /\ r + k \in 0 .. n - 1 /\ a + k \in Nat
      BY <1>2, <1>3
    <2>2. (a + k) % n = r + k
      BY <1>2, <2>1, RemainderUnique
    <2> QED
      BY <1>2, <1>3, <2>2 DEF r
  <1>4. CASE ~(r + k < n)
    <2>1. n * (d + 1) = n * d + n
      BY <1>2
    <2>2. /\ a + k = n * (d + 1) + (r + k - n) /\ r + k - n \in 0 .. n - 1
          /\ a + k \in Nat /\ d + 1 \in Nat
      BY <1>2, <1>4, <2>1
    <2>3. (a + k) % n = r + k - n
      BY <2>2, RemainderUnique
    <2> QED
      BY <1>2, <1>4, <2>3 DEF r
  <1> QED
    BY <1>3, <1>4

LEMMA RemainderDistinct ==
  ASSUME NEW n \in Nat \ {0}, NEW a \in Nat, NEW b \in a + 1 .. a + n - 1
  PROVE  a % n # b % n
  <1>1. b - a \in 0 .. n - 1 /\ a + (b - a) = b /\ b - a # 0
    OBVIOUS
  <1>2. /\ a % n \in 0 .. n - 1
        /\ (a + (b - a)) % n = IF (a % n) + (b - a) < n
                               THEN (a % n) + (b - a) ELSE (a % n) + (b - a) - n
    BY <1>1, RemainderStep
  <1> DEFINE r == a % n
             k == b - a
  <1> HIDE DEF r, k
  <1>3. /\ k \in 1 .. n - 1 /\ r \in 0 .. n - 1
        /\ b % n = IF r + k < n THEN r + k ELSE r + k - n
    BY <1>1, <1>2 DEF r, k
  <1> QED
    BY <1>3 DEF r

-----------------------------------------------------------------------------
(* Segments.                                                               *)

LEMMA MaskIs ==
  ASSUME bufferSize \in Sizes, NEW q \in 0 .. LastSequence
  PROVE  Mask(q) = q % bufferSize
  BY LayoutAssumption DEF Mask

LEMMA SliceIs ==
  ASSUME NEW from \in Nat, NEW to \in Nat, from <= to
  PROVE  /\ Slice(from, to) \in Seq(Nat)
         /\ Len(Slice(from, to)) = to - from
         /\ \A i \in 1 .. to - from : Slice(from, to)[i] = from + i - 1
  <1>1. to - from \in Nat /\ Slice(from, to) \in [1 .. to - from -> Nat]
    BY DEF Slice
  <1> QED
    BY <1>1, SeqDef DEF Slice

LEMMA IndicesIs ==
  ASSUME bufferSize \in Nat \ {0},
         NEW from \in Nat, NEW to \in Nat, from <= to + 1
  PROVE  /\ Indices(from, to) \in Seq(Nat)
         /\ Len(Indices(from, to)) = to - from + 1
         /\ \A i \in 1 .. to - from + 1 :
              Indices(from, to)[i] = (from + i - 1) % bufferSize
  <1>1. to - from + 1 \in Nat
    OBVIOUS
  <1>2. \A i \in 1 .. to - from + 1 :
          (from + i - 1) % bufferSize \in 0 .. bufferSize - 1
    OBVIOUS
  <1>3. Indices(from, to) \in [1 .. to - from + 1 -> Nat]
    BY <1>2 DEF Indices
  <1> QED
    BY <1>1, <1>3, SeqDef DEF Indices

(* The segments of Reserve name the elements of its sequences in order.    *)
LEMMA SegmentsSpan ==
  ASSUME bufferSize \in Sizes, NEW first \in 0 .. LastSequence,
         NEW n \in 1 .. bufferSize
  PROVE  segments(first, n)[1] \o segments(first, n)[2]
           = Indices(first, first + n - 1)
  <1> DEFINE start == first % bufferSize
             both  == segments(first, n)[1] \o segments(first, n)[2]
  <1>1. /\ bufferSize \in Nat \ {0} /\ first \in Nat /\ n \in Nat
        /\ Mask(first) = start
    BY MaskIs, LayoutAssumption
  <1>2. start \in 0 .. bufferSize - 1
    BY <1>1, RemainderStep
  <1> HIDE DEF start
  <1>r. ASSUME NEW i \in 1 .. n
        PROVE  (first + i - 1) % bufferSize =
                 IF start + i - 1 < bufferSize
                 THEN start + i - 1 ELSE start + i - 1 - bufferSize
    <2> DEFINE k == i - 1
    <2>1. k \in 0 .. bufferSize - 1
      BY <1>1
    <2>2. first + i - 1 = first + k /\ start + i - 1 = start + k
      BY <1>1, <1>2
    <2> HIDE DEF k
    <2>3. (first + k) % bufferSize =
            IF start + k < bufferSize THEN start + k ELSE start + k - bufferSize
      BY <1>1, <2>1, RemainderStep DEF start
    <2> QED
      BY <1>1, <1>2, <1>r, <2>1, <2>2, <2>3
  <1>3. /\ Indices(first, first + n - 1) \in Seq(Nat)
        /\ Len(Indices(first, first + n - 1)) = n
        /\ \A i \in 1 .. n :
             Indices(first, first + n - 1)[i] = (first + i - 1) % bufferSize
    <2> DEFINE to == first + n - 1
    <2>1. to \in Nat /\ first <= to + 1 /\ to - first + 1 = n
      BY <1>1
    <2> HIDE DEF to
    <2>2. /\ Indices(first, to) \in Seq(Nat)
          /\ Len(Indices(first, to)) = to - first + 1
          /\ \A i \in 1 .. to - first + 1 :
               Indices(first, to)[i] = (first + i - 1) % bufferSize
      BY <1>1, <2>1, IndicesIs
    <2> QED
      BY <2>1, <2>2 DEF to
  <1>4. /\ both \in Seq(Nat) /\ Len(both) = n
        /\ \A i \in 1 .. n : both[i] = (first + i - 1) % bufferSize
    <2>1. CASE start + n <= bufferSize
      <3>1. both = Slice(start, start + n) \o <<>>
        BY <1>1, <2>1 DEF segments
      <3>2. /\ Slice(start, start + n) \in Seq(Nat)
            /\ Len(Slice(start, start + n)) = n
            /\ \A i \in 1 .. n : Slice(start, start + n)[i] = start + i - 1
        <4> DEFINE to == start + n
        <4>1. start \in Nat /\ to \in Nat /\ start <= to /\ to - start = n
          BY <1>1, <1>2
        <4> HIDE DEF to
        <4>2. /\ Slice(start, to) \in Seq(Nat)
              /\ Len(Slice(start, to)) = to - start
              /\ \A i \in 1 .. to - start : Slice(start, to)[i] = start + i - 1
          BY <4>1, SliceIs
        <4> QED
          BY <4>1, <4>2 DEF to
      <3> QED
        <4>1. both = Slice(start, start + n)
          BY <3>1, <3>2, ConcatEmptySeq
        <4>2. \A i \in 1 .. n : start + i - 1 < bufferSize
          BY <1>1, <1>2, <2>1
        <4> QED
          BY <1>r, <3>2, <4>1, <4>2
    <2>2. CASE ~(start + n <= bufferSize)
      <3> DEFINE s1 == Slice(start, bufferSize)
                 s2 == Slice(0, n - (bufferSize - start))
      <3>1. both = s1 \o s2
        BY <1>1, <2>2 DEF segments
      <3>2. /\ s1 \in Seq(Nat) /\ Len(s1) = bufferSize - start
            /\ \A i \in 1 .. bufferSize - start : s1[i] = start + i - 1
        BY <1>1, <1>2, SliceIs
      <3>3. /\ s2 \in Seq(Nat) /\ Len(s2) = n - (bufferSize - start)
            /\ \A i \in 1 .. n - (bufferSize - start) : s2[i] = i - 1
        <4> DEFINE m == n - (bufferSize - start)
        <4>1. m \in Nat /\ 0 <= m /\ m - 0 = m
          BY <1>1, <1>2, <2>2
        <4> HIDE DEF m
        <4>2. /\ Slice(0, m) \in Seq(Nat) /\ Len(Slice(0, m)) = m
              /\ \A i \in 1 .. m : Slice(0, m)[i] = 0 + i - 1
          BY <4>1, SliceIs
        <4> QED
          BY <4>2 DEF m
      <3> HIDE DEF s1, s2
      <3>4. /\ both \in Seq(Nat) /\ Len(both) = n
            /\ \A i \in 1 .. n : both[i] = IF i <= bufferSize - start THEN s1[i]
                                           ELSE s2[i - (bufferSize - start)]
        <4>1. Len(s1) + Len(s2) = n
          BY <1>1, <1>2, <3>2, <3>3
        <4>2. /\ s1 \o s2 \in Seq(Nat) /\ Len(s1 \o s2) = Len(s1) + Len(s2)
              /\ \A i \in 1 .. Len(s1) + Len(s2) :
                   (s1 \o s2)[i] = IF i <= Len(s1) THEN s1[i] ELSE s2[i - Len(s1)]
          BY <3>2, <3>3, ConcatProperties
        <4> QED
          BY <3>1, <3>2, <4>1, <4>2
      <3>5. ASSUME NEW i \in 1 .. n
            PROVE  both[i] = (first + i - 1) % bufferSize
        <4>1. CASE i <= bufferSize - start
          <5>1. i \in 1 .. bufferSize - start /\ start + i - 1 < bufferSize
            BY <1>1, <1>2, <4>1
          <5> QED
            BY <1>r, <3>2, <3>4, <4>1, <5>1
        <4>2. CASE ~(i <= bufferSize - start)
          <5> DEFINE j == i - (bufferSize - start)
          <5>1. /\ j \in 1 .. n - (bufferSize - start)
                /\ ~(start + i - 1 < bufferSize)
                /\ j - 1 = start + i - 1 - bufferSize
            BY <1>1, <1>2, <4>2
          <5> HIDE DEF j
          <5>2. both[i] = s2[j]
            BY <3>4, <4>2 DEF j
          <5> QED
            BY <1>r, <3>3, <5>1, <5>2
        <4> QED
          BY <4>1, <4>2
      <3> QED
        BY <3>4, <3>5
    <2> QED
      BY <2>1, <2>2
  <1> HIDE DEF both
  <1>5. both = Indices(first, first + n - 1)
    BY <1>3, <1>4, SeqEqual
  <1> QED
    BY <1>5 DEF both

(* The segments of a view are those of a claim on the same sequences.      *)
LEMMA GetSegmentsSpan ==
  ASSUME bufferSize \in Sizes, NEW start \in 0 .. LastSequence,
         NEW end \in start .. LastSequence, end < start + bufferSize
  PROVE  GetSegments(start, end)[1] \o GetSegments(start, end)[2]
           = Indices(start, end)
  <1> DEFINE n == end - start + 1
             s == start % bufferSize
             e == end % bufferSize
  <1>1. /\ bufferSize \in Nat \ {0} /\ n \in 1 .. bufferSize
        /\ start \in Nat /\ end \in Nat /\ LastSequence \in Nat
    BY LayoutAssumption
  <1>2. Mask(start) = s /\ Mask(end) = e
    BY <1>1, MaskIs
  <1>3. /\ s \in 0 .. bufferSize - 1
        /\ e = IF s + (n - 1) < bufferSize
               THEN s + (n - 1) ELSE s + (n - 1) - bufferSize
    <2>1. n - 1 \in 0 .. bufferSize - 1 /\ start + (n - 1) = end
      BY <1>1
    <2> QED
      BY <1>1, <2>1, RemainderStep
  <1> HIDE DEF s, e
  <1>4. GetSegments(start, end) = segments(start, n)
    <2>1. CASE s + n <= bufferSize
      <3>1. s <= e /\ e + 1 = s + n
        BY <1>1, <1>3, <2>1
      <3> QED
        BY <1>2, <2>1, <3>1 DEF GetSegments, segments
    <2>2. CASE ~(s + n <= bufferSize)
      <3>1. ~(s <= e) /\ e + 1 = n - (bufferSize - s)
        BY <1>1, <1>3, <2>2
      <3> QED
        BY <1>2, <2>2, <3>1 DEF GetSegments, segments
    <2> QED
      BY <2>1, <2>2
  <1>5. start + n - 1 = end
    BY <1>1
  <1> QED
    BY <1>1, <1>4, <1>5, SegmentsSpan

(* What is left of a range when its first element has been dealt with.     *)
LEMMA IndicesStep ==
  ASSUME bufferSize \in Nat \ {0}, NEW from \in Nat, NEW to \in Nat, from <= to
  PROVE  /\ Indices(from, to) # <<>>
         /\ Head(Indices(from, to)) = from % bufferSize
         /\ Tail(Indices(from, to)) = Indices(from + 1, to)
         /\ Len(Tail(Indices(from, to))) = Len(Indices(from, to)) - 1
  <1> DEFINE s == Indices(from, to)
             t == Indices(from + 1, to)
  <1>1. /\ s \in Seq(Nat) /\ Len(s) = to - from + 1
        /\ \A i \in 1 .. to - from + 1 : s[i] = (from + i - 1) % bufferSize
    BY IndicesIs
  <1>2. /\ t \in Seq(Nat) /\ Len(t) = to - from
        /\ \A i \in 1 .. to - from : t[i] = (from + 1 + i - 1) % bufferSize
    <2>1. from + 1 \in Nat /\ from + 1 <= to + 1 /\ to - (from + 1) + 1 = to - from
      OBVIOUS
    <2> QED
      BY <2>1, IndicesIs
  <1> HIDE DEF s, t
  <1>3. s # <<>>
    BY <1>1
  <1>4. Head(s) = s[1] /\ s[1] = from % bufferSize
    BY <1>1, <1>3
  <1>5. /\ Tail(s) \in Seq(Nat) /\ Len(Tail(s)) = Len(s) - 1
        /\ \A i \in 1 .. Len(Tail(s)) : Tail(s)[i] = s[i + 1]
    BY <1>1, <1>3, HeadTailProperties
  <1>6. \A i \in 1 .. Len(Tail(s)) : Tail(s)[i] = t[i]
    <2> TAKE i \in 1 .. Len(Tail(s))
    <2>1. i \in 1 .. to - from /\ i + 1 \in 1 .. to - from + 1
      BY <1>1, <1>5
    <2>2. from + (i + 1) - 1 = from + 1 + i - 1
      BY <2>1
    <2> QED
      BY <1>1, <1>2, <1>5, <2>1, <2>2
  <1>7. Tail(s) = t
    <2>1. Len(Tail(s)) = Len(t)
      BY <1>1, <1>2, <1>5
    <2> QED
      BY <1>2, <1>5, <1>6, <2>1, SeqEqual
  <1> QED
    BY <1>3, <1>4, <1>5, <1>7 DEF s, t

-----------------------------------------------------------------------------
(* Every step keeps LayoutInv.                                             *)

Domain ==
  /\ bufferSize \in Nat \ {0} /\ LastSequence \in Nat
  /\ buffer \in [0 .. bufferSize - 1 -> Nat]
  /\ published \in Nat /\ claim \in Nat /\ consumed \in Nat
  /\ upto \in Nat /\ last \in Nat

LEMMA DomainIs == LayoutTypeOK => Domain
  BY LayoutAssumption DEF LayoutTypeOK, Domain

(* A claim has its whole batch to fill or less, and what is filled of it.  *)
LEMMA FilledIs ==
  ASSUME LayoutInv
  PROVE  /\ Filled \in Nat /\ published <= Filled
         /\ Filled < consumed + bufferSize
  <1>1. Domain
    BY DomainIs DEF LayoutInv
  <1> QED
    BY <1>1 DEF Domain, LayoutInv, WriterInv, Filled

LEMMA InitLayoutInv == LayoutInit => LayoutInv
  <1> SUFFICES ASSUME LayoutInit PROVE LayoutInv
    OBVIOUS
  <1> USE DEF LayoutInit, Empty
  <1>1. LayoutTypeOK
    BY LayoutAssumption DEF LayoutTypeOK
  <1>2. Domain
    BY <1>1, DomainIs
  <1>3. WriterInv /\ ViewInv /\ YieldsInOrder
    BY <1>2 DEF WriterInv, ViewInv, YieldsInOrder, Domain
  <1>4. BufferInv
    BY DEF BufferInv, Filled
  <1> QED
    BY <1>1, <1>3, <1>4 DEF LayoutInv

LEMMA ReserveKeeps ==
  ASSUME LayoutInv, NEW n \in 1 .. bufferSize - 1, Reserve(n)
  PROVE  LayoutInv'
  <1> USE DEF LayoutInv
  <1>0. Domain
    BY DomainIs
  <1>1. /\ bufferSize' = bufferSize /\ buffer' = buffer /\ published' = published
        /\ consumed' = consumed /\ view' = view /\ upto' = upto /\ last' = last
        /\ claim = 0 /\ claim' = published + n
        /\ claim' \in published + 1 .. consumed + bufferSize - 1
        /\ claim' \in 0 .. LastSequence
    BY <1>0 DEF Reserve, readerVars, Domain
  <1>2. todo' = Indices(published + 1, claim')
    <2> DEFINE first == published + 1
    <2>1. /\ bufferSize \in Sizes /\ first \in 0 .. LastSequence
          /\ n \in 1 .. bufferSize /\ first + n - 1 = claim'
      BY <1>0, <1>1 DEF LayoutTypeOK, Domain
    <2>2. todo' = segments(first, n)[1] \o segments(first, n)[2]
      BY DEF Reserve
    <2> HIDE DEF first
    <2>3. todo' = Indices(first, claim')
      BY <2>1, <2>2, SegmentsSpan
    <2> QED
      BY <2>3 DEF first
  <1>3. Len(todo') = n
    <2> DEFINE first == published + 1
               to == claim'
    <2>1. first \in Nat /\ to \in Nat /\ first <= to + 1 /\ to - first + 1 = n
      BY <1>0, <1>1 DEF Domain
    <2>2. todo' = Indices(first, to)
      BY <1>2
    <2> HIDE DEF first, to
    <2> QED
      BY <1>0, <2>1, <2>2, IndicesIs DEF Domain
  <1>4. LayoutTypeOK' /\ ViewInv' /\ YieldsInOrder'
    BY <1>1 DEF LayoutTypeOK, ViewInv, YieldsInOrder, Indices
  <1>5. WriterInv'
    <2>1. claim' - Len(todo') + 1 = published + 1
      BY <1>0, <1>1, <1>3 DEF Domain
    <2>2. todo' = Indices(claim - Len(todo) + 1, claim)'
      BY <1>1, <1>2, <2>1 DEF Indices
    <2>3. claim' # 0 /\ Len(todo') \in 0 .. claim' - published'
      BY <1>0, <1>1, <1>3 DEF Domain
    <2> QED
      BY <1>1, <2>2, <2>3 DEF WriterInv
  <1>6. BufferInv'
    <2>1. Filled' = published /\ Filled = published
      BY <1>0, <1>1, <1>3 DEF Filled, Domain
    <2> QED
      BY <1>1, <2>1 DEF BufferInv
  <1> QED
    BY <1>4, <1>5, <1>6

LEMMA FillNextKeeps ==
  ASSUME LayoutInv, FillNext
  PROVE  LayoutInv'
  <1> USE DEF LayoutInv
  <1>0. Domain
    BY DomainIs
  <1> DEFINE w == claim - Len(todo) + 1
  <1>1. /\ bufferSize' = bufferSize /\ published' = published /\ claim' = claim
        /\ consumed' = consumed /\ view' = view /\ upto' = upto /\ last' = last
        /\ buffer' = [buffer EXCEPT ![Head(todo)] = w] /\ todo' = Tail(todo)
        /\ todo # <<>>
    BY DEF FillNext, readerVars
  <1>2. /\ claim # 0 /\ claim \in published + 1 .. consumed + bufferSize - 1
        /\ Len(todo) \in 0 .. claim - published /\ todo = Indices(w, claim)
    BY <1>1 DEF WriterInv
  <1>3. w \in published + 1 .. claim /\ Len(todo) = claim - w + 1
    <2>1. w \in Nat /\ w <= claim + 1
      BY <1>0, <1>2 DEF Domain
    <2> HIDE DEF w
    <2>2. todo \in Seq(Nat)
      BY <1>0, <1>2, <2>1, IndicesIs DEF Domain
    <2>3. Len(todo) # 0
      BY <1>1, <2>2, EmptySeq
    <2> QED
      BY <1>0, <1>2, <2>3 DEF w, Domain
  <1> HIDE DEF w
  <1>4. /\ Head(todo) = w % bufferSize
        /\ todo' = Indices(w + 1, claim) /\ Len(todo') = claim - w
    <2>1. w \in Nat /\ w <= claim
      BY <1>0, <1>3 DEF Domain
    <2>2. /\ Head(todo) = w % bufferSize /\ todo' = Indices(w + 1, claim)
          /\ Len(todo') = Len(todo) - 1
      BY <1>0, <1>1, <1>2, <2>1, IndicesStep DEF Domain
    <2> QED
      BY <1>0, <1>3, <2>1, <2>2 DEF Domain
  <1>5. w \in Nat /\ w % bufferSize \in 0 .. bufferSize - 1
    BY <1>0, <1>3 DEF Domain
  <1>6. LayoutTypeOK' /\ ViewInv' /\ YieldsInOrder'
    BY <1>0, <1>1, <1>4, <1>5
       DEF LayoutTypeOK, ViewInv, YieldsInOrder, Indices, Domain
  <1>7. WriterInv'
    <2>1. claim - Len(todo') + 1 = w + 1 /\ Len(todo') \in 0 .. claim - published
      BY <1>0, <1>3, <1>4 DEF Domain
    <2> QED
      BY <1>0, <1>1, <1>2, <1>4, <2>1 DEF WriterInv, Indices, Domain
  <1>8. BufferInv'
    <2>1. Filled = w - 1 /\ Filled' = w
      BY <1>0, <1>1, <1>2, <1>3, <1>4, <1>5 DEF Filled, Domain
    <2> SUFFICES ASSUME NEW q \in consumed + 1 .. w
                 PROVE  buffer'[q % bufferSize] = q
      BY <1>1, <2>1 DEF BufferInv
    <2>2. q \in Nat /\ q % bufferSize \in 0 .. bufferSize - 1
      BY <1>0, <1>5 DEF Domain
    <2>3. CASE q = w
      BY <1>0, <1>1, <1>4, <1>5, <2>3 DEF Domain
    <2>4. CASE q # w
      <3>1. w \in q + 1 .. q + bufferSize - 1
        BY <1>0, <1>2, <1>3, <1>5, <2>2, <2>4 DEF Domain
      <3>2. q % bufferSize # w % bufferSize
        BY <1>0, <2>2, <3>1, RemainderDistinct DEF Domain
      <3>3. buffer[q % bufferSize] = q
        <4>1. q \in consumed + 1 .. Filled
          BY <1>0, <1>5, <2>1, <2>4 DEF Domain
        <4> QED
          BY <4>1 DEF BufferInv
      <3> QED
        BY <1>0, <1>1, <1>4, <2>2, <3>2, <3>3 DEF Domain
    <2> QED
      BY <2>3, <2>4
  <1> QED
    BY <1>6, <1>7, <1>8

LEMMA CommitKeeps ==
  ASSUME LayoutInv, Commit
  PROVE  LayoutInv'
  <1> USE DEF LayoutInv
  <1>0. Domain
    BY DomainIs
  <1>1. /\ bufferSize' = bufferSize /\ buffer' = buffer /\ todo' = todo
        /\ consumed' = consumed /\ view' = view /\ upto' = upto /\ last' = last
        /\ claim # 0 /\ todo = <<>> /\ published' = claim /\ claim' = 0
    BY DEF Commit, readerVars
  <1>2. Len(todo) = 0
    BY <1>1, EmptySeq
  <1>3. claim \in published + 1 .. consumed + bufferSize - 1
    BY <1>1 DEF WriterInv
  <1>4. LayoutTypeOK' /\ WriterInv' /\ YieldsInOrder'
    BY <1>0, <1>1, <1>3 DEF LayoutTypeOK, WriterInv, YieldsInOrder, Domain
  <1>5. ViewInv'
    BY <1>0, <1>1, <1>3 DEF ViewInv, Indices, Domain
  <1>6. BufferInv'
    <2>1. Filled' = claim /\ Filled = claim
      BY <1>0, <1>1, <1>2 DEF Filled, Domain
    <2> QED
      BY <1>1, <2>1 DEF BufferInv
  <1> QED
    BY <1>4, <1>5, <1>6

LEMMA IterateKeeps ==
  ASSUME LayoutInv, NEW end \in 1 .. published, Iterate(end)
  PROVE  LayoutInv'
  <1> USE DEF LayoutInv
  <1>0. Domain
    BY DomainIs
  <1>1. /\ bufferSize' = bufferSize /\ buffer' = buffer /\ todo' = todo
        /\ published' = published /\ claim' = claim /\ consumed' = consumed
        /\ upto' = end /\ last' = consumed
        /\ end \in consumed + 1 .. published
    BY DEF Iterate, writerVars
  <1> DEFINE start == consumed + 1
  <1>2. /\ start \in 0 .. LastSequence /\ end \in start .. LastSequence
        /\ end < start + bufferSize /\ bufferSize \in Sizes
        /\ start \in Nat /\ end \in Nat /\ start <= end + 1
    BY <1>0, <1>1 DEF WriterInv, LayoutTypeOK, Domain
  <1>3. view' = GetSegments(start, end)[1] \o GetSegments(start, end)[2]
    BY DEF Iterate
  <1> HIDE DEF start
  <1>4. view' = Indices(start, end)
    BY <1>2, <1>3, GetSegmentsSpan
  <1>5. Len(view') = end - start + 1
    BY <1>0, <1>2, <1>4, IndicesIs DEF Domain
  <1>6. Len(view') = end - consumed /\ end - Len(view') + 1 = start
    BY <1>0, <1>2, <1>5 DEF start, Domain
  <1>7. LayoutTypeOK' /\ WriterInv' /\ BufferInv'
    BY <1>1, <1>2 DEF LayoutTypeOK, WriterInv, BufferInv, Filled, Indices
  <1>8. ViewInv'
    BY <1>0, <1>1, <1>2, <1>4, <1>6 DEF ViewInv, Indices, Domain
  <1>9. YieldsInOrder'
    BY <1>0, <1>1, <1>2, <1>6 DEF YieldsInOrder, Domain
  <1> QED
    BY <1>7, <1>8, <1>9

LEMMA YieldNextKeeps ==
  ASSUME LayoutInv, YieldNext
  PROVE  LayoutInv'
  <1> USE DEF LayoutInv
  <1>0. Domain
    BY DomainIs
  <1> DEFINE v == upto - Len(view) + 1
  <1>1. /\ bufferSize' = bufferSize /\ buffer' = buffer /\ todo' = todo
        /\ published' = published /\ claim' = claim /\ consumed' = consumed
        /\ upto' = upto /\ last' = buffer[Head(view)] /\ view' = Tail(view)
        /\ view # <<>>
    BY DEF YieldNext, writerVars
  <1>2. /\ upto # 0 /\ upto \in consumed + 1 .. published
        /\ Len(view) \in 0 .. upto - consumed /\ view = Indices(v, upto)
    BY <1>1 DEF ViewInv
  <1>3. v \in consumed + 1 .. upto /\ Len(view) = upto - v + 1
    <2>1. v \in Nat /\ v <= upto + 1
      BY <1>0, <1>2 DEF Domain
    <2> HIDE DEF v
    <2>2. view \in Seq(Nat)
      BY <1>0, <1>2, <2>1, IndicesIs DEF Domain
    <2>3. Len(view) # 0
      BY <1>1, <2>2, EmptySeq
    <2> QED
      BY <1>0, <1>2, <2>3 DEF v, Domain
  <1> HIDE DEF v
  <1>4. /\ Head(view) = v % bufferSize
        /\ view' = Indices(v + 1, upto) /\ Len(view') = upto - v
    <2>1. v \in Nat /\ v <= upto
      BY <1>0, <1>3 DEF Domain
    <2>2. /\ Head(view) = v % bufferSize /\ view' = Indices(v + 1, upto)
          /\ Len(view') = Len(view) - 1
      BY <1>0, <1>1, <1>2, <2>1, IndicesStep DEF Domain
    <2> QED
      BY <1>0, <1>3, <2>1, <2>2 DEF Domain
  <1>5. last' = v
    <2>1. v \in consumed + 1 .. Filled
      BY <1>0, <1>2, <1>3, FilledIs DEF Domain
    <2> QED
      BY <1>1, <1>4, <2>1 DEF BufferInv
  <1>6. LayoutTypeOK' /\ WriterInv' /\ BufferInv'
    BY <1>0, <1>1, <1>3, <1>5
       DEF LayoutTypeOK, WriterInv, BufferInv, Filled, Indices, Domain
  <1>7. upto - Len(view') = v /\ Len(view') \in 0 .. upto - consumed
    BY <1>0, <1>3, <1>4 DEF Domain
  <1>8. ViewInv' /\ YieldsInOrder'
    BY <1>0, <1>1, <1>2, <1>4, <1>5, <1>7
       DEF ViewInv, YieldsInOrder, Indices, Domain
  <1> QED
    BY <1>6, <1>8

LEMMA AdvanceKeeps ==
  ASSUME LayoutInv, Advance
  PROVE  LayoutInv'
  <1> USE DEF LayoutInv
  <1>0. Domain
    BY DomainIs
  <1>1. /\ bufferSize' = bufferSize /\ buffer' = buffer /\ todo' = todo
        /\ published' = published /\ claim' = claim /\ consumed' = last
        /\ view' = <<>> /\ upto' = 0 /\ last' = 0 /\ upto # 0
    BY DEF Advance, writerVars
  <1>2. last \in consumed .. published
    BY <1>0, <1>1 DEF ViewInv, YieldsInOrder, Domain
  <1>3. LayoutTypeOK' /\ ViewInv' /\ YieldsInOrder'
    BY <1>0, <1>1 DEF LayoutTypeOK, ViewInv, YieldsInOrder, Domain
  <1>4. WriterInv'
    BY <1>0, <1>1, <1>2 DEF WriterInv, Indices, Domain
  <1>5. BufferInv'
    BY <1>0, <1>1, <1>2 DEF BufferInv, Filled, Domain
  <1> QED
    BY <1>3, <1>4, <1>5

LEMMA StutterKeeps ==
  ASSUME LayoutInv, UNCHANGED layoutVars
  PROVE  LayoutInv'
  BY DEF layoutVars, writerVars, readerVars, LayoutInv, LayoutTypeOK, WriterInv,
         BufferInv, Filled, ViewInv, Indices, YieldsInOrder

-----------------------------------------------------------------------------
(* The theorems.                                                           *)

(* LayoutInvHolds: in a ring of any size, the writer's segments and the    *)
(* reader's views name the elements of one sequence after the other, and   *)
(* every event that is not consumed is in its element.                     *)
THEOREM LayoutInvHolds == LayoutSpec => []LayoutInv
  <1>1. LayoutInv /\ [LayoutNext]_layoutVars => LayoutInv'
    BY ReserveKeeps, FillNextKeeps, CommitKeeps, IterateKeeps, YieldNextKeeps,
       AdvanceKeeps, StutterKeeps
       DEF LayoutNext
  <1> QED
    BY InitLayoutInv, <1>1, PTL DEF LayoutSpec

(* FillsWholeClaimHolds: PublishBatch and PublishBatchFunc fill exactly    *)
(* the batch, across the end of the ring, each payload in the element its  *)
(* sequence is read from.                                                  *)
THEOREM FillsWholeClaimHolds == LayoutSpec => []FillsWholeClaim
  <1>1. LayoutInv => FillsWholeClaim
    <2> SUFFICES ASSUME LayoutInv, claim # 0
                 PROVE  FillsWholeClaim
      BY DEF FillsWholeClaim
    <2>1. Domain
      BY DomainIs DEF LayoutInv
    <2>2. Len(todo) \in 0 .. claim - published /\ consumed <= published
      BY <2>1 DEF LayoutInv, WriterInv, Domain
    <2>3. \A q \in published + 1 .. claim - Len(todo) : buffer[q % bufferSize] = q
      <3> TAKE q \in published + 1 .. claim - Len(todo)
      <3>1. q \in consumed + 1 .. Filled
        BY <2>1, <2>2 DEF Filled, Domain
      <3> QED
        BY <3>1 DEF LayoutInv, BufferInv
    <2> QED
      BY <2>1, <2>2, <2>3 DEF FillsWholeClaim, Domain
  <1> QED
    BY <1>1, LayoutInvHolds, PTL

(* YieldsInOrderHolds: Iterate yields the events of its range in order,    *)
(* none skipped or repeated, wherever in the ring the range lies and       *)
(* whatever the writer fills meanwhile.                                    *)
THEOREM YieldsInOrderHolds == LayoutSpec => []YieldsInOrder
  <1>1. LayoutInv => YieldsInOrder
    BY DEF LayoutInv
  <1> QED
    BY <1>1, LayoutInvHolds, PTL
=============================================================================
