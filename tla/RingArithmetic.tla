--------------------------- MODULE RingArithmetic ---------------------------
(***************************************************************************)
(* The bit tricks of ring_buffer.go on signed integers of Width bits (64   *)
(* in the code): nextPow2, which sizes the ring, and the branch-free       *)
(* minimum of MinimumBarrier.Load.                                         *)
(***************************************************************************)
EXTENDS Integers, Sequences, Bitwise, SequencesExt, FiniteSetsExt

CONSTANT Width   \* bits of an integer

ASSUME WidthAssumption == Width \in 4 .. 16

MaxInt == 2^(Width - 1) - 1

(* What is left of x in Width bits of two's complement. *)
Wrap(x) == ((x + 2^(Width - 1)) % 2^Width) - 2^(Width - 1)

(* The shifts 1, 2, 4, ... up to half the width (32 in the code). *)
Shifts == [i \in 1 .. CHOOSE k \in 1 .. Width : 2^k >= Width /\ 2^(k - 1) < Width
             |-> 2^(i - 1)]

(* Mutant: the first shift is missing. *)
SmearFromSecond(v) == FoldLeft(LAMBDA x, k : x | shiftR(x, k), v, Tail(Shifts))

(* Every bit below the highest one is set: v |= v >> k for each shift k. *)
Smear(v) == FoldLeft(LAMBDA x, k : x | shiftR(x, k), v, Shifts)

nextPow2(v) == Wrap(Smear(v - 1) + 1)

(* The bits of x, as a natural number; & and >> on signed integers.        *)
Pattern(x)            == x % 2^Width
SignedAnd(x, y)       == Wrap(Pattern(x) & Pattern(y))
ArithmeticShift(x, k) == x \div 2^k

(* Mutant: the shift does not copy the sign bit. *)
StepLogicalShift(minimum, seq) ==
  LET diff == Wrap(minimum - seq)
      mask == shiftR(Pattern(diff), Width - 1)
  IN  Wrap(seq + SignedAnd(diff, mask))

(* One iteration of the loop: the mask is every bit or none, as diff is    *)
(* negative or not.                                                        *)
LoadIteration(minimum, seq) ==
  LET diff == Wrap(minimum - seq)
      mask == ArithmeticShift(diff, Width - 1)
  IN  Wrap(seq + SignedAnd(diff, mask))

MinimumLoad(m) == FoldLeft(LoadIteration, Head(m), Tail(m))

(* The powers of two a positive integer can be rounded up to. *)
Powers == {2^k : k \in 0 .. Width - 2}
=============================================================================
