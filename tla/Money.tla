------------------------------- MODULE Money -------------------------------
(***************************************************************************)
(* Money (crates/tpt-erp-primitives/src/money.rs): an amount is an integer *)
(* number of minor units of one currency, the currency being its type.     *)
(* Amounts finer than a minor unit are not represented.                    *)
(***************************************************************************)
EXTENDS Integers, Sequences, FiniteSets, SequencesExt

Zero == 0

SumSeq(s) == FoldLeft(LAMBDA a, b : a + b, Zero, s)
AtMost(a, b) == IF a < b THEN a ELSE b
Positive(a) == IF a < 0 THEN 0 ELSE a

\* round_dp_with_strategy(.., ToZero) of n / d
TowardsZero(n, d) == IF n >= 0 THEN n \div d ELSE -((-n) \div d)

\* checked_add, checked_sub, checked_mul_decimal: the result or MoneyError::Overflow
Checked(result, bound) == IF -bound <= result /\ result <= bound THEN <<result>> ELSE <<>>

\* allocate refuses no ratios, and ratios that sum to zero.
Allocatable(ratios) == ratios # <<>> /\ SumSeq(ratios) # 0

\* allocate: every part is cut to the minor unit, and each unit left over goes to
\* the next part in descending order of remainder (the sort is stable), one a part.
Allocate(amount, ratios) ==
  LET total    == SumSeq(ratios)
      whole    == [i \in DOMAIN ratios |-> TowardsZero(amount * ratios[i], total)]
      rem(i)   == amount * ratios[i] - whole[i] * total
      before(i) == {j \in DOMAIN ratios : rem(j) > rem(i) \/ (rem(j) = rem(i) /\ j < i)}
      leftover == amount - SumSeq(whole)
  IN [i \in DOMAIN ratios |-> IF Cardinality(before(i)) < leftover THEN whole[i] + 1 ELSE whole[i]]

-----------------------------------------------------------------------------
\* What allocate promises of a non-negative amount: nothing lost or invented, and
\* every part within one minor unit of its exact share.
SplitExactly(amount, ratios) ==
  LET parts == Allocate(amount, ratios)
  IN /\ SumSeq(parts) = amount
     /\ \A i \in DOMAIN ratios :
          LET off == parts[i] * SumSeq(ratios) - amount * ratios[i]
          IN -SumSeq(ratios) < off /\ off < SumSeq(ratios)
     \* the larger claim never receives less
     /\ \A i, j \in DOMAIN ratios : ratios[i] > ratios[j] => parts[i] >= parts[j]
=============================================================================
