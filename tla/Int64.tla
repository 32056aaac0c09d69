-------------------------------- MODULE Int64 --------------------------------
(* int64_t and uint64_t with fewer bits: conversions and overflow wrap.     *)
EXTENDS Integers

CONSTANT WordBits  \* 64

ASSUME WordAssumption == WordBits \in Nat \ {0}
\* Arithmetic that the provers have no rule for.
ASSUME WordPowersAssumption ==
  /\ 2 ^ (WordBits - 1) \in Nat \ {0}
  /\ 2 ^ WordBits = 2 * 2 ^ (WordBits - 1)

MinInt == -(2 ^ (WordBits - 1))
MaxInt == 2 ^ (WordBits - 1) - 1
Int64 == MinInt .. MaxInt

Unsigned(x) == x % 2 ^ WordBits
Signed(x) == IF Unsigned(x) > MaxInt THEN Unsigned(x) - 2 ^ WordBits
             ELSE Unsigned(x)
=============================================================================
