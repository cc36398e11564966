----------------------------- MODULE FixedPoint -----------------------------
(***************************************************************************)
(* The requantization arithmetic of the kernels (kernels/requant.go) and   *)
(* its users QUANTIZE and LOGISTIC, on words of Bits bits (32 in the code) *)
(* and elements of ElementBits bits (8).  A real multiplier is a fraction  *)
(* <<n, d>>, d positive: the code has it in a double, which holds *)
(* the quotient of two float32 scales to more digits than it keeps.        *)
(***************************************************************************)
EXTENDS PowersOfTwo

CONSTANTS
  Bits,         \* of a word: 32 in the code
  ElementBits,  \* of a tensor's element: 8
  IntegerBits   \* logisticInputIntegerBits, the sigmoid argument's bits before the point: 4

ASSUME FixedPointAssumption ==
  /\ Bits \in Nat /\ ElementBits \in Nat /\ IntegerBits \in Nat
  /\ 1 < ElementBits /\ ElementBits + 1 < Bits /\ IntegerBits < Bits - 1

MaxWord == Pow2(Bits - 1) - 1
MinWord == -Pow2(Bits - 1)
Words   == MinWord .. MaxWord

\* The conversion to a signed word, which wraps around.
Word(x) == ((x - MinWord) % Pow2(Bits)) + MinWord

\* Integer division as Go does it, towards zero, for a positive divisor.
Towards0(a, b) == IF a >= 0 THEN a \div b ELSE -((-a) \div b)

Clamped(x, lo, hi) == IF x < lo THEN lo ELSE IF x > hi THEN hi ELSE x

SaturatingRoundingDoublingHighMul(a, b) ==
  LET nudge == IF a * b >= 0 THEN Pow2(Bits - 2) ELSE 1 - Pow2(Bits - 2)
  IN IF a = MinWord /\ b = MinWord THEN MaxWord ELSE Towards0(a * b + nudge, Pow2(Bits - 1))

\* Mutant: the bits shifted out are dropped.
DividedDown(x, exponent) == x \div Pow2(exponent)

\* remainder is x & mask, and x >> exponent rounds down.
RoundingDivideByPOT(x, exponent) ==
  LET mask      == Pow2(exponent) - 1
      threshold == IF x < 0 THEN mask \div 2 + 1 ELSE mask \div 2
  IN IF x % Pow2(exponent) > threshold THEN x \div Pow2(exponent) + 1 ELSE x \div Pow2(exponent)

\* The factor 1<<leftShift is a word, too.
MultiplyByQuantizedMultiplier(x, significand, shift) ==
  LET left  == IF shift > 0 THEN shift ELSE 0
      right == IF shift > 0 THEN 0 ELSE -shift
  IN RoundingDivideByPOT(SaturatingRoundingDoublingHighMul(Word(x * Pow2(left)), significand), right)

-----------------------------------------------------------------------------
\* math.Frexp's exponent: <<n, d>> is in [1/2, 1) times 2^exponent.
Up(e)   == IF e > 0 THEN Pow2(e) ELSE 1
Down(e) == IF e < 0 THEN Pow2(-e) ELSE 1

Exponent(n, d) ==
  IF n >= d THEN CHOOSE e \in 1 .. n : n < d * Pow2(e) /\ 2 * n >= d * Pow2(e)
  ELSE -(CHOOSE k \in 0 .. d : n * Pow2(k) < d /\ 2 * n * Pow2(k) >= d)

\* math.Round of the fraction in [1/2, 1) times 2^(Bits-1)
Fixed(n, d, e) == (2 * n * Down(e) * Pow2(Bits - 1) + d * Up(e)) \div (2 * d * Up(e))

QuantizeMultiplier(n, d) ==
  LET e     == Exponent(n, d)
      q     == Fixed(n, d, e)
      whole == q = Pow2(Bits - 1)
      exp   == IF whole THEN e + 1 ELSE e
  IN IF n = 0 \/ exp < 1 - Bits THEN [significand |-> 0, shift |-> 0]
     ELSE [significand |-> IF whole THEN q \div 2 ELSE q, shift |-> exp]

-----------------------------------------------------------------------------
(* QUANTIZE: int8 to uint8, by scales whose quotient is <<n, d>>. *)

Elements   == -Pow2(ElementBits - 1) .. Pow2(ElementBits - 1) - 1
MaxUnsigned == Pow2(ElementBits) - 1

requantize(x, m, zin, zout) ==
  Clamped(MultiplyByQuantizedMultiplier(x - zin, m.significand, m.shift) + zout, 0, MaxUnsigned)

\* The two's complement of x with its sign bit flipped.
FlipSign(x) == x + Pow2(ElementBits - 1)

quantize(x, m, zin, zout) ==
  IF /\ m.significand = Pow2(Bits - 2) /\ m.shift = 1
     /\ zin - zout = -Pow2(ElementBits - 1)
  THEN FlipSign(x) ELSE requantize(x, m, zin, zout)

-----------------------------------------------------------------------------
(* LOGISTIC: the sigmoid's argument, in words with IntegerBits bits before *)
(* the point.                                                              *)

\* The input's scale <<n, d>> times 2^(Bits-1-IntegerBits) has no negative exponent.
logisticParams(n, d) ==
  LET e == Exponent(n * Pow2(Bits - 1 - IntegerBits), d)
  IN [multiplier |-> Fixed(n * Pow2(Bits - 1 - IntegerBits), d, e), leftShift |-> e]

calculateInputRadius(leftShift) ==
  ((Pow2(IntegerBits) - 1) * Pow2(Bits - 1 - IntegerBits)) \div Pow2(leftShift)

\* What logistic does with an input less its zero point.
Saturates(x, p) ==
  LET radius == calculateInputRadius(p.leftShift) IN x <= -radius \/ x >= radius
=============================================================================
