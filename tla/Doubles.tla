------------------------------- MODULE Doubles --------------------------------
(***************************************************************************)
(* Arithmetic in double precision, as the grid of P-MOSS computes its      *)
(* borders: after every operation the result is rounded to the nearest     *)
(* number with `Significand' significant bits.                             *)
(*                                                                         *)
(* A number is written as a natural number of units; `Unit' is how many of *)
(* them make one, so that fractions have somewhere to go.                  *)
(***************************************************************************)
EXTENDS RoutedKeys

CONSTANTS
  Significand,      \* significant bits
  Unit,             \* units in one, a power of two
  MaxExponent       \* bound: numbers are less than 2^(Significand + MaxExponent)

ASSUME PrecisionAssumption ==
  /\ Significand \in Nat \ {0}
  /\ Unit \in {2^e : e \in 0..MaxExponent}
  /\ MaxExponent \in Nat

\* What arithmetic says of the powers of two: each is twice the one before.
ASSUME PowersAssumption ==
  \A e \in 0..(Significand + MaxExponent) : 2^e \in Nat \ {0} /\ 2^(e + 1) = 2 * 2^e

\* The bound: every number that occurs is less.
Limit == 2^(Significand + MaxExponent)

\* The distance of the doubles next to x units.
Spacing(x) ==
  LET e == CHOOSE e \in 0..MaxExponent :
             /\ x < 2^(Significand + e)
             /\ e > 0 => x >= 2^(Significand + e - 1)
  IN  2^e

Round(x)   == ToDouble(x, Spacing(x))
Plus(a, b)   == Round(a + b)
Minus(a, b)  == Round(a - b)
Times(a, n)  == Round(a * n)
Over(a, n)   == ToDouble(a, n * Spacing(a \div n)) \div n

OfInteger(k) == Round(k * Unit)
\* A cast to an integer type cuts the fraction off.
ToInteger(x) == x \div Unit
===============================================================================
