-------------------------- MODULE GridPlacementProofs --------------------------
(***************************************************************************)
(* Proofs about GridPlacement, for any instances, number of cells, NUMA    *)
(* nodes and precision.                                                    *)
(*                                                                         *)
(* Rounding keeps the order of numbers and leaves a rounded number alone   *)
(* (RoundMonotone, RoundAgain), whatever it does to a single one. So the   *)
(* borders of the cells ascend, and a key beyond the whole part of a       *)
(* border is rounded to that border or beyond. That is all that the        *)
(* migration needs (FollowInv); the division that is printed goes by whole *)
(* keys and does not depend on the borders (CountInv).                     *)
(***************************************************************************)
EXTENDS GridPlacement, FiniteSums

-------------------------------------------------------------------------------
\* Rounding.
Exponents == 0..(Significand + MaxExponent)

LEMMA Parameters ==
  /\ Significand \in Nat /\ Significand > 0 /\ MaxExponent \in Nat
  /\ xPar \in Nat /\ xPar > 0 /\ Unit \in Nat /\ Unit > 0
  /\ \A e \in Exponents : 2^e \in Nat /\ 2^e > 0 /\ 2^(e + 1) = 2 * 2^e
<1>1. Significand \in Nat /\ Significand > 0 /\ MaxExponent \in Nat
  BY PrecisionAssumption
<1>2. \A e \in Exponents : 2^e \in Nat /\ 2^e > 0 /\ 2^(e + 1) = 2 * 2^e
  <2>1. \A e \in Exponents : 2^e \in Nat \ {0} /\ 2^(e + 1) = 2 * 2^e
    BY PowersAssumption DEF Exponents
  <2>2. QED
    BY <2>1
<1>3. PICK e \in 0..MaxExponent : Unit = 2^e
  BY PrecisionAssumption
<1>4. e \in Exponents
  BY <1>1, <1>3 DEF Exponents
<1>5. QED
  BY <1>1, <1>2, <1>3, <1>4, CellsAssumption

LEMMA PowerMonotone ==
  ASSUME NEW a \in Exponents, NEW b \in Exponents, a <= b
  PROVE  2^a <= 2^b
<1> DEFINE bad == {c \in a..(Significand + MaxExponent) : ~(2^a <= 2^c)}
<1> SUFFICES ASSUME bad # {} PROVE FALSE
  <2>1. b \in a..(Significand + MaxExponent)
    BY Parameters DEF Exponents
  <2>2. QED
    BY <2>1
<1>1. a \in Nat /\ Significand + MaxExponent \in Nat
  BY Parameters DEF Exponents
<1>2. PICK d \in bad : \A i \in bad : d <= i
  <2>1. bad \subseteq Nat
    BY <1>1
  <2> HIDE DEF bad
  <2>2. QED
    BY <2>1, LeastNumber
<1>3. d # a
  BY <1>2, Parameters
<1>4. d - 1 \in a..(Significand + MaxExponent) /\ d - 1 \in Exponents
  BY <1>1, <1>2, <1>3 DEF Exponents
<1>5. 2^a <= 2^(d - 1)
  BY <1>1, <1>2, <1>4
<1>6. 2^d = 2 * 2^(d - 1)
  <2>1. 2^((d - 1) + 1) = 2 * 2^(d - 1)
    BY <1>4, Parameters
  <2>2. (d - 1) + 1 = d
    BY <1>1, <1>2
  <2>3. QED
    BY <2>1, <2>2
<1>7. 2^a \in Nat /\ 2^(d - 1) \in Nat
  BY <1>4, Parameters
<1>8. 2^a <= 2^d
  BY <1>5, <1>6, <1>7
<1>9. QED
  BY <1>2, <1>8

LEMMA PowerPlus ==
  ASSUME NEW a \in Exponents, NEW b \in Exponents, a + b \in Exponents
  PROVE  2^(a + b) = 2^a * 2^b
<1> DEFINE bad == {c \in Exponents : a + c \in Exponents /\ 2^(a + c) # 2^a * 2^c}
<1> SUFFICES ASSUME bad # {} PROVE FALSE
  OBVIOUS
<1>1. a \in Nat /\ Exponents \subseteq Nat
  BY Parameters DEF Exponents
<1>2. PICK d \in bad : \A i \in bad : d <= i
  <2>1. bad \subseteq Nat
    BY <1>1
  <2> HIDE DEF bad
  <2>2. QED
    BY <2>1, LeastNumber
<1>3. d # 0
  <2>1. ASSUME d = 0 PROVE FALSE
    <3>1. a + d = a /\ 2^d = 1
      BY <1>1, <2>1
    <3>2. 2^a * 1 = 2^a
      BY Parameters
    <3>3. QED
      BY <1>2, <3>1, <3>2
  <2>2. QED
    BY <2>1
<1>4. d \in Nat /\ d - 1 \in Exponents /\ a + (d - 1) \in Exponents
  BY <1>1, <1>2, <1>3, Parameters DEF Exponents
<1>5. 2^(a + (d - 1)) = 2^a * 2^(d - 1)
  BY <1>1, <1>2, <1>4
<1>6. 2^d = 2 * 2^(d - 1)
  <2>1. 2^((d - 1) + 1) = 2 * 2^(d - 1)
    BY <1>4, Parameters
  <2>2. (d - 1) + 1 = d
    BY <1>4
  <2>3. QED
    BY <2>1, <2>2
<1>7. 2^(a + d) = 2 * 2^(a + (d - 1))
  <2>1. 2^((a + (d - 1)) + 1) = 2 * 2^(a + (d - 1))
    BY <1>4, Parameters
  <2>2. (a + (d - 1)) + 1 = a + d
    BY <1>1, <1>4
  <2>3. QED
    BY <2>1, <2>2
<1>8. PICK x, y : x = 2^a /\ y = 2^(d - 1) /\ x \in Nat /\ y \in Nat
  BY <1>4, Parameters
<1>9. 2 * (x * y) = x * (2 * y)
  BY <1>8
<1>10. QED
  BY <1>2, <1>5, <1>6, <1>7, <1>8, <1>9

\* The spacing of a number is a power of two, and the number has at least half as
\* many spacings as Significand bits can tell apart, unless its spacing is one.
Spaced(x, e) ==
  /\ e \in 0..MaxExponent
  /\ x < 2^(Significand + e)
  /\ e > 0 => x >= 2^(Significand + e - 1)

LEMMA HasSpacing ==
  ASSUME NEW x \in Nat, x < Limit
  PROVE  \E e : Spaced(x, e) /\ Spacing(x) = 2^e
<1> DEFINE S == {e \in 0..MaxExponent : x < 2^(Significand + e)}
<1>1. MaxExponent \in S /\ S \subseteq Nat
  BY Parameters DEF Limit
<1>2. PICK e \in S : \A i \in S : e <= i
  <2> HIDE DEF S
  <2>1. QED
    BY <1>1, LeastNumber
<1>3. ASSUME e > 0 PROVE x >= 2^(Significand + e - 1)
  <2>1. e - 1 \in 0..MaxExponent /\ e - 1 \notin S
    BY <1>1, <1>2, <1>3
  <2>2. ~(x < 2^(Significand + (e - 1)))
    BY <2>1
  <2>3. Significand + (e - 1) = Significand + e - 1 /\ Significand + (e - 1) \in Exponents
    BY <1>1, <1>2, <2>1, Parameters DEF Exponents
  <2>4. 2^(Significand + e - 1) \in Nat
    BY <2>3, Parameters
  <2>5. QED
    BY <2>2, <2>3, <2>4
<1>4. e \in 0..MaxExponent /\ x < 2^(Significand + e) /\ (e > 0 => x >= 2^(Significand + e - 1))
  BY <1>2, <1>3
<1>5. PICK f : f = (CHOOSE g \in 0..MaxExponent :
                      /\ x < 2^(Significand + g)
                      /\ g > 0 => x >= 2^(Significand + g - 1))
  OBVIOUS
<1>6. Spaced(x, f)
  BY <1>4, <1>5 DEF Spaced
<1>7. Spacing(x) = 2^f
  BY <1>5, Zenon DEF Spacing
<1>8. QED
  BY <1>6, <1>7

\* What rounding to a multiple of s does.
LEMMA ToDoubleBounds ==
  ASSUME NEW k \in Nat, NEW s \in Nat, s > 0
  PROVE  /\ ToDouble(k, s) \in Nat /\ ToDouble(k, s) <= k + s
         /\ k % s = 0 => ToDouble(k, s) = k
         /\ \E q \in Nat : ToDouble(k, s) = s * q
         /\ \A q \in Nat : k >= s * q => ToDouble(k, s) >= s * q
         /\ \A q \in Nat : k < s * q => ToDouble(k, s) <= s * q
<1>1. PICK q, r : q = k \div s /\ r = k % s
  OBVIOUS
<1>2. q \in Nat /\ r \in Nat /\ r < s /\ k = s * q + r
  BY <1>1
<1>3. k - (k % s) = s * q /\ s * q \in Nat
  BY <1>1, <1>2
<1>4. /\ ToDouble(k, s) = s * q \/ (ToDouble(k, s) = s * q + s /\ r > 0)
  BY <1>1, <1>2, <1>3 DEF ToDouble
<1>5. s * q + s = s * (q + 1)
  BY <1>2
<1>6. ASSUME NEW p \in Nat, k >= s * p PROVE ToDouble(k, s) >= s * p
  <2>1. p <= q
    <3>1. ASSUME p >= q + 1 PROVE FALSE
      <4>1. s * p >= s * (q + 1)
        BY <1>2, <3>1
      <4>2. QED
        BY <1>2, <1>5, <1>6, <4>1
    <3>2. QED
      BY <1>2, <3>1
  <2>2. s * p <= s * q
    BY <1>2, <2>1
  <2>3. QED
    BY <1>3, <1>4, <2>2
<1>7. ASSUME NEW p \in Nat, k < s * p PROVE ToDouble(k, s) <= s * p
  <2>1. p >= q + 1
    <3>1. ASSUME p <= q PROVE FALSE
      <4>1. s * p <= s * q
        BY <1>2, <3>1
      <4>2. QED
        BY <1>2, <1>3, <1>7, <4>1
    <3>2. QED
      BY <1>2, <3>1
  <2>2. s * p >= s * (q + 1)
    BY <1>2, <2>1
  <2>3. QED
    BY <1>3, <1>4, <1>5, <2>2
<1>8. ToDouble(k, s) \in Nat /\ ToDouble(k, s) <= k + s
  BY <1>2, <1>3, <1>4
<1>9. k % s = 0 => ToDouble(k, s) = k
  BY <1>1, <1>2, <1>3, <1>4
<1>10. \E p \in Nat : ToDouble(k, s) = s * p
  <2>1. q \in Nat /\ q + 1 \in Nat
    BY <1>2
  <2>2. ToDouble(k, s) = s * q \/ ToDouble(k, s) = s * (q + 1)
    BY <1>4, <1>5
  <2>3. QED
    BY <2>1, <2>2, Zenon
<1>11. QED
  BY <1>6, <1>7, <1>8, <1>9, <1>10

LEMMA ToDoubleMonotone ==
  ASSUME NEW x \in Nat, NEW y \in Nat, x <= y, NEW s \in Nat, s > 0
  PROVE  ToDouble(x, s) <= ToDouble(y, s)
<1>1. PICK q, r : q = y \div s /\ r = y % s
  OBVIOUS
<1>2. q \in Nat /\ r \in Nat /\ r < s /\ y = s * q + r
  BY <1>1
<1>3. y >= s * q /\ s * q \in Nat
  BY <1>2
<1>4. CASE x < s * q
  <2>1. ToDouble(x, s) \in Nat /\ ToDouble(x, s) <= s * q
    BY <1>2, <1>4, ToDoubleBounds
  <2>2. ToDouble(y, s) \in Nat /\ ToDouble(y, s) >= s * q
    BY <1>2, <1>3, ToDoubleBounds
  <2>3. QED
    BY <1>3, <2>1, <2>2
<1>5. CASE x >= s * q
  <2>1. PICK t : t = x - s * q
    OBVIOUS
  <2>2. t \in Nat /\ t <= r /\ x = s * q + t /\ t < s
    BY <1>2, <1>3, <1>5, <2>1
  <2>3. x \div s = q /\ x % s = t
    BY <1>2, <2>2
  <2>4. x - (x % s) = s * q /\ y - (y % s) = s * q
    BY <1>1, <1>2, <1>3, <2>2, <2>3
  <2>5. (s * q) \div s = q
    BY <1>2
  <2>6. ToDouble(x, s) = IF 2 * t < s \/ (2 * t = s /\ q % 2 = 0) THEN s * q ELSE s * q + s
    BY <2>3, <2>4, <2>5 DEF ToDouble
  <2>7. ToDouble(y, s) = IF 2 * r < s \/ (2 * r = s /\ q % 2 = 0) THEN s * q ELSE s * q + s
    BY <1>1, <2>4, <2>5 DEF ToDouble
  <2>8. QED
    BY <1>2, <1>3, <2>2, <2>6, <2>7
<1>6. QED
  BY <1>3, <1>4, <1>5

\* A number with spacing 2^e is rounded to a multiple of it, no further than to the
\* ends of the range that has this spacing.
LEMMA RoundWithin ==
  ASSUME NEW x \in Nat, NEW e, Spaced(x, e), Spacing(x) = 2^e
  PROVE  /\ Round(x) = ToDouble(x, 2^e) /\ 2^e \in Nat /\ 2^e > 0
         /\ Round(x) \in Nat /\ Round(x) <= 2 * x
         /\ \E q \in Nat : Round(x) = 2^e * q
         /\ Round(x) <= 2^(Significand + e)
         /\ e > 0 => Round(x) >= 2^(Significand + e - 1)
<1>1. /\ e \in Exponents /\ Significand \in Exponents /\ Significand + e \in Exponents
      /\ e \in Nat /\ Significand - 1 \in Exponents
  BY Parameters DEF Exponents, Spaced
<1>2. PICK s : s = 2^e /\ s \in Nat /\ s > 0
  BY <1>1, Parameters
<1>3. Round(x) = ToDouble(x, s)
  BY <1>2 DEF Round
<1>4. PICK p : p = 2^Significand /\ p \in Nat
  BY <1>1, Parameters
<1>5. 2^(Significand + e) = s * p
  <2>1. 2^(Significand + e) = 2^Significand * 2^e
    BY <1>1, PowerPlus
  <2>2. QED
    BY <1>2, <1>4, <2>1
<1>6. Round(x) <= 2^(Significand + e)
  <2>1. x < s * p
    BY <1>5 DEF Spaced
  <2>2. ToDouble(x, s) <= s * p
    BY <1>2, <1>4, <2>1, ToDoubleBounds
  <2>3. QED
    BY <1>3, <1>5, <2>2
<1>7. ASSUME e > 0
      PROVE  Round(x) >= 2^(Significand + e - 1) /\ Round(x) <= 2 * x
  <2>1. PICK h : h = 2^(Significand - 1) /\ h \in Nat /\ h > 0
    BY <1>1, Parameters
  <2>2. (Significand - 1) + e = Significand + e - 1 /\ (Significand - 1) + e \in Exponents
    BY <1>1, <1>7, Parameters DEF Exponents
  <2>3. 2^(Significand + e - 1) = s * h
    <3>1. 2^((Significand - 1) + e) = 2^(Significand - 1) * 2^e
      BY <1>1, <2>2, PowerPlus
    <3>2. QED
      BY <1>2, <2>1, <2>2, <3>1
  <2>4. x >= s * h
    BY <1>7, <2>3 DEF Spaced
  <2>5. s * h >= s
    BY <1>2, <2>1
  <2>6. s * h \in Nat
    BY <1>2, <2>1
  <2>7. x >= s
    BY <1>2, <2>4, <2>5, <2>6
  <2>8. ToDouble(x, s) <= x + s /\ ToDouble(x, s) \in Nat /\ ToDouble(x, s) >= s * h
    BY <1>2, <2>1, <2>4, ToDoubleBounds
  <2>9. QED
    BY <1>2, <1>3, <2>3, <2>7, <2>8
<1>8. ASSUME e = 0 PROVE Round(x) = x
  <2>1. s = 1
    BY <1>2, <1>8
  <2>2. x % 1 = 0
    OBVIOUS
  <2>3. QED
    BY <1>3, <2>1, <2>2, ToDoubleBounds
<1>9. Round(x) \in Nat /\ \E q \in Nat : Round(x) = s * q
  <2>1. ToDouble(x, s) \in Nat /\ \E q \in Nat : ToDouble(x, s) = s * q
    BY <1>2, ToDoubleBounds
  <2>2. QED
    BY <1>3, <2>1
<1>10. QED
  <2>1. e = 0 \/ e > 0
    BY <1>1
  <2>2. Round(x) <= 2 * x
    BY <1>7, <1>8, <2>1
  <2>3. QED
    BY <1>2, <1>3, <1>6, <1>7, <1>9, <2>2

LEMMA RoundNat ==
  ASSUME NEW x \in Nat, x < Limit
  PROVE  Round(x) \in Nat /\ Round(x) <= 2 * x
BY HasSpacing, RoundWithin

\* Rounding keeps the order.
LEMMA RoundMonotone ==
  ASSUME NEW x \in Nat, NEW y \in Nat, x <= y, y < Limit
  PROVE  Round(x) <= Round(y)
<1>1. x < Limit
  <2>1. Limit \in Nat
    BY Parameters DEF Limit, Exponents
  <2>2. QED
    BY <2>1
<1>2. PICK d : Spaced(x, d) /\ Spacing(x) = 2^d
  BY <1>1, HasSpacing
<1>3. PICK e : Spaced(y, e) /\ Spacing(y) = 2^e
  BY HasSpacing
<1>4. d \in Nat /\ e \in Nat /\ d <= MaxExponent /\ e <= MaxExponent
  BY <1>2, <1>3, Parameters DEF Spaced
<1>5. CASE d = e
  <2>1. 2^e \in Nat /\ 2^e > 0
    BY <1>3, RoundWithin
  <2>2. ToDouble(x, 2^e) <= ToDouble(y, 2^e)
    BY <2>1, ToDoubleMonotone
  <2>3. QED
    BY <1>2, <1>3, <1>5, <2>2, RoundWithin
<1>6. CASE d < e
  <2>1. Round(x) <= 2^(Significand + d) /\ Round(y) >= 2^(Significand + e - 1)
    BY <1>2, <1>3, <1>4, <1>6, RoundWithin
  <2>2. Significand + d \in Exponents /\ Significand + e - 1 \in Exponents
    BY <1>4, <1>6, Parameters DEF Exponents
  <2>3. Significand + d <= Significand + e - 1
    BY <1>4, <1>6, Parameters
  <2>4. 2^(Significand + d) <= 2^(Significand + e - 1)
    BY <2>2, <2>3, PowerMonotone
  <2>5. 2^(Significand + d) \in Nat /\ 2^(Significand + e - 1) \in Nat
    BY <2>2, Parameters
  <2>6. Round(x) \in Nat /\ Round(y) \in Nat
    BY <1>2, <1>3, RoundWithin
  <2>7. QED
    BY <2>1, <2>4, <2>5, <2>6
<1>7. CASE d > e
  <2>1. x >= 2^(Significand + d - 1) /\ y < 2^(Significand + e)
    BY <1>2, <1>3, <1>4, <1>7 DEF Spaced
  <2>2. Significand + e \in Exponents /\ Significand + d - 1 \in Exponents
    BY <1>4, <1>7, Parameters DEF Exponents
  <2>3. Significand + e <= Significand + d - 1
    BY <1>4, <1>7, Parameters
  <2>4. 2^(Significand + e) <= 2^(Significand + d - 1)
    BY <2>2, <2>3, PowerMonotone
  <2>5. 2^(Significand + e) \in Nat /\ 2^(Significand + d - 1) \in Nat
    BY <2>2, Parameters
  <2>6. QED
    BY <2>1, <2>4, <2>5
<1>8. QED
  BY <1>4, <1>5, <1>6, <1>7

\* Multiples.
LEMMA Multiple == ASSUME NEW t \in Nat, t > 0, NEW p \in Nat PROVE (t * p) % t = 0
OBVIOUS

\* A rounded number is not rounded again.
LEMMA RoundAgain ==
  ASSUME NEW x \in Nat, x < Limit, Round(x) < Limit
  PROVE  Round(Round(x)) = Round(x)
<1>1. PICK e : Spaced(x, e) /\ Spacing(x) = 2^e
  BY HasSpacing
<1>2. PICK y : y = Round(x) /\ y \in Nat
  BY <1>1, RoundWithin
<1>3. PICK f : Spaced(y, f) /\ Spacing(y) = 2^f
  BY <1>2, HasSpacing
<1>4. e \in Nat /\ f \in Nat /\ e <= MaxExponent /\ f <= MaxExponent
  BY <1>1, <1>3, Parameters DEF Spaced
<1>5. e \in Exponents /\ f \in Exponents
  BY <1>4, Parameters DEF Exponents
<1>6. PICK s, t : s = 2^e /\ t = 2^f /\ s \in Nat /\ t \in Nat /\ s > 0 /\ t > 0
  BY <1>5, Parameters
<1>7. PICK q \in Nat : y = s * q
  BY <1>1, <1>2, <1>6, RoundWithin
<1>8. SUFFICES y % t = 0
  <2>1. Round(y) = ToDouble(y, t)
    BY <1>2, <1>3, <1>6, RoundWithin
  <2>2. QED
    BY <1>2, <1>6, <1>8, <2>1, ToDoubleBounds
<1>9. CASE f <= e
  <2>1. e - f \in Exponents /\ (e - f) + f = e
    BY <1>4, <1>5, <1>9, Parameters DEF Exponents
  <2>2. PICK u : u = 2^(e - f) /\ u \in Nat
    BY <2>1, Parameters
  <2>3. s = u * t
    BY <1>5, <1>6, <2>1, <2>2, PowerPlus
  <2>4. PICK p \in Nat : p = u * q
    BY <2>2
  <2>5. y = t * p
    <3>1. y = (u * t) * q
      BY <1>7, <2>3
    <3>2. (u * t) * q = t * (u * q)
      BY <1>6, <2>2
    <3>3. QED
      BY <2>4, <3>1, <3>2
  <2>6. (t * p) % t = 0
    BY <1>6, <2>4, Multiple
  <2>7. QED
    BY <2>5, <2>6
<1>10. CASE f > e
  <2>1. y >= 2^(Significand + f - 1) /\ y <= 2^(Significand + e)
    BY <1>1, <1>2, <1>3, <1>4, <1>10, RoundWithin DEF Spaced
  <2>2. /\ Significand + e \in Exponents /\ Significand + f - 1 \in Exponents
        /\ Significand - 1 \in Exponents /\ (Significand - 1) + f = Significand + f - 1
        /\ Significand + e <= Significand + f - 1
    BY <1>4, <1>10, Parameters DEF Exponents
  <2>3. 2^(Significand + e) <= 2^(Significand + f - 1)
    BY <2>2, PowerMonotone
  <2>4. 2^(Significand + e) \in Nat /\ 2^(Significand + f - 1) \in Nat
    BY <2>2, Parameters
  <2>5. y = 2^(Significand + f - 1)
    BY <1>2, <2>1, <2>3, <2>4
  <2>6. PICK h : h = 2^(Significand - 1) /\ h \in Nat
    BY <2>2, Parameters
  <2>7. y = h * t
    BY <1>5, <1>6, <2>2, <2>5, <2>6, PowerPlus
  <2>8. QED
    BY <1>6, <2>6, <2>7
<1>11. QED
  BY <1>4, <1>9, <1>10

LEMMA SpacingBounds ==
  ASSUME NEW x \in Nat, x < Limit
  PROVE  Spacing(x) \in Nat /\ Spacing(x) > 0 /\ Spacing(x) <= x + 1
<1>1. PICK e : Spaced(x, e) /\ Spacing(x) = 2^e
  BY HasSpacing
<1>2. e \in Exponents /\ e \in Nat /\ e <= MaxExponent
  BY <1>1, Parameters DEF Spaced, Exponents
<1>3. Spacing(x) \in Nat /\ Spacing(x) > 0
  BY <1>1, <1>2, Parameters
<1>4. CASE e = 0
  BY <1>1, <1>4
<1>5. CASE e > 0
  <2>1. Significand + e - 1 \in Exponents /\ e <= Significand + e - 1
    BY <1>2, <1>5, Parameters DEF Exponents
  <2>2. 2^e <= 2^(Significand + e - 1) /\ 2^(Significand + e - 1) \in Nat
    BY <1>2, <2>1, PowerMonotone, Parameters
  <2>3. x >= 2^(Significand + e - 1)
    BY <1>1, <1>5 DEF Spaced
  <2>4. QED
    BY <1>1, <1>3, <2>2, <2>3
<1>6. QED
  BY <1>2, <1>3, <1>4, <1>5

\* A division is off by one spacing at most.
LEMMA OverBounds ==
  ASSUME NEW a \in Nat, a < Limit, NEW n \in Nat, n > 0
  PROVE  Over(a, n) \in Nat /\ n * Over(a, n) <= 2 * a + n
<1>1. PICK b : b = a \div n
  OBVIOUS
<1>2. b \in Nat /\ n * b <= a /\ b <= a
  BY <1>1
<1>3. b < Limit
  BY <1>2, Parameters DEF Limit, Exponents
<1>4. PICK s : s = Spacing(b) /\ s \in Nat /\ s > 0 /\ s <= b + 1
  BY <1>2, <1>3, SpacingBounds
<1>5. PICK t : t = n * s
  OBVIOUS
<1>6. t \in Nat /\ t > 0 /\ t <= a + n
  <2>1. n * s <= n * (b + 1)
    BY <1>2, <1>4
  <2>2. n * (b + 1) = n * b + n
    BY <1>2
  <2>3. n * s \in Nat /\ n * s > 0 /\ n * b \in Nat
    BY <1>2, <1>4
  <2>4. QED
    BY <1>2, <1>5, <2>1, <2>2, <2>3
<1>7. PICK d : d = ToDouble(a, t) /\ d \in Nat /\ d <= a + t
  BY <1>6, ToDoubleBounds
<1>8. Over(a, n) = d \div n
  BY <1>1, <1>4, <1>5, <1>7 DEF Over
<1>9. PICK q : q = d \div n
  OBVIOUS
<1>10. q \in Nat /\ n * q <= d /\ n * q \in Nat
  BY <1>7, <1>9
<1>11. QED
  BY <1>6, <1>7, <1>8, <1>9, <1>10

-------------------------------------------------------------------------------
\* The borders of the cells.
Size  == inst.max * Unit
Start == OfInteger(inst.min)
End   == OfInteger(inst.max)
Delta == Over(Minus(End, Start), xPar)

LEMMA InstanceOK ==
  ASSUME inst \in Instances
  PROVE  /\ inst.min \in Nat /\ inst.max \in Nat /\ inst.min < inst.max
         /\ Size \in Nat /\ 256 * (Size + xPar) < Limit /\ Limit \in Nat
         /\ inst.min * Unit \in Nat /\ inst.min * Unit <= Size
<1>1. inst.min \in Nat /\ inst.max \in Nat /\ inst.min < inst.max
  BY InstancesAssumption
<1>2. Size \in Nat /\ inst.min * Unit \in Nat /\ inst.min * Unit <= Size
  BY <1>1, Parameters DEF Size
<1>3. 256 * (Size + xPar) < Limit
  BY BoundAssumption DEF Size
<1>4. Limit \in Nat
  BY Parameters DEF Limit, Exponents
<1>5. QED
  BY <1>1, <1>2, <1>3, <1>4

LEMMA EndsOK ==
  ASSUME inst \in Instances
  PROVE  /\ Start \in Nat /\ End \in Nat /\ Start <= End /\ End <= 2 * Size
         /\ Delta \in Nat /\ xPar * Delta <= 8 * Size + xPar
         /\ Round(Start) = Start
<1>1. /\ Size \in Nat /\ 256 * (Size + xPar) < Limit /\ Limit \in Nat
      /\ inst.min * Unit \in Nat /\ inst.min * Unit <= Size /\ xPar \in Nat /\ xPar > 0
  BY InstanceOK, Parameters
<1>2. PICK m : m = inst.min * Unit /\ m \in Nat /\ m <= Size
  BY <1>1
<1>3. Start = Round(m) /\ End = Round(Size)
  BY <1>2 DEF Start, End, OfInteger, Size
<1>4. m < Limit /\ Size < Limit
  BY <1>1, <1>2
<1>5. Round(m) \in Nat /\ Round(Size) \in Nat /\ Round(Size) <= 2 * Size
  BY <1>1, <1>2, <1>4, RoundNat
<1>6. Round(m) <= Round(Size)
  BY <1>1, <1>2, <1>4, RoundMonotone
<1>7. Round(Round(m)) = Round(m)
  <2>1. Round(m) < Limit
    BY <1>1, <1>5, <1>6
  <2>2. QED
    BY <1>2, <1>4, <2>1, RoundAgain
<1>8. PICK w : w = End - Start /\ w \in Nat /\ w <= 2 * Size
  BY <1>1, <1>3, <1>5, <1>6
<1>9. PICK d : d = Round(w) /\ d \in Nat /\ d <= 2 * w
  <2>1. w < Limit
    BY <1>1, <1>8
  <2>2. QED
    BY <1>8, <2>1, RoundNat
<1>10. Delta = Over(d, xPar)
  BY <1>8, <1>9 DEF Delta, Minus
<1>11. Delta \in Nat /\ xPar * Delta <= 2 * d + xPar
  <2>1. d < Limit
    BY <1>1, <1>8, <1>9
  <2>2. QED
    BY <1>1, <1>9, <1>10, <2>1, OverBounds
<1>12. xPar * Delta \in Nat
  BY <1>1, <1>11
<1>13. QED
  BY <1>1, <1>3, <1>5, <1>6, <1>7, <1>8, <1>9, <1>11, <1>12

\* The border i widths from the start.
Border(i) == Plus(Start, Times(Delta, i))

LEMMA BorderOK ==
  ASSUME inst \in Instances, NEW i \in Nat, i <= xPar
  PROVE  /\ Border(i) \in Nat /\ Border(i) <= 36 * Size + 4 * xPar
         /\ Border(i) < Limit /\ Round(Border(i)) = Border(i)
<1>1. /\ Size \in Nat /\ 256 * (Size + xPar) < Limit /\ Limit \in Nat
      /\ xPar \in Nat /\ xPar > 0
  BY InstanceOK, Parameters
<1>2. /\ Start \in Nat /\ Start <= 2 * Size
      /\ Delta \in Nat /\ xPar * Delta <= 8 * Size + xPar
  BY EndsOK, <1>1
<1>3. PICK t : t = Delta * i /\ t \in Nat /\ t <= 8 * Size + xPar
  <2>1. Delta * i \in Nat /\ Delta * i <= xPar * Delta /\ xPar * Delta \in Nat
    BY <1>1, <1>2
  <2>2. QED
    BY <1>1, <1>2, <2>1
<1>4. PICK r : r = Round(t) /\ r \in Nat /\ r <= 2 * t
  <2>1. t < Limit
    BY <1>1, <1>3
  <2>2. QED
    BY <1>3, <2>1, RoundNat
<1>5. PICK x : x = Start + r /\ x \in Nat /\ x <= 18 * Size + 2 * xPar
  BY <1>1, <1>2, <1>3, <1>4
<1>6. Border(i) = Round(x)
  BY <1>3, <1>4, <1>5 DEF Border, Plus, Times
<1>7. x < Limit
  BY <1>1, <1>5
<1>8. Round(x) \in Nat /\ Round(x) <= 2 * x
  BY <1>5, <1>7, RoundNat
<1>9. Round(x) <= 36 * Size + 4 * xPar /\ Round(x) < Limit
  BY <1>1, <1>5, <1>8
<1>10. Round(Round(x)) = Round(x)
  BY <1>5, <1>7, <1>9, RoundAgain
<1>11. QED
  BY <1>6, <1>8, <1>9, <1>10

LEMMA BorderMonotone ==
  ASSUME inst \in Instances, NEW i \in Nat, NEW j \in Nat, i <= j, j <= xPar
  PROVE  Border(i) <= Border(j)
<1>1. /\ Size \in Nat /\ 256 * (Size + xPar) < Limit /\ Limit \in Nat
      /\ xPar \in Nat /\ xPar > 0
  BY InstanceOK, Parameters
<1>2. /\ Start \in Nat /\ Start <= 2 * Size
      /\ Delta \in Nat /\ xPar * Delta <= 8 * Size + xPar
  BY EndsOK, <1>1
<1>3. PICK t, u : t = Delta * i /\ u = Delta * j
  OBVIOUS
<1>4. t \in Nat /\ u \in Nat /\ t <= u /\ u <= 8 * Size + xPar
  <2>1. /\ Delta * i \in Nat /\ Delta * j \in Nat /\ Delta * i <= Delta * j
        /\ Delta * j <= xPar * Delta /\ xPar * Delta \in Nat
    BY <1>1, <1>2
  <2>2. QED
    BY <1>1, <1>2, <1>3, <2>1
<1>5. u < Limit /\ t < Limit
  BY <1>1, <1>4
<1>6. Round(t) <= Round(u) /\ Round(t) \in Nat /\ Round(u) \in Nat /\ Round(u) <= 2 * u
  BY <1>4, <1>5, RoundMonotone, RoundNat
<1>7. PICK x, y : x = Start + Round(t) /\ y = Start + Round(u)
  OBVIOUS
<1>8. x \in Nat /\ y \in Nat /\ x <= y /\ y < Limit
  BY <1>1, <1>2, <1>4, <1>6, <1>7
<1>9. Border(i) = Round(x) /\ Border(j) = Round(y)
  BY <1>3, <1>7 DEF Border, Plus, Times
<1>10. QED
  BY <1>8, <1>9, RoundMonotone

LEMMA BorderStart ==
  ASSUME inst \in Instances
  PROVE  Border(0) = Start
<1>1. Start \in Nat /\ Delta \in Nat /\ Round(Start) = Start
  BY EndsOK
<1>2. Delta * 0 = 0
  BY <1>1
<1>3. Round(0) = 0
  <2>1. 0 < Limit
    BY Parameters DEF Limit, Exponents
  <2>2. Round(0) \in Nat /\ Round(0) <= 2 * 0
    BY <2>1, RoundNat
  <2>3. QED
    BY <2>2
<1>4. Start + 0 = Start
  BY <1>1
<1>5. QED
  BY <1>1, <1>2, <1>3, <1>4 DEF Border, Plus, Times

LEMMA LinspaceIs ==
  /\ \A c \in GridCells : linspace[c] = Border(c)
  /\ linspace[1] = IF xPar = 1 THEN End ELSE Border(1)
<1>1. linspace = [i \in 0..xPar |-> IF i = xPar THEN End ELSE Border(i)]
  BY DEF linspace, Border, Start, End, Delta
<1>2. xPar \in Nat /\ xPar > 0
  BY Parameters
<1>3. 1 \in 0..xPar /\ \A c \in GridCells : c \in 0..xPar /\ c # xPar
  BY <1>2 DEF GridCells
<1>4. QED
  BY <1>1, <1>3

\* The borders are numbers that are not rounded again, and ascend.
Upper(c) == Plus(Border(c), delX)

LEMMA Borders ==
  ASSUME inst \in Instances
  PROVE  /\ \A c \in GridCells :
              /\ linspace[c] = Border(c) /\ upperBorder(c) = Upper(c)
              /\ Border(c) \in Nat /\ Upper(c) \in Nat
              /\ Border(c) < Limit /\ Round(Border(c)) = Border(c)
         /\ \A c, d \in GridCells :
              c <= d => Border(c) <= Border(d) /\ Upper(c) <= Upper(d)
<1>1. /\ Size \in Nat /\ 256 * (Size + xPar) < Limit /\ Limit \in Nat
      /\ xPar \in Nat /\ xPar > 0
  BY InstanceOK, Parameters
<1>2. \A c \in GridCells : c \in Nat /\ c <= xPar
  BY <1>1 DEF GridCells
<1>3. \A c \in GridCells : /\ Border(c) \in Nat /\ Border(c) <= 36 * Size + 4 * xPar
                           /\ Border(c) < Limit /\ Round(Border(c)) = Border(c)
  BY <1>2, BorderOK
<1>4. \A c, d \in GridCells : c <= d => Border(c) <= Border(d)
  BY <1>2, BorderMonotone
<1>5. PICK l, m : l = linspace[0] /\ m = linspace[1]
  OBVIOUS
<1>6. l \in Nat /\ m \in Nat /\ l <= m /\ m <= 36 * Size + 4 * xPar
  <2>1. l = Start
    <3>1. 0 \in GridCells
      BY <1>1 DEF GridCells
    <3>2. QED
      BY <1>5, <3>1, BorderStart, LinspaceIs
  <2>2. Start \in Nat /\ End \in Nat /\ Start <= End /\ End <= 2 * Size
    BY EndsOK
  <2>3. CASE xPar = 1
    <3>1. m = End
      BY <1>5, <2>3, LinspaceIs
    <3>2. QED
      BY <1>1, <2>1, <2>2, <3>1
  <2>4. CASE xPar # 1
    <3>1. m = Border(1)
      BY <1>5, <2>4, LinspaceIs
    <3>2. 1 <= xPar /\ 1 \in Nat /\ 0 \in Nat /\ 0 <= 1
      BY <1>1
    <3>3. Border(1) \in Nat /\ Border(1) <= 36 * Size + 4 * xPar /\ Border(0) <= Border(1)
      BY <3>2, BorderOK, BorderMonotone
    <3>4. QED
      BY <2>1, <2>2, <3>1, <3>3, BorderStart
  <2>5. QED
    BY <2>3, <2>4
<1>7. PICK w : w = delX /\ w \in Nat /\ w <= 72 * Size + 8 * xPar
  <2>1. PICK v : v = m - l /\ v \in Nat /\ v <= 36 * Size + 4 * xPar
    BY <1>1, <1>6
  <2>2. v < Limit
    BY <1>1, <2>1
  <2>3. Round(v) \in Nat /\ Round(v) <= 2 * v
    BY <2>1, <2>2, RoundNat
  <2>4. delX = Round(v)
    BY <1>5, <2>1 DEF delX, Minus
  <2>5. QED
    BY <1>1, <2>1, <2>3, <2>4
<1>8. \A c \in GridCells : Upper(c) = Round(Border(c) + w)
  BY <1>7 DEF Upper, Plus
<1>9. \A c \in GridCells : Border(c) + w \in Nat /\ Border(c) + w < Limit
  BY <1>1, <1>3, <1>7
<1>10. \A c \in GridCells : Upper(c) \in Nat
  BY <1>8, <1>9, RoundNat
<1>11. ASSUME NEW c \in GridCells, NEW d \in GridCells, c <= d
       PROVE  Upper(c) <= Upper(d)
  <2>1. PICK x, y : x = Border(c) + w /\ y = Border(d) + w
    OBVIOUS
  <2>2. Border(c) \in Nat /\ Border(d) \in Nat /\ Border(c) <= Border(d)
    BY <1>3, <1>4, <1>11
  <2>3. x \in Nat /\ y \in Nat /\ x <= y /\ y < Limit
    BY <1>7, <1>9, <2>1, <2>2
  <2>4. Round(x) <= Round(y)
    BY <2>3, RoundMonotone
  <2>5. QED
    BY <1>8, <2>1, <2>4
<1>12. \A c \in GridCells : linspace[c] = Border(c) /\ upperBorder(c) = Upper(c)
  BY LinspaceIs DEF upperBorder, Upper
<1>13. QED
  BY <1>3, <1>4, <1>10, <1>11, <1>12

-------------------------------------------------------------------------------
\* The leaves.
LEMMA LeavesOK ==
  ASSUME inst \in Instances
  PROVE  /\ Len(inst.leaves) \in Nat /\ Len(inst.leaves) > 0
         /\ LeafNumbers = 1..Len(inst.leaves)
         /\ \A j \in LeafNumbers : /\ inst.leaves[j] # {} /\ IsFiniteSet(inst.leaves[j])
                                   /\ inst.leaves[j] \subseteq Nat
         /\ \A i, j \in LeafNumbers :
              i < j => \A h \in inst.leaves[i], k \in inst.leaves[j] : h < k
         /\ \A j \in LeafNumbers : \A k \in inst.leaves[j] : k * Unit < Limit
<1>1. PICK s : s = inst.leaves
  OBVIOUS
<1>2. /\ s \in Seq(SUBSET Nat) /\ s # <<>>
      /\ \A j \in DOMAIN s : s[j] # {} /\ IsFiniteSet(s[j])
      /\ \A i, j \in DOMAIN s : i < j => \A h \in s[i], k \in s[j] : h < k
  BY <1>1, InstancesAssumption
<1>3. \A j \in DOMAIN s : \A k \in s[j] : k * Unit < Limit
  BY <1>1, BoundAssumption
<1>4. Len(s) \in Nat /\ DOMAIN s = 1..Len(s) /\ Len(s) > 0
  BY <1>2
<1>5. \A j \in DOMAIN s : s[j] \subseteq Nat
  BY <1>2, <1>4
<1>6. QED
  BY <1>1, <1>2, <1>3, <1>4, <1>5 DEF LeafNumbers

\* The greatest key of a leaf.
LEMMA GreatestKey ==
  ASSUME inst \in Instances, NEW j \in LeafNumbers
  PROVE  /\ Max(inst.leaves[j]) \in inst.leaves[j] /\ Max(inst.leaves[j]) \in Nat
         /\ \A h \in inst.leaves[j] : h <= Max(inst.leaves[j])
BY LeavesOK, MaxOf

\* Keys of different leaves are ordered as their leaves are, so a key is in one leaf.
LEMMA LeafOrder ==
  ASSUME inst \in Instances, NEW i \in LeafNumbers, NEW j \in LeafNumbers,
         NEW h \in inst.leaves[i], NEW k \in inst.leaves[j]
  PROVE  /\ h \in Nat /\ k \in Nat /\ i \in Nat /\ j \in Nat
         /\ i < j => h < k
         /\ h < k => i <= j
         /\ h = k => i = j
<1>1. h \in Nat /\ k \in Nat /\ i \in Nat /\ j \in Nat
  BY LeavesOK
<1>2. (i < j => h < k) /\ (j < i => k < h)
  BY LeavesOK
<1>3. QED
  BY <1>1, <1>2

LEMMA InitKeysOK ==
  ASSUME inst \in Instances
  PROVE  /\ InitKeys \subseteq Nat /\ IsFiniteSet(InitKeys) /\ Cardinality(InitKeys) \in Nat
         /\ \A h : h \in InitKeys <=> \E j \in LeafNumbers : h \in inst.leaves[j]
<1>1. \A h : h \in InitKeys <=> \E j \in LeafNumbers : h \in inst.leaves[j]
  BY DEF InitKeys
<1>2. PICK n : n = Len(inst.leaves) /\ n \in LeafNumbers /\ \A j \in LeafNumbers : j \in Nat /\ j <= n
  BY LeavesOK
<1>3. PICK m : m = Max(inst.leaves[n]) /\ m \in inst.leaves[n] /\ m \in Nat
  BY <1>2, GreatestKey
<1>4. ASSUME NEW h \in InitKeys PROVE h \in 0..m
  <2>1. PICK j \in LeafNumbers : h \in inst.leaves[j]
    BY <1>1
  <2>2. h \in Nat
    BY <2>1, LeavesOK
  <2>3. CASE j = n
    BY <1>2, <1>3, <2>1, <2>2, <2>3, GreatestKey
  <2>4. CASE j # n
    <3>1. j < n
      BY <1>2, <2>1, <2>4
    <3>2. h < m
      BY <1>2, <1>3, <2>1, <3>1, LeafOrder
    <3>3. QED
      BY <1>3, <2>2, <3>2
  <2>5. QED
    BY <2>3, <2>4
<1>5. IsFiniteSet(0..m)
  BY <1>3, FS_Interval
<1>6. IsFiniteSet(InitKeys)
  BY <1>4, <1>5, FS_Subset
<1>7. InitKeys \subseteq Nat
  BY <1>3, <1>4
<1>8. QED
  BY <1>1, <1>6, <1>7, FS_CardinalityType

\* A search ends behind all leaves whose keys are less, at the first one with a key
\* that is not, or at the last leaf.
LEMMA LeafOfOK ==
  ASSUME inst \in Instances, NEW k \in Nat, NEW l, l = LeafOf(k)
  PROVE  /\ l \in LeafNumbers
         /\ \A j \in LeafNumbers : j < l => \A h \in inst.leaves[j] : h < k
         /\ \/ Max(inst.leaves[l]) >= k
            \/ /\ l = Len(inst.leaves)
               /\ \A j \in LeafNumbers : \A h \in inst.leaves[j] : h < k
<1>1. PICK S : S = {j \in LeafNumbers : Max(inst.leaves[j]) >= k}
  OBVIOUS
<1>2. l = IF S = {} THEN Len(inst.leaves) ELSE Min(S)
  BY <1>1 DEF LeafOf
<1>3. LeafNumbers \subseteq Nat /\ Len(inst.leaves) \in LeafNumbers
  BY LeavesOK
<1>4. ASSUME NEW j \in LeafNumbers, j \notin S, NEW h \in inst.leaves[j] PROVE h < k
  <2>1. h <= Max(inst.leaves[j]) /\ Max(inst.leaves[j]) \in Nat /\ h \in Nat
    BY GreatestKey, LeavesOK
  <2>2. ~(Max(inst.leaves[j]) >= k)
    BY <1>1, <1>4
  <2>3. QED
    BY <2>1, <2>2
<1>5. CASE S = {}
  BY <1>2, <1>3, <1>4, <1>5
<1>6. CASE S # {}
  <2>1. S \subseteq Nat
    BY <1>1, <1>3
  <2>2. Min(S) \in S /\ \A y \in S : Min(S) <= y
    BY <1>6, <2>1, MinOf
  <2>3. l \in S /\ \A y \in S : l <= y
    BY <1>2, <1>6, <2>2
  <2>4. \A j \in LeafNumbers : j < l => j \notin S
    BY <1>3, <2>1, <2>3
  <2>5. QED
    BY <1>1, <1>4, <2>3, <2>4
<1>7. QED
  BY <1>5, <1>6

\* A scan returns all keys of its leaf from k on, or as many as it was asked for.
Onwards(k) == {h \in inst.leaves[LeafOf(k)] : h >= k}

LEMMA EntriesOK ==
  ASSUME inst \in Instances, NEW k \in Nat, NEW most \in Nat
  PROVE  /\ IsFiniteSet(Onwards(k)) /\ Onwards(k) \subseteq Nat
         /\ Entries(k, most) \subseteq Onwards(k)
         /\ IsFiniteSet(Entries(k, most)) /\ Cardinality(Entries(k, most)) \in Nat
         /\ Entries(k, most) = Onwards(k) \/ Cardinality(Entries(k, most)) >= most
<1>1. PICK l : l = LeafOf(k)
  OBVIOUS
<1>2. l \in LeafNumbers
  BY <1>1, LeafOfOK
<1>3. PICK O : O = Onwards(k)
  OBVIOUS
<1>4. PICK E : E = Entries(k, most)
  OBVIOUS
<1>5. O \subseteq inst.leaves[l] /\ IsFiniteSet(O) /\ O \subseteq Nat
  <2>1. O \subseteq inst.leaves[l]
    BY <1>1, <1>3 DEF Onwards
  <2>2. IsFiniteSet(inst.leaves[l]) /\ inst.leaves[l] \subseteq Nat
    BY <1>2, LeavesOK
  <2>3. QED
    BY <2>1, <2>2, FS_Subset
<1>6. E = {h \in O : Cardinality({g \in O : g < h}) < most}
  BY <1>3, <1>4 DEF Entries, Onwards
<1>7. E \subseteq O /\ IsFiniteSet(E) /\ Cardinality(E) \in Nat
  <2>1. E \subseteq O
    BY <1>6
  <2>2. QED
    BY <1>5, <2>1, FS_Subset, FS_CardinalityType
<1>8. ASSUME E # O PROVE Cardinality(E) >= most
  <2>1. PICK h \in O \ E : \A i \in O \ E : h <= i
    <3>1. O \ E # {} /\ O \ E \subseteq Nat
      BY <1>5, <1>7, <1>8
    <3>2. \E h \in O \ E : \A i \in O \ E : h <= i
      BY <3>1, LeastNumber
    <3>3. QED
      BY <3>2
  <2>2. PICK B : B = {g \in O : g < h}
    OBVIOUS
  <2>3. B \subseteq E
    <3>1. ASSUME NEW g \in B, g \notin E PROVE FALSE
      <4>1. g \in O \ E /\ g < h
        BY <2>2, <3>1
      <4>2. g \in Nat /\ h \in Nat /\ h <= g
        BY <1>5, <2>1, <4>1
      <4>3. QED
        BY <4>1, <4>2
    <3>2. QED
      BY <3>1
  <2>4. IsFiniteSet(B) /\ Cardinality(B) <= Cardinality(E)
    BY <1>7, <2>3, FS_Subset
  <2>5. Cardinality(B) \in Nat
    BY <2>4, FS_CardinalityType
  <2>6. ~(Cardinality(B) < most)
    BY <1>6, <2>1, <2>2
  <2>7. QED
    BY <1>7, <2>4, <2>5, <2>6
<1>9. QED
  BY <1>3, <1>4, <1>5, <1>7, <1>8

\* Asked for as many as there are keys, it returns all of them.
LEMMA AllEntries ==
  ASSUME inst \in Instances, NEW k \in Nat
  PROVE  Entries(k, Cardinality(InitKeys)) = Onwards(k)
<1>1. PICK n : n = Cardinality(InitKeys) /\ n \in Nat
  BY InitKeysOK
<1>2. PICK E : E = Entries(k, n)
  OBVIOUS
<1>3. PICK O : O = Onwards(k)
  OBVIOUS
<1>4. O \subseteq InitKeys
  <2>1. PICK l : l = LeafOf(k)
    OBVIOUS
  <2>2. l \in LeafNumbers /\ O \subseteq inst.leaves[l]
    BY <1>3, <2>1, LeafOfOK DEF Onwards
  <2>3. QED
    BY <2>2, InitKeysOK
<1>5. E \subseteq O /\ (E = O \/ Cardinality(E) >= n)
  BY <1>1, <1>2, <1>3, EntriesOK
<1>6. ASSUME Cardinality(E) >= n PROVE E = InitKeys
  <2>1. E \subseteq InitKeys /\ IsFiniteSet(InitKeys)
    BY <1>4, <1>5, InitKeysOK
  <2>2. IsFiniteSet(E) /\ Cardinality(E) <= n
    BY <1>1, <2>1, FS_Subset
  <2>3. Cardinality(E) = n
    BY <1>1, <1>6, <2>2, FS_CardinalityType
  <2>4. QED
    BY <1>1, <2>1, <2>3, FS_Subset
<1>7. E = O
  BY <1>4, <1>5, <1>6
<1>8. QED
  BY <1>1, <1>2, <1>3, <1>7

-------------------------------------------------------------------------------
(***************************************************************************)
(* The types, and what stays as it is once it is computed: borders that    *)
(* ascend and are not rounded again, and the number of keys of each cell.  *)
(***************************************************************************)
Registered == pc # "register"
BordersAscend ==
  Registered =>
    /\ \A c \in GridCells : glbGridCell[c].lx < Limit /\ Round(glbGridCell[c].lx) = glbGridCell[c].lx
    /\ \A c, d \in GridCells :
         c <= d => glbGridCell[c].lx <= glbGridCell[d].lx /\ glbGridCell[c].hx <= glbGridCell[d].hx

Distributed ==
  pc \notin {"register", "distribution"} =>
    DataDist = [c \in GridCells |-> Cardinality(KeysOf(c))]

Calls ==
  /\ pc \in {"register", "distribution"} => gc = 0
  /\ pc = "move" => count < DataDist[gc]
  /\ pc \in {"divide", "next", "done"} => gc = xPar

TypeInv ==
  /\ inst \in Instances
  /\ TypeOK
  /\ BordersAscend
  /\ Distributed
  /\ Calls

LEMMA KeysOfCounted ==
  ASSUME inst \in Instances
  PROVE  \A c : /\ KeysOf(c) \subseteq InitKeys /\ IsFiniteSet(KeysOf(c))
                /\ Cardinality(KeysOf(c)) \in 0..Cardinality(InitKeys)
<1> TAKE c
<1>1. PICK S : S = KeysOf(c)
  OBVIOUS
<1>2. S \subseteq InitKeys
  BY <1>1 DEF KeysOf
<1>3. IsFiniteSet(S) /\ Cardinality(S) <= Cardinality(InitKeys)
  BY <1>2, InitKeysOK, FS_Subset
<1>4. Cardinality(S) \in Nat /\ Cardinality(InitKeys) \in Nat
  BY <1>3, InitKeysOK, FS_CardinalityType
<1>5. QED
  BY <1>1, <1>2, <1>3, <1>4

\* The tree and its keys stay.
LEMMA TreeSame ==
  ASSUME inst' = inst
  PROVE  /\ TreeNodes' = TreeNodes /\ InitKeys' = InitKeys /\ LeafNumbers' = LeafNumbers
         /\ InnerNodes' = InnerNodes /\ Cardinality(InitKeys)' = Cardinality(InitKeys)
BY DEF TreeNodes, InnerNodes, InitKeys, LeafNumbers

LEMMA KeysSame ==
  ASSUME inst' = inst, glbGridCell' = glbGridCell
  PROVE  /\ \A k, c : InCell(k, c)' = InCell(k, c)
         /\ \A c : KeysOf(c)' = KeysOf(c)
         /\ \A k : CellsOf(k)' = CellsOf(k)
         /\ \A c : FirstKey(c)' = FirstKey(c)
BY DEF InCell, KeysOf, InitKeys, LeafNumbers, CellsOf, FirstKey

LEMMA VisitFinite ==
  ASSUME NEW j
  PROVE  IsFiniteSet(Descent(j)) /\ IsFiniteSet({leaf(j)})
<1>1. IsFiniteSet({Root}) /\ IsFiniteSet({Root} \cup {inner(j)})
  BY FS_Singleton, FS_AddElement
<1>2. IsFiniteSet(({Root} \cup {inner(j)}) \cup {leaf(j)})
  BY <1>1, FS_AddElement
<1>3. Descent(j) = ({Root} \cup {inner(j)}) \cup {leaf(j)}
  BY DEF Descent
<1>4. QED
  BY <1>2, <1>3, FS_Singleton

\* What a call does after a scan, typed.
LEMMA ContinueTyped ==
  ASSUME TypeInv, pc \in {"scan", "move"},
         NEW found, found \subseteq Nat, IsFiniteSet(found), NEW total \in Nat,
         Continue(found, total)
  PROVE  /\ count' \in 0..Cardinality(InitKeys) /\ nextKey' \in Nat
         /\ gc' \in 0..xPar /\ pc' \in {"scan", "move", "divide"}
         /\ pc' \in {"scan", "move"} => gc' \in GridCells
         /\ pc' = "divide" => gc' = xPar
         /\ pc' = "move" => count' < DataDist[gc']
<1>1. gc \in GridCells /\ DataDist[gc] \in 0..Cardinality(InitKeys) /\ nextKey \in Nat
  BY DEF TypeInv, TypeOK
<1>2. xPar \in Nat /\ xPar > 0 /\ Cardinality(InitKeys) \in Nat
  BY Parameters, InitKeysOK DEF TypeInv
<1>3. CASE EndOfCall(found, total)
  <2>1. count' = 0 /\ nextKey' = 0 /\ gc' = gc + 1 /\ pc' = IF MoreCells THEN "scan" ELSE "divide"
    BY <1>3 DEF Continue
  <2>2. QED
    BY <1>1, <1>2, <2>1 DEF MoreCells, GridCells
<1>4. CASE ~EndOfCall(found, total)
  <2>1. /\ count' = total /\ gc' = gc /\ pc' = "move"
        /\ nextKey' = IF found = {} THEN nextKey ELSE incKey(Max(found))
    BY <1>4 DEF Continue
  <2>2. ~(total >= DataDist[gc]) /\ found # {}
    BY <1>4 DEF EndOfCall
  <2>3. Max(found) \in Nat
    BY <2>2, MaxOf
  <2>4. count' \in 0..Cardinality(InitKeys)
    BY <1>1, <1>2, <2>1, <2>2
  <2>5. nextKey' \in Nat
    <3>1. PICK m : m = Max(found) /\ m \in Nat
      BY <2>3
    <3>2. nextKey' = m + 1
      BY <2>1, <2>2, <3>1 DEF incKey
    <3>3. QED
      BY <3>1, <3>2
  <2>6. gc \in 0..xPar
    BY <1>1, <1>2 DEF GridCells
  <2>7. count' < DataDist[gc']
    BY <1>1, <2>1, <2>2
  <2>8. QED
    BY <1>1, <2>1, <2>4, <2>5, <2>6, <2>7
<1>5. QED
  BY <1>3, <1>4

\* What the counting does, typed.
LEMMA TallyTyped ==
  ASSUME TypeInv, pc \in {"divide", "next"}, NEW visited, IsFiniteSet(visited),
         NEW k \in Nat, full_scan(k, visited)
  PROVE  TypeInv'
<1>1. \A m : Cardinality({n \in visited : place[n] = m}) \in Nat
  <2> TAKE m
  <2>1. {n \in visited : place[n] = m} \subseteq visited
    OBVIOUS
  <2>2. QED
    BY <2>1, FS_Subset, FS_CardinalityType
<1>2. numa_nodes' = [m \in DOMAIN numa_nodes |->
                       numa_nodes[m] + Cardinality({n \in visited : place[n] = m})]
  BY DEF full_scan, Tally
<1>3. numa_nodes \in [NumaNodes \cup {Allocated} -> Nat]
  BY DEF TypeInv, TypeOK
<1>4. numa_nodes' \in [NumaNodes \cup {Allocated} -> Nat]
  <2>1. DOMAIN numa_nodes = NumaNodes \cup {Allocated}
    BY <1>3
  <2>2. \A m \in NumaNodes \cup {Allocated} :
          numa_nodes[m] + Cardinality({n \in visited : place[n] = m}) \in Nat
    <3>1. ASSUME NEW m \in NumaNodes \cup {Allocated}, NEW q, q = Cardinality({n \in visited : place[n] = m})
          PROVE  numa_nodes[m] + q \in Nat
      <4>1. q \in Nat /\ numa_nodes[m] \in Nat
        BY <1>1, <1>3, <3>1
      <4>2. QED
        BY <4>1
    <3>2. QED
      BY <3>1
  <2>3. QED
    BY <1>2, <2>1, <2>2
<1>5. /\ UNCHANGED <<inst, numaConfig, glbGridCell, DataDist, place, gc, count>>
      /\ pc' \in {"done", "next"}
  BY DEF full_scan
<1>6. nextKey' \in Nat
  <2>1. PICK found : found = {h \in Entries(k, Cardinality(InitKeys)) : h < key2}
    OBVIOUS
  <2>2. found \subseteq Nat /\ IsFiniteSet(found)
    <3>1. /\ Entries(k, Cardinality(InitKeys)) \subseteq Onwards(k) /\ Onwards(k) \subseteq Nat
          /\ IsFiniteSet(Entries(k, Cardinality(InitKeys)))
      BY EntriesOK, InitKeysOK DEF TypeInv
    <3>2. found \subseteq Entries(k, Cardinality(InitKeys))
      BY <2>1
    <3>3. QED
      BY <3>1, <3>2, FS_Subset
  <2>3. nextKey' = 0 \/ (found # {} /\ nextKey' = incKey(Max(found)))
    BY <2>1 DEF full_scan
  <2>4. CASE found # {}
    <3>1. PICK m : m = Max(found) /\ m \in Nat
      BY <2>2, <2>4, MaxOf
    <3>2. nextKey' = 0 \/ nextKey' = m + 1
      BY <2>3, <3>1 DEF incKey
    <3>3. QED
      BY <3>1, <3>2
  <2>5. QED
    BY <2>3, <2>4
<1>7. gc = xPar
  BY DEF TypeInv, Calls
<1>8. /\ TreeNodes' = TreeNodes /\ Cardinality(InitKeys)' = Cardinality(InitKeys)
      /\ \A c : KeysOf(c)' = KeysOf(c)
  BY <1>5, TreeSame, KeysSame
<1>9. TypeOK'
  BY <1>4, <1>5, <1>6, <1>8 DEF TypeInv, TypeOK
<1>10. BordersAscend'
  BY <1>5 DEF TypeInv, BordersAscend, Registered
<1>11. Distributed'
  BY <1>5, <1>8 DEF TypeInv, Distributed
<1>12. QED
  BY <1>5, <1>7, <1>9, <1>10, <1>11 DEF TypeInv, Calls

LEMMA KeyRange == ASSUME inst \in Instances PROVE key1 \in Nat /\ key2 \in Nat
<1>1. Start \in Nat /\ End \in Nat /\ Unit \in Nat /\ Unit > 0
  BY EndsOK, Parameters
<1>2. Start \div Unit \in Nat /\ End \div Unit \in Nat
  BY <1>1
<1>3. QED
  BY <1>2 DEF key1, key2, ToInteger, Start, End

LEMMA FirstKeyNat == ASSUME TypeInv, NEW c \in GridCells PROVE FirstKey(c) \in Nat
<1>1. glbGridCell[c].lx \in Nat /\ Unit \in Nat /\ Unit > 0
  BY Parameters DEF TypeInv, TypeOK
<1>2. QED
  BY <1>1 DEF FirstKey, ToInteger

\* The steps of enforce_scheduling keep what TypeInv says of the rest.
LEMMA CallTyped ==
  ASSUME TypeInv, pc \in {"scan", "move"},
         UNCHANGED <<inst, numaConfig, glbGridCell, DataDist, numa_nodes>>,
         place' \in [TreeNodes -> NumaNodes \cup {Allocated}],
         NEW found, found \subseteq Nat, IsFiniteSet(found), NEW total \in Nat,
         Continue(found, total)
  PROVE  TypeInv'
<1>1. /\ count' \in 0..Cardinality(InitKeys) /\ nextKey' \in Nat
      /\ gc' \in 0..xPar /\ pc' \in {"scan", "move", "divide"}
      /\ pc' \in {"scan", "move"} => gc' \in GridCells
      /\ pc' = "divide" => gc' = xPar
      /\ pc' = "move" => count' < DataDist[gc']
  BY ContinueTyped
<1>2. /\ TreeNodes' = TreeNodes /\ Cardinality(InitKeys)' = Cardinality(InitKeys)
      /\ \A c : KeysOf(c)' = KeysOf(c)
  BY TreeSame, KeysSame
<1>3. TypeOK'
  BY <1>1, <1>2 DEF TypeInv, TypeOK
<1>4. BordersAscend'
  BY DEF TypeInv, BordersAscend, Registered
<1>5. Distributed'
  BY <1>2 DEF TypeInv, Distributed
<1>6. QED
  BY <1>1, <1>3, <1>4, <1>5 DEF TypeInv, Calls

LEMMA EntriesTyped ==
  ASSUME inst \in Instances, NEW k \in Nat, NEW most \in Nat
  PROVE  /\ Entries(k, most) \subseteq Nat /\ IsFiniteSet(Entries(k, most))
         /\ Cardinality(Entries(k, most)) \in Nat
BY EntriesOK

LEMMA InitTyped == Init => TypeInv
<1> SUFFICES ASSUME Init PROVE TypeInv
  OBVIOUS
<1>1. inst \in Instances
  BY DEF Init
<1>2. Cardinality(InitKeys) \in Nat /\ xPar \in Nat
  BY <1>1, InitKeysOK, Parameters
<1>3. TypeOK
  BY <1>2 DEF Init, TypeOK
<1>4. QED
  BY <1>1, <1>3 DEF TypeInv, Init, BordersAscend, Registered, Distributed, Calls

LEMMA NextTyped ==
  ASSUME TypeInv, [Next]_vars
  PROVE  TypeInv'
<1>1. inst \in Instances /\ Cardinality(InitKeys) \in Nat
  BY InitKeysOK DEF TypeInv
<1>2. CASE register_grid_cells
  <2>1. \A c \in GridCells :
          /\ linspace[c] = Border(c) /\ upperBorder(c) = Upper(c)
          /\ Border(c) \in Nat /\ Upper(c) \in Nat
          /\ Border(c) < Limit /\ Round(Border(c)) = Border(c)
    BY <1>1, Borders
  <2>2. \A c, d \in GridCells : c <= d => Border(c) <= Border(d) /\ Upper(c) <= Upper(d)
    BY <1>1, Borders
  <2>3. glbGridCell' = [c \in GridCells |-> [lx |-> Border(c), hx |-> Upper(c)]]
    BY <1>2, <2>1 DEF register_grid_cells
  <2>4. /\ UNCHANGED <<inst, numaConfig, DataDist, place, gc, count, nextKey, numa_nodes>>
        /\ pc = "register" /\ pc' = "distribution"
    BY <1>2 DEF register_grid_cells
  <2>5. TreeNodes' = TreeNodes /\ Cardinality(InitKeys)' = Cardinality(InitKeys)
    BY <2>4, TreeSame
  <2>6. glbGridCell' \in [GridCells -> [lx : Nat, hx : Nat]]
    BY <2>1, <2>3
  <2>7. TypeOK'
    BY <2>4, <2>5, <2>6 DEF TypeInv, TypeOK
  <2>8. BordersAscend'
    <3>1. \A c \in GridCells : glbGridCell'[c].lx = Border(c) /\ glbGridCell'[c].hx = Upper(c)
      BY <2>3
    <3>2. QED
      BY <2>1, <2>2, <3>1 DEF BordersAscend
  <2>9. QED
    BY <1>1, <2>4, <2>7, <2>8 DEF TypeInv, Distributed, Calls
<1>3. CASE buildDataDistIdx
  <2>1. /\ UNCHANGED <<inst, numaConfig, glbGridCell, place, gc, count, nextKey, numa_nodes>>
        /\ pc = "distribution" /\ pc' = "scan"
        /\ DataDist' = [c \in GridCells |-> Cardinality(KeysOf(c))]
    BY <1>3 DEF buildDataDistIdx
  <2>2. /\ TreeNodes' = TreeNodes /\ Cardinality(InitKeys)' = Cardinality(InitKeys)
        /\ \A c : KeysOf(c)' = KeysOf(c)
    BY <2>1, TreeSame, KeysSame
  <2>3. DataDist' \in [GridCells -> 0..Cardinality(InitKeys)]
    BY <1>1, <2>1, KeysOfCounted
  <2>4. gc = 0 /\ 0 \in GridCells
    BY <2>1, Parameters DEF TypeInv, Calls, GridCells
  <2>5. TypeOK'
    BY <2>1, <2>2, <2>3, <2>4 DEF TypeInv, TypeOK
  <2>6. BordersAscend'
    BY <2>1 DEF TypeInv, BordersAscend, Registered
  <2>7. Distributed'
    BY <2>1, <2>2 DEF Distributed
  <2>8. QED
    BY <1>1, <2>1, <2>5, <2>6, <2>7 DEF TypeInv, Calls
<1>4. CASE ScanFirst
  <2>1. pc = "scan" /\ gc \in GridCells /\ DataDist[gc] \in Nat
    BY <1>1, <1>4 DEF ScanFirst, TypeInv, TypeOK
  <2>2. PICK found : found = Entries(FirstKey(gc), DataDist[gc])
    OBVIOUS
  <2>3. found \subseteq Nat /\ IsFiniteSet(found) /\ Cardinality(found) \in Nat
    BY <1>1, <2>1, <2>2, FirstKeyNat, EntriesTyped
  <2>4. Continue(found, Cardinality(found))
    BY <1>4, <2>2 DEF ScanFirst
  <2>5. place' \in [TreeNodes -> NumaNodes \cup {Allocated}]
    BY <1>4 DEF ScanFirst, TypeInv, TypeOK
  <2>6. UNCHANGED <<inst, numaConfig, glbGridCell, DataDist, numa_nodes>>
    BY <1>4 DEF ScanFirst
  <2>7. QED
    BY <2>1, <2>3, <2>4, <2>5, <2>6, CallTyped
<1>5. CASE migratory_scan_
  <2>1. /\ pc = "move" /\ gc \in GridCells /\ DataDist[gc] \in Nat /\ count \in Nat
        /\ nextKey \in Nat
    BY <1>1, <1>5 DEF migratory_scan_, TypeInv, TypeOK
  <2>2. PICK found : found = Entries(nextKey, DataDist[gc] - count)
    OBVIOUS
  <2>3. DataDist[gc] - count \in Nat
    BY <2>1 DEF TypeInv, Calls
  <2>4. found \subseteq Nat /\ IsFiniteSet(found) /\ Cardinality(found) \in Nat
    BY <1>1, <2>1, <2>2, <2>3, EntriesTyped
  <2>5. Continue(found, count + Cardinality(found)) /\ count + Cardinality(found) \in Nat
    BY <1>5, <2>1, <2>2, <2>4 DEF migratory_scan_
  <2>6. place' \in [TreeNodes -> NumaNodes \cup {Allocated}]
    <3>1. numaConfig[gc] \in NumaNodes
      BY <2>1 DEF TypeInv, TypeOK
    <3>2. place \in [TreeNodes -> NumaNodes \cup {Allocated}]
      BY DEF TypeInv, TypeOK
    <3>3. place' = [n \in TreeNodes |-> IF n \in OnTheWay(nextKey) THEN numaConfig[gc] ELSE place[n]]
      BY <1>5 DEF migratory_scan_
    <3>4. QED
      BY <3>1, <3>2, <3>3
  <2>7. UNCHANGED <<inst, numaConfig, glbGridCell, DataDist, numa_nodes>>
    BY <1>5 DEF migratory_scan_
  <2>8. QED
    BY <2>1, <2>4, <2>5, <2>6, <2>7, CallTyped
<1>6. CASE DivideFirst
  <2>1. pc = "divide" /\ full_scan(key1, Descent(LeafOf(key1)))
    BY <1>6 DEF DivideFirst
  <2>2. QED
    BY <1>1, <2>1, KeyRange, VisitFinite, TallyTyped
<1>7. CASE DivideNext
  <2>1. pc = "next" /\ full_scan(nextKey, {leaf(LeafOf(nextKey))}) /\ nextKey \in Nat
    BY <1>7 DEF DivideNext, TypeInv, TypeOK
  <2>2. QED
    BY <2>1, VisitFinite, TallyTyped
<1>8. CASE UNCHANGED vars
  <2>1. UNCHANGED <<inst, numaConfig, glbGridCell, DataDist, place, pc, gc, count, nextKey, numa_nodes>>
    BY <1>8 DEF vars
  <2>2. /\ TreeNodes' = TreeNodes /\ Cardinality(InitKeys)' = Cardinality(InitKeys)
        /\ \A c : KeysOf(c)' = KeysOf(c)
    BY <2>1, TreeSame, KeysSame
  <2>3. TypeOK'
    BY <2>1, <2>2 DEF TypeInv, TypeOK
  <2>4. QED
    BY <2>1, <2>2, <2>3 DEF TypeInv, BordersAscend, Registered, Distributed, Calls
<1>9. QED
  BY <1>2, <1>3, <1>4, <1>5, <1>6, <1>7, <1>8 DEF Next, Loops, Done

LEMMA TypeInvariant == Spec => []TypeInv
BY InitTyped, NextTyped, PTL DEF Spec

(***************************************************************************)
(* Every variable has its type: the borders, differences and roundings of  *)
(* register_grid_cells included, and a call of migrate_ never counts more  *)
(* entries than there are keys.                                            *)
(***************************************************************************)
THEOREM PlacementTypeCorrect == Spec => []TypeOK
<1>1. TypeInv => TypeOK
  BY DEF TypeInv
<1>2. QED
  BY <1>1, TypeInvariant, PTL

-------------------------------------------------------------------------------
(***************************************************************************)
(* The count.  The counts of all NUMA nodes together grow by the nodes a   *)
(* scan visits, and a scan visits the leaf of the next key that has not    *)
(* been found.                                                             *)
(***************************************************************************)
Total == SumFunctionOnSet(numa_nodes, DOMAIN numa_nodes)

\* One node more, where it lies.
LEMMA OneMore ==
  ASSUME NEW D, IsFiniteSet(D), NEW x \in D, NEW f \in [D -> Nat], NEW g \in [D -> Nat],
         \A m \in D : g[m] = f[m] + (IF m = x THEN 1 ELSE 0)
  PROVE  SumFunctionOnSet(g, D) = SumFunctionOnSet(f, D) + 1
<1>1. /\ \A m \in D : f[m] \in Nat /\ g[m] \in Nat
      /\ \A m \in D \ {x} : g[m] = f[m]
      /\ g[x] = f[x] + 1
  OBVIOUS
<1>2. SumFunctionOnSet(g, D) + f[x] = SumFunctionOnSet(f, D) + g[x]
  BY <1>1, SumChange
<1>3. SumFunctionOnSet(f, D) \in Nat /\ SumFunctionOnSet(g, D) \in Nat
  BY <1>1, SumNat
<1>4. QED
  BY <1>1, <1>2, <1>3

LEMMA Places ==
  ASSUME TypeInv
  PROVE  /\ IsFiniteSet(NumaNodes \cup {Allocated})
         /\ DOMAIN numa_nodes = NumaNodes \cup {Allocated}
         /\ numa_nodes \in [NumaNodes \cup {Allocated} -> Nat]
         /\ \A j \in LeafNumbers : /\ place[Root] \in NumaNodes \cup {Allocated}
                                   /\ place[inner(j)] \in NumaNodes \cup {Allocated}
                                   /\ place[leaf(j)] \in NumaNodes \cup {Allocated}
<1>1. IsFiniteSet(NumaNodes \cup {Allocated})
  BY NodesAssumption, FS_AddElement
<1>2. \A j \in LeafNumbers : Root \in TreeNodes /\ inner(j) \in TreeNodes /\ leaf(j) \in TreeNodes
  BY DEF TreeNodes, InnerNodes
<1>3. QED
  BY <1>1, <1>2 DEF TypeInv, TypeOK

\* The nodes of a visit that lie on m.
LEMMA LeafThere ==
  ASSUME NEW j, NEW m
  PROVE  Cardinality({n \in {leaf(j)} : place[n] = m}) = IF m = place[leaf(j)] THEN 1 ELSE 0
<1>1. CASE m = place[leaf(j)]
  <2>1. {n \in {leaf(j)} : place[n] = m} = {leaf(j)}
    BY <1>1
  <2>2. QED
    BY <1>1, <2>1, FS_Singleton
<1>2. CASE m # place[leaf(j)]
  <2>1. {n \in {leaf(j)} : place[n] = m} = {}
    BY <1>2
  <2>2. QED
    BY <1>2, <2>1, FS_EmptySet
<1>3. QED
  BY <1>1, <1>2

\* The nodes of S that lie on m, and whether x does.
Lying(S, m) == {n \in S : place[n] = m}
here(x, m)  == IF m = place[x] THEN 1 ELSE 0

LEMMA AddThere ==
  ASSUME NEW S, IsFiniteSet(S), NEW x, x \notin S, NEW m
  PROVE  Cardinality(Lying(S \cup {x}, m)) =
           Cardinality(Lying(S, m)) + here(x, m)
<1>1. PICK A : A = Lying(S, m)
  OBVIOUS
<1>2. PICK B : B = Lying(S \cup {x}, m)
  OBVIOUS
<1>3. IsFiniteSet(A) /\ Cardinality(A) \in Nat
  <2>1. A \subseteq S
    BY <1>1 DEF Lying
  <2>2. QED
    BY <2>1, FS_Subset, FS_CardinalityType
<1>4. CASE m = place[x]
  <2>1. B = A \cup {x} /\ x \notin A
    BY <1>1, <1>2, <1>4 DEF Lying
  <2>2. Cardinality(B) = Cardinality(A) + 1
    BY <1>3, <2>1, FS_AddElement
  <2>3. QED
    BY <1>1, <1>2, <1>4, <2>2 DEF here
<1>5. CASE m # place[x]
  <2>1. B = A
    BY <1>1, <1>2, <1>5 DEF Lying
  <2>2. Cardinality(B) = Cardinality(A) + 0
    BY <1>3, <2>1
  <2>3. QED
    BY <1>1, <1>2, <1>5, <2>2 DEF here
<1>6. QED
  BY <1>4, <1>5

\* A visit counts its nodes: three on the way down, and one when it is a leaf only.
LEMMA LeafTallied ==
  ASSUME TypeInv, NEW j \in LeafNumbers, Tally({leaf(j)})
  PROVE  Total' = Total + 1
<1>1. PICK D : D = NumaNodes \cup {Allocated}
  OBVIOUS
<1>2. /\ IsFiniteSet(D) /\ DOMAIN numa_nodes = D /\ numa_nodes \in [D -> Nat]
      /\ place[leaf(j)] \in D
  BY <1>1, Places
<1>3. PICK g : g = numa_nodes'
  OBVIOUS
<1>4. g = [m \in D |-> numa_nodes[m] + Cardinality({n \in {leaf(j)} : place[n] = m})]
  BY <1>2, <1>3 DEF Tally
<1>5. \A m \in D : g[m] = numa_nodes[m] + (IF m = place[leaf(j)] THEN 1 ELSE 0)
  BY <1>4, LeafThere
<1>6. g \in [D -> Nat]
  <2>1. \A m \in D : g[m] \in Nat
    BY <1>2, <1>5
  <2>2. DOMAIN g = D /\ g = [m \in D |-> g[m]]
    BY <1>4
  <2>3. QED
    BY <2>1, <2>2
<1>7. SumFunctionOnSet(g, D) = SumFunctionOnSet(numa_nodes, D) + 1
  BY <1>2, <1>5, <1>6, OneMore
<1>8. DOMAIN g = D
  BY <1>6
<1>9. QED
  BY <1>2, <1>3, <1>7, <1>8 DEF Total

LEMMA DescentTallied ==
  ASSUME TypeInv, NEW j \in LeafNumbers, Tally(Descent(j))
  PROVE  Total' = Total + 3
<1>1. PICK D : D = NumaNodes \cup {Allocated}
  OBVIOUS
<1>2. /\ IsFiniteSet(D) /\ DOMAIN numa_nodes = D /\ numa_nodes \in [D -> Nat]
      /\ place[Root] \in D /\ place[inner(j)] \in D /\ place[leaf(j)] \in D
  BY <1>1, Places
<1>3. PICK g : g = numa_nodes'
  OBVIOUS
<1>4. g = [m \in D |-> numa_nodes[m] + Cardinality({n \in Descent(j) : place[n] = m})]
  BY <1>2, <1>3 DEF Tally
<1> DEFINE f1 == [m \in D |-> numa_nodes[m] + here(leaf(j), m)]
           f2 == [m \in D |-> f1[m] + here(inner(j), m)]
           f3 == [m \in D |-> f2[m] + here(Root, m)]
<1>5. \A m : Cardinality(Lying(Descent(j), m)) = here(leaf(j), m) + here(inner(j), m) + here(Root, m)
  <2> TAKE m
  <2>1. PICK S : S = {leaf(j)} \cup {inner(j)}
    OBVIOUS
  <2>2. inner(j) \notin {leaf(j)} /\ Root \notin S
    BY <2>1 DEF inner, leaf, Root
  <2>3. IsFiniteSet({leaf(j)}) /\ IsFiniteSet(S)
    BY <2>1, FS_Singleton, FS_AddElement
  <2>4. Cardinality(Lying(S, m)) =
          Cardinality(Lying({leaf(j)}, m)) + here(inner(j), m)
    <3>1. PICK T : T = {leaf(j)}
      OBVIOUS
    <3>2. Cardinality(Lying(T \cup {inner(j)}, m)) =
            Cardinality(Lying(T, m)) + here(inner(j), m)
      BY <2>2, <2>3, <3>1, AddThere
    <3>3. QED
      BY <2>1, <3>1, <3>2
  <2>5. Cardinality(Lying(S \cup {Root}, m)) =
          Cardinality(Lying(S, m)) + here(Root, m)
    BY <2>2, <2>3, AddThere
  <2>6. Descent(j) = S \cup {Root}
    BY <2>1 DEF Descent
  <2>7. QED
    <3>1. Cardinality(Lying({leaf(j)}, m)) = here(leaf(j), m)
      BY LeafThere DEF Lying, here
    <3>2. QED
      BY <2>4, <2>5, <2>6, <3>1
<1>6. f1 \in [D -> Nat] /\ f2 \in [D -> Nat] /\ f3 \in [D -> Nat]
  <2>1. \A n, m : here(n, m) \in Nat
    BY DEF here
  <2>2. f1 \in [D -> Nat]
    BY <1>2, <2>1
  <2> HIDE DEF f1
  <2>3. f2 \in [D -> Nat]
    BY <2>1, <2>2
  <2> HIDE DEF f2
  <2>4. f3 \in [D -> Nat]
    BY <2>1, <2>3
  <2>5. QED
    BY <2>2, <2>3, <2>4
<1>7. SumFunctionOnSet(f1, D) = SumFunctionOnSet(numa_nodes, D) + 1
  <2>1. \A m \in D : f1[m] = numa_nodes[m] + (IF m = place[leaf(j)] THEN 1 ELSE 0)
    BY DEF here
  <2> HIDE DEF f1
  <2>2. QED
    BY <1>2, <1>6, <2>1, OneMore
<1>8. SumFunctionOnSet(f2, D) = SumFunctionOnSet(f1, D) + 1
  <2> HIDE DEF f1
  <2>1. \A m \in D : f2[m] = f1[m] + (IF m = place[inner(j)] THEN 1 ELSE 0)
    BY DEF here
  <2> HIDE DEF f2
  <2>2. QED
    BY <1>2, <1>6, <2>1, OneMore
<1>9. SumFunctionOnSet(f3, D) = SumFunctionOnSet(f2, D) + 1
  <2> HIDE DEF f2
  <2>1. \A m \in D : f3[m] = f2[m] + (IF m = place[Root] THEN 1 ELSE 0)
    BY DEF here
  <2> HIDE DEF f3
  <2>2. QED
    BY <1>2, <1>6, <2>1, OneMore
<1>10. g = f3
  <2>1. ASSUME NEW m \in D PROVE g[m] = f3[m]
    <3>1. g[m] = numa_nodes[m] + (here(leaf(j), m) + here(inner(j), m) + here(Root, m))
      BY <1>4, <1>5, <2>1 DEF Lying
    <3>2. f3[m] = ((numa_nodes[m] + here(leaf(j), m)) + here(inner(j), m)) + here(Root, m)
      BY <2>1
    <3>3. here(leaf(j), m) \in Nat /\ here(inner(j), m) \in Nat /\ here(Root, m) \in Nat /\ numa_nodes[m] \in Nat
      BY <1>2, <2>1 DEF here
    <3> HIDE DEF f3
    <3>4. QED
      BY <3>1, <3>2, <3>3
  <2>2. g = [m \in D |-> g[m]] /\ f3 = [m \in D |-> f3[m]]
    BY <1>4
  <2> HIDE DEF f3
  <2>3. QED
    BY <2>1, <2>2
<1>11. DOMAIN g = D
  BY <1>4
<1>12. SumFunctionOnSet(numa_nodes, D) \in Nat
  BY <1>2, SumNat
<1>13. SumFunctionOnSet(g, D) = SumFunctionOnSet(numa_nodes, D) + 3
  <2> HIDE DEF f1, f2, f3
  <2>1. QED
    BY <1>7, <1>8, <1>9, <1>10, <1>12
<1>14. QED
  BY <1>2, <1>3, <1>11, <1>13 DEF Total

\* The leaves with a key of the range before k.
Seen(k) == {j \in LeafNumbers : \E h \in inst.leaves[j] : key1 <= h /\ h < k}

(***************************************************************************)
(* Nothing is counted before the division; then the two inner nodes of the *)
(* first descent and every leaf with a key of the range before the next    *)
(* key, none of which has another key of the range.                        *)
(***************************************************************************)
CountInv ==
  /\ pc \in {"register", "distribution", "scan", "move", "divide"} => Total = 0
  /\ pc = "next" =>
       /\ key1 <= nextKey /\ nextKey <= key2
       /\ Total = 2 + Cardinality(Seen(nextKey))
       /\ \A j \in Seen(nextKey) : \A h \in inst.leaves[j] : h >= nextKey => h >= key2
  /\ pc = "done" => Total = 2 + Cardinality(Seen(key2)) + 1

LEMMA SeenSame ==
  ASSUME inst' = inst
  PROVE  /\ key1' = key1 /\ key2' = key2 /\ LeafNumbers' = LeafNumbers
         /\ Seen(nextKey)' = Seen(nextKey') /\ Seen(key2)' = Seen(key2)
<1>1. key1' = key1 /\ key2' = key2 /\ LeafNumbers' = LeafNumbers
  BY DEF key1, key2, LeafNumbers
<1>2. QED
  BY <1>1 DEF Seen

LEMMA SeenFinite ==
  ASSUME inst \in Instances, NEW k
  PROVE  IsFiniteSet(Seen(k)) /\ Cardinality(Seen(k)) \in Nat
<1>1. IsFiniteSet(LeafNumbers)
  <2>1. LeafNumbers = 1..Len(inst.leaves) /\ Len(inst.leaves) \in Nat
    BY LeavesOK
  <2>2. QED
    BY <2>1, FS_Interval
<1>2. Seen(k) \subseteq LeafNumbers
  BY DEF Seen
<1>3. QED
  BY <1>1, <1>2, FS_Subset, FS_CardinalityType

\* What full_scan finds from k on: nothing, and then there is nothing; or the keys
\* of the range of one leaf, all of them, and no other leaf has a key among them.
Found(k) == {h \in Entries(k, Cardinality(InitKeys)) : h < key2}

LEMMA ScanOnce ==
  ASSUME inst \in Instances, NEW k \in Nat, NEW l, l = LeafOf(k)
  PROVE  /\ l \in LeafNumbers
         /\ Found(k) = {} =>
              \A j \in LeafNumbers : \A h \in inst.leaves[j] : h >= k => h >= key2
         /\ Found(k) # {} =>
              \E m \in inst.leaves[l] :
                /\ m = Max(Found(k)) /\ k <= m /\ m < key2
                /\ \A j \in LeafNumbers : \A h \in inst.leaves[j] : k <= h /\ h <= m => j = l
                /\ \A h \in inst.leaves[l] : h > m => h >= key2
<1>1. PICK F : F = Found(k)
  OBVIOUS
<1>2. l \in LeafNumbers /\ l \in Nat
  BY LeafOfOK, LeavesOK
<1>3. F = {h \in inst.leaves[l] : h >= k /\ h < key2}
  <2>1. Entries(k, Cardinality(InitKeys)) = Onwards(k)
    BY AllEntries
  <2>2. QED
    BY <1>1, <2>1 DEF Found, Onwards
<1>4. inst.leaves[l] \subseteq Nat /\ IsFiniteSet(inst.leaves[l]) /\ key2 \in Nat
  BY <1>2, LeavesOK, KeyRange
<1>5. ASSUME F = {}, NEW j \in LeafNumbers, NEW h \in inst.leaves[j], h >= k
      PROVE  h >= key2
  <2>1. PICK g : g = Max(inst.leaves[l]) /\ g \in inst.leaves[l] /\ g \in Nat
    BY <1>2, GreatestKey
  <2>2. h \in Nat /\ j \in Nat
    BY LeavesOK
  <2>3. g >= k
    <3>1. g >= k \/ h < k
      BY <2>1, LeafOfOK
    <3>2. QED
      BY <1>5, <2>2, <3>1
  <2>4. g >= key2
    BY <1>3, <1>4, <1>5, <2>1, <2>3
  <2>5. CASE j = l
    BY <1>3, <1>4, <1>5, <2>2, <2>5
  <2>6. CASE j < l
    <3>1. h < k
      BY <2>6, LeafOfOK
    <3>2. QED
      BY <1>5, <2>2, <3>1
  <2>7. CASE l < j
    <3>1. g < h
      BY <1>2, <2>1, <2>7, LeafOrder
    <3>2. QED
      BY <1>4, <2>1, <2>2, <2>4, <3>1
  <2>8. QED
    BY <1>2, <2>2, <2>5, <2>6, <2>7
<1>6. ASSUME F # {}
      PROVE  \E m \in inst.leaves[l] :
                /\ m = Max(F) /\ k <= m /\ m < key2
                /\ \A j \in LeafNumbers : \A h \in inst.leaves[j] : k <= h /\ h <= m => j = l
                /\ \A h \in inst.leaves[l] : h > m => h >= key2
  <2>1. F \subseteq inst.leaves[l] /\ F \subseteq Nat /\ IsFiniteSet(F)
    <3>1. F \subseteq inst.leaves[l]
      BY <1>3
    <3>2. QED
      BY <1>4, <3>1, FS_Subset
  <2>2. PICK m : m = Max(F) /\ m \in F /\ \A y \in F : y <= m
    BY <1>6, <2>1, MaxOf
  <2>3. m \in inst.leaves[l] /\ m \in Nat /\ k <= m /\ m < key2
    BY <1>3, <2>1, <2>2
  <2>4. ASSUME NEW j \in LeafNumbers, NEW h \in inst.leaves[j], k <= h, h <= m
        PROVE  j = l
    <3>1. h \in Nat /\ j \in Nat
      BY LeavesOK
    <3>2. ~(j < l)
      <4>1. ASSUME j < l PROVE FALSE
        <5>1. h < k
          BY <4>1, LeafOfOK
        <5>2. QED
          BY <2>4, <3>1, <5>1
      <4>2. QED
        BY <4>1
    <3>3. ~(l < j)
      <4>1. ASSUME l < j PROVE FALSE
        <5>1. m < h
          BY <1>2, <2>3, <4>1, LeafOrder
        <5>2. QED
          BY <2>3, <2>4, <3>1, <5>1
      <4>2. QED
        BY <4>1
    <3>4. QED
      BY <1>2, <3>1, <3>2, <3>3
  <2>5. ASSUME NEW h \in inst.leaves[l], h > m PROVE h >= key2
    <3>1. h \in Nat /\ h >= k
      BY <1>4, <2>3, <2>5
    <3>2. h \notin F
      <4>1. ASSUME h \in F PROVE FALSE
        <5>1. h <= m
          BY <2>2, <4>1
        <5>2. QED
          BY <2>3, <2>5, <3>1, <5>1
      <4>2. QED
        BY <4>1
    <3>3. ~(h < key2)
      BY <1>3, <3>1, <3>2
    <3>4. QED
      BY <1>4, <3>1, <3>3
  <2>6. QED
    BY <2>2, <2>3, <2>4, <2>5
<1>7. QED
  BY <1>1, <1>2, <1>5, <1>6

\* The leaves seen before and after a scan from k that found keys up to m.
LEMMA NowSeen ==
  ASSUME inst \in Instances, NEW k \in Nat, key1 <= k, NEW l \in LeafNumbers,
         NEW m \in inst.leaves[l], k <= m,
         \A j \in LeafNumbers : \A h \in inst.leaves[j] : k <= h /\ h <= m => j = l
  PROVE  Seen(m + 1) = Seen(k) \cup {l}
<1>1. m \in Nat /\ key1 \in Nat /\ \A j \in LeafNumbers : inst.leaves[j] \subseteq Nat
  BY LeavesOK, KeyRange
<1>2. ASSUME NEW j \in Seen(m + 1) PROVE j \in Seen(k) \cup {l}
  <2>1. PICK h \in inst.leaves[j] : key1 <= h /\ h < m + 1
    BY <1>2 DEF Seen
  <2>2. j \in LeafNumbers /\ h \in Nat /\ h <= m
    BY <1>1, <1>2, <2>1 DEF Seen
  <2>3. CASE h < k
    BY <2>1, <2>2, <2>3 DEF Seen
  <2>4. CASE h >= k
    BY <2>1, <2>2, <2>4
  <2>5. QED
    BY <2>2, <2>3, <2>4
<1>3. ASSUME NEW j \in Seen(k) PROVE j \in Seen(m + 1)
  <2>1. PICK h \in inst.leaves[j] : key1 <= h /\ h < k
    BY <1>3 DEF Seen
  <2>2. j \in LeafNumbers /\ h \in Nat
    BY <1>1, <1>3, <2>1 DEF Seen
  <2>3. h < m + 1
    BY <1>1, <2>1, <2>2
  <2>4. QED
    BY <2>1, <2>2, <2>3 DEF Seen
<1>4. l \in Seen(m + 1)
  <2>1. key1 <= m /\ m < m + 1
    BY <1>1
  <2>2. QED
    BY <2>1 DEF Seen
<1>5. QED
  BY <1>2, <1>3, <1>4

\* All leaves with a key of the range have been seen when nothing is left from k on.
LEMMA AllSeen ==
  ASSUME inst \in Instances, NEW k \in Nat, k <= key2,
         \A j \in LeafNumbers : \A h \in inst.leaves[j] : h >= k => h >= key2
  PROVE  Seen(key2) = Seen(k)
<1>1. key2 \in Nat /\ \A j \in LeafNumbers : inst.leaves[j] \subseteq Nat
  BY LeavesOK, KeyRange
<1>2. \A j \in LeafNumbers : \A h \in inst.leaves[j] : h < key2 <=> h < k
  <2> TAKE j \in LeafNumbers
  <2> TAKE h \in inst.leaves[j]
  <2>1. h \in Nat
    BY <1>1
  <2>2. QED
    BY <1>1, <2>1
<1>3. QED
  BY <1>2 DEF Seen

LEMMA NothingBefore == ASSUME inst \in Instances PROVE Seen(key1) = {}
<1>1. key1 \in Nat /\ \A j \in LeafNumbers : inst.leaves[j] \subseteq Nat
  BY LeavesOK, KeyRange
<1>2. \A j \in LeafNumbers : \A h \in inst.leaves[j] : ~(key1 <= h /\ h < key1)
  <2> TAKE j \in LeafNumbers
  <2> TAKE h \in inst.leaves[j]
  <2>1. h \in Nat
    BY <1>1
  <2>2. QED
    BY <1>1, <2>1
<1>3. QED
  BY <1>2 DEF Seen

LEMMA KeysAscend == ASSUME inst \in Instances PROVE key1 <= key2
<1>1. PICK a, b, u : a = Start /\ b = End /\ u = Unit
  OBVIOUS
<1>2. a \in Nat /\ b \in Nat /\ a <= b /\ u \in Nat /\ u > 0
  BY <1>1, EndsOK, Parameters
<1>3. a \div u <= b \div u
  BY <1>2
<1>4. QED
  BY <1>1, <1>3 DEF key1, key2, ToInteger, Start, End

\* A scan of the division from k, which has counted everything before k.
LEMMA ScanCounted ==
  ASSUME TypeInv, NEW k \in Nat, key1 <= k, k <= key2, NEW visited, full_scan(k, visited),
         Total' = 2 + Cardinality(Seen(k)) + 1,
         \A j \in Seen(k) : \A h \in inst.leaves[j] : h >= k => h >= key2
  PROVE  CountInv'
<1>1. inst \in Instances /\ inst' = inst
  BY DEF TypeInv, full_scan
<1>2. /\ key1' = key1 /\ key2' = key2
      /\ Seen(nextKey)' = Seen(nextKey') /\ Seen(key2)' = Seen(key2)
  BY <1>1, SeenSame
<1>3. key1 \in Nat /\ key2 \in Nat
  BY <1>1, KeyRange
<1>4. PICK l : l = LeafOf(k)
  OBVIOUS
<1>5. /\ l \in LeafNumbers
      /\ Found(k) = {} => \A j \in LeafNumbers : \A h \in inst.leaves[j] : h >= k => h >= key2
  BY <1>1, <1>4, ScanOnce
<1>6. CASE Found(k) = {}
  <2>1. pc' = "done"
    BY <1>6 DEF full_scan, Found
  <2>2. Seen(key2) = Seen(k)
    BY <1>1, <1>5, <1>6, AllSeen
  <2>3. QED
    BY <1>2, <2>1, <2>2 DEF CountInv
<1>7. CASE Found(k) # {}
  <2>1. PICK m \in inst.leaves[l] :
          /\ m = Max(Found(k)) /\ k <= m /\ m < key2
          /\ \A j \in LeafNumbers : \A h \in inst.leaves[j] : k <= h /\ h <= m => j = l
          /\ \A h \in inst.leaves[l] : h > m => h >= key2
    BY <1>1, <1>4, <1>7, ScanOnce
  <2>2. m \in Nat
    BY <1>1, <1>5, <2>1, LeavesOK
  <2>3. ~(incKey(m) > key2)
    BY <1>3, <2>1, <2>2 DEF incKey
  <2>4. pc' = "next" /\ nextKey' = m + 1
    <3>1. pc' = "next" /\ nextKey' = incKey(m)
      BY <1>7, <2>1, <2>3 DEF full_scan, Found
    <3>2. QED
      BY <3>1 DEF incKey
  <2>5. Seen(m + 1) = Seen(k) \cup {l}
    BY <1>1, <1>5, <2>1, NowSeen
  <2>6. l \notin Seen(k)
    <3>1. ASSUME l \in Seen(k) PROVE FALSE
      <4>1. m >= key2
        BY <2>1, <2>2, <3>1
      <4>2. QED
        BY <1>3, <2>1, <2>2, <4>1
    <3>2. QED
      BY <3>1
  <2>7. Cardinality(Seen(m + 1)) = Cardinality(Seen(k)) + 1
    BY <1>1, <2>5, <2>6, SeenFinite, FS_AddElement
  <2>8. Cardinality(Seen(k)) \in Nat
    BY <1>1, SeenFinite
  <2>9. Total' = 2 + Cardinality(Seen(m + 1))
    BY <2>7, <2>8
  <2>10. key1 <= m + 1 /\ m + 1 <= key2
    BY <1>3, <2>1, <2>2
  <2>11. ASSUME NEW j \in Seen(m + 1), NEW h \in inst.leaves[j], h >= m + 1
         PROVE  h >= key2
    <3>1. h \in Nat
      BY <1>1, <2>11, LeavesOK DEF Seen
    <3>2. CASE j \in Seen(k)
      <4>1. h >= k
        BY <2>1, <2>2, <2>11, <3>1
      <4>2. QED
        BY <3>2, <4>1
    <3>3. CASE j = l
      BY <2>1, <2>2, <2>11, <3>1, <3>3
    <3>4. QED
      BY <2>5, <2>11, <3>2, <3>3
  <2>12. QED
    BY <1>1, <1>2, <2>4, <2>9, <2>10, <2>11 DEF CountInv
<1>8. QED
  BY <1>6, <1>7

LEMMA InitCounted == Init => CountInv
<1> SUFFICES ASSUME Init PROVE CountInv
  OBVIOUS
<1>1. IsFiniteSet(NumaNodes \cup {Allocated})
  BY NodesAssumption, FS_AddElement
<1>2. PICK f : f = numa_nodes
  OBVIOUS
<1>3. DOMAIN f = NumaNodes \cup {Allocated} /\ \A m \in NumaNodes \cup {Allocated} : f[m] = 0
  BY <1>2 DEF Init
<1>4. SumFunctionOnSet(f, DOMAIN f) = 0
  BY <1>1, <1>3, SumNone
<1>5. QED
  BY <1>2, <1>4 DEF CountInv, Total, Init

LEMMA QuietCount ==
  ASSUME CountInv, inst' = inst, numa_nodes' = numa_nodes,
         pc \in {"register", "distribution", "scan", "move"},
         pc' \in {"distribution", "scan", "move", "divide"}
  PROVE  CountInv'
<1>1. Total' = Total
  BY DEF Total
<1>2. QED
  BY <1>1 DEF CountInv

LEMMA NextCounted ==
  ASSUME TypeInv, CountInv, [Next]_vars
  PROVE  CountInv'
<1>1. inst \in Instances /\ pc \in {"register", "distribution", "scan", "move", "divide", "next", "done"}
  BY DEF TypeInv, TypeOK
<1>2. CASE register_grid_cells
  BY <1>2, QuietCount DEF register_grid_cells
<1>3. CASE buildDataDistIdx
  BY <1>3, QuietCount DEF buildDataDistIdx
<1>4. ASSUME NEW found, NEW total, Continue(found, total) PROVE pc' \in {"scan", "move", "divide"}
  BY <1>4 DEF Continue
<1>5. CASE ScanFirst
  <2>1. pc' \in {"scan", "move", "divide"}
    BY <1>4, <1>5 DEF ScanFirst
  <2>2. pc = "scan" /\ inst' = inst /\ numa_nodes' = numa_nodes
    BY <1>5 DEF ScanFirst
  <2>3. QED
    BY <2>1, <2>2, QuietCount
<1>6. CASE migratory_scan_
  <2>1. pc' \in {"scan", "move", "divide"}
    BY <1>4, <1>6 DEF migratory_scan_
  <2>2. pc = "move" /\ inst' = inst /\ numa_nodes' = numa_nodes
    BY <1>6 DEF migratory_scan_
  <2>3. QED
    BY <2>1, <2>2, QuietCount
<1>7. CASE DivideFirst
  <2>1. pc = "divide" /\ full_scan(key1, Descent(LeafOf(key1)))
    BY <1>7 DEF DivideFirst
  <2>2. key1 \in Nat /\ key2 \in Nat /\ key1 <= key2
    BY <1>1, KeyRange, KeysAscend
  <2>3. PICK l : l = LeafOf(key1) /\ l \in LeafNumbers
    BY <1>1, <2>2, LeafOfOK
  <2>4. Total' = Total + 3
    BY <2>1, <2>3, DescentTallied DEF full_scan
  <2>5. Total = 0
    BY <2>1 DEF CountInv
  <2>6. Seen(key1) = {} /\ Cardinality(Seen(key1)) = 0
    BY <1>1, NothingBefore, FS_EmptySet
  <2>7. Total' = 2 + Cardinality(Seen(key1)) + 1
    BY <2>4, <2>5, <2>6
  <2>8. QED
    BY <2>1, <2>2, <2>6, <2>7, ScanCounted
<1>8. CASE DivideNext
  <2>1. pc = "next" /\ full_scan(nextKey, {leaf(LeafOf(nextKey))}) /\ nextKey \in Nat
    BY <1>8 DEF DivideNext, TypeInv, TypeOK
  <2>2. PICK l : l = LeafOf(nextKey) /\ l \in LeafNumbers
    BY <1>1, <2>1, LeafOfOK
  <2>3. Total' = Total + 1
    BY <2>1, <2>2, LeafTallied DEF full_scan
  <2>4. /\ key1 <= nextKey /\ nextKey <= key2
        /\ Total = 2 + Cardinality(Seen(nextKey))
        /\ \A j \in Seen(nextKey) : \A h \in inst.leaves[j] : h >= nextKey => h >= key2
    BY <2>1 DEF CountInv
  <2>5. Total' = 2 + Cardinality(Seen(nextKey)) + 1
    BY <2>3, <2>4
  <2>6. QED
    BY <2>1, <2>4, <2>5, ScanCounted
<1>9. CASE UNCHANGED vars
  <2>1. inst' = inst /\ pc' = pc /\ nextKey' = nextKey /\ numa_nodes' = numa_nodes
    BY <1>9 DEF vars
  <2>2. Total' = Total
    BY <2>1 DEF Total
  <2>3. /\ key1' = key1 /\ key2' = key2
        /\ Seen(nextKey)' = Seen(nextKey) /\ Seen(key2)' = Seen(key2)
    BY <2>1, SeenSame
  <2>4. QED
    BY <2>1, <2>2, <2>3 DEF CountInv
<1>10. QED
  BY <1>2, <1>3, <1>5, <1>6, <1>7, <1>8, <1>9 DEF Next, Loops, Done

(***************************************************************************)
(* The division that count_numa_division prints counts each leaf with a    *)
(* key of the range exactly once, the two inner nodes of the first         *)
(* descent, and the leaf of the last scan.                                 *)
(***************************************************************************)
THEOREM DivisionCountsOnce == Spec => []CountedOnce
<1>1. CountInv => CountedOnce
  BY DEF CountInv, CountedOnce, Total, Seen
<1>2. TypeInv /\ CountInv /\ [Next]_vars => TypeInv' /\ CountInv'
  BY NextTyped, NextCounted
<1>3. Init => TypeInv /\ CountInv
  BY InitTyped, InitCounted
<1>4. QED
  BY <1>1, <1>2, <1>3, PTL DEF Spec

-------------------------------------------------------------------------------
(***************************************************************************)
(* The migration. A call for cell c goes by a number of entries, all keys  *)
(* that were counted for the cell, and begins at the whole part of the     *)
(* cell's border: at most one key that it comes across on the way is not   *)
(* the cell's own (BeforeDue), so it comes to every leaf that holds two    *)
(* keys of the cell and none that the call begins in. A leaf of an earlier *)
(* cell lies before all that a later call moves (Passed).                  *)
(***************************************************************************)
\* A leaf that LeavesFollowTheirCell speaks of.
Due(j, c) ==
  /\ j \in Within(c)
  /\ j > 1 /\ Shares(j - 1, c) /\ Cardinality(inst.leaves[j]) > 1

\* The keys that a call for cell c comes across before k.
Across(c, k) == {h \in InitKeys : FirstKey(c) <= h /\ h < k}

LEMMA DueOK ==
  ASSUME TypeInv, NEW c \in GridCells, NEW j, Due(j, c)
  PROVE  /\ j \in LeafNumbers /\ j - 1 \in LeafNumbers /\ j \in Nat
         /\ \A k \in inst.leaves[j] : InCell(k, c) /\ \A d \in GridCells : InCell(k, d) => d = c
         /\ \E k \in inst.leaves[j - 1] : k >= FirstKey(c)
<1>1. inst \in Instances /\ j \in Within(c) /\ j > 1
  BY DEF TypeInv, Due
<1>2. j \in LeafNumbers
  BY <1>1 DEF Within
<1>3. j \in Nat /\ j - 1 \in LeafNumbers
  BY <1>1, <1>2, LeavesOK
<1>4. \A k \in inst.leaves[j] : CellsOf(k) = {c}
  BY <1>1 DEF Within
<1>5. \A k \in inst.leaves[j] : InCell(k, c) /\ \A d \in GridCells : InCell(k, d) => d = c
  BY <1>4 DEF CellsOf
<1>6. \E k \in inst.leaves[j - 1] : k >= FirstKey(c)
  BY DEF Due, Shares
<1>7. QED
  BY <1>2, <1>3, <1>5, <1>6

\* Keys are rounded in order, and a key beyond the whole part of a border is rounded
\* to the border or beyond.
LEMMA KeyRounded ==
  ASSUME TypeInv, NEW h \in InitKeys, NEW k \in InitKeys
  PROVE  OfInteger(h) \in Nat /\ (h <= k => OfInteger(h) <= OfInteger(k))
<1>1. PICK x, y : x = h * Unit /\ y = k * Unit
  OBVIOUS
<1>2. h \in Nat /\ k \in Nat /\ x \in Nat /\ y \in Nat /\ (h <= k => x <= y)
  BY <1>1, InitKeysOK, Parameters DEF TypeInv
<1>3. x < Limit /\ y < Limit
  <2>1. PICK i \in LeafNumbers, j \in LeafNumbers : h \in inst.leaves[i] /\ k \in inst.leaves[j]
    BY InitKeysOK DEF TypeInv
  <2>2. QED
    BY <1>1, <2>1, LeavesOK DEF TypeInv
<1>4. OfInteger(h) = Round(x) /\ OfInteger(k) = Round(y)
  BY <1>1 DEF OfInteger
<1>5. QED
  BY <1>2, <1>3, <1>4, RoundNat, RoundMonotone

LEMMA RoundedBeyond ==
  ASSUME TypeInv, Registered, NEW c \in GridCells, NEW h \in InitKeys, h > FirstKey(c)
  PROVE  OfInteger(h) >= glbGridCell[c].lx
<1>1. PICK lx : lx = glbGridCell[c].lx /\ lx \in Nat /\ lx < Limit /\ Round(lx) = lx
  BY DEF TypeInv, TypeOK, BordersAscend
<1>2. PICK f : f = FirstKey(c) /\ f = lx \div Unit
  BY <1>1 DEF FirstKey, ToInteger
<1>3. Unit \in Nat /\ Unit > 0 /\ h \in Nat
  BY Parameters, InitKeysOK DEF TypeInv
<1>4. f \in Nat /\ lx < Unit * (f + 1)
  BY <1>1, <1>2, <1>3
<1>5. PICK x : x = h * Unit
  OBVIOUS
<1>6. x \in Nat /\ lx <= x
  <2>1. h >= f + 1
    BY <1>2, <1>3, <1>4
  <2>2. h * Unit >= Unit * (f + 1) /\ h * Unit \in Nat /\ Unit * (f + 1) \in Nat
    BY <1>3, <1>4, <2>1
  <2>3. QED
    BY <1>1, <1>4, <1>5, <2>2
<1>7. x < Limit
  <2>1. PICK j \in LeafNumbers : h \in inst.leaves[j]
    BY InitKeysOK DEF TypeInv
  <2>2. QED
    BY <1>5, <2>1, LeavesOK DEF TypeInv
<1>8. Round(lx) <= Round(x) /\ Round(x) \in Nat
  BY <1>1, <1>6, <1>7, RoundMonotone, RoundNat
<1>9. QED
  BY <1>1, <1>5, <1>8 DEF OfInteger

\* What a call for c comes across before a leaf that is due is less than it goes by.
LEMMA BeforeDue ==
  ASSUME TypeInv, Registered, NEW c \in GridCells, NEW j, Due(j, c),
         NEW P, P \subseteq InitKeys,
         \A h \in P : FirstKey(c) <= h /\ \A k \in inst.leaves[j] : h < k
  PROVE  Cardinality(P) < Cardinality(KeysOf(c))
<1>1. inst \in Instances /\ j \in LeafNumbers
  BY DueOK DEF TypeInv
<1>2. PICK K : K = KeysOf(c) /\ K \subseteq InitKeys /\ IsFiniteSet(K)
  BY <1>1, KeysOfCounted
<1>3. PICK B : B = inst.leaves[j] /\ IsFiniteSet(B) /\ B # {} /\ B \subseteq Nat
  BY <1>1, LeavesOK
<1>4. B \subseteq K
  <2>1. \A k \in B : k \in InitKeys /\ InCell(k, c)
    BY <1>1, <1>3, DueOK, InitKeysOK
  <2>2. QED
    BY <1>2, <2>1 DEF KeysOf
<1>5. PICK f : f = FirstKey(c) /\ f \in Nat
  BY FirstKeyNat
<1>6. P \subseteq (K \ B) \cup {f}
  <2> SUFFICES ASSUME NEW h \in P, h # f PROVE h \in K \ B
    OBVIOUS
  <2>1. h \in InitKeys /\ h \in Nat /\ h > f
    <3>1. h \in InitKeys /\ h >= f
      BY <1>5
    <3>2. QED
      BY <1>1, <1>5, <3>1, InitKeysOK
  <2>2. h \notin B
    <3>1. ASSUME h \in B PROVE FALSE
      <4>1. h < h
        BY <1>3, <3>1
      <4>2. QED
        BY <2>1, <4>1
    <3>2. QED
      BY <3>1
  <2>3. PICK k : k \in B
    BY <1>3
  <2>4. h < k /\ k \in InitKeys /\ k \in Nat /\ InCell(k, c)
    <3>1. k \in inst.leaves[j]
      BY <1>3, <2>3
    <3>2. QED
      BY <1>1, <1>3, <2>3, <3>1, DueOK, InitKeysOK
  <2>5. OfInteger(h) \in Nat /\ OfInteger(k) \in Nat /\ OfInteger(h) <= OfInteger(k)
    BY <2>1, <2>4, KeyRounded
  <2>6. glbGridCell[c].lx \in Nat /\ glbGridCell[c].hx \in Nat
    BY DEF TypeInv, TypeOK
  <2>7. OfInteger(h) >= glbGridCell[c].lx
    BY <1>5, <2>1, RoundedBeyond
  <2>8. OfInteger(k) <= glbGridCell[c].hx
    BY <2>4 DEF InCell
  <2>9. InCell(h, c)
    BY <2>5, <2>6, <2>7, <2>8 DEF InCell
  <2>10. QED
    BY <1>2, <2>1, <2>2, <2>9 DEF KeysOf
<1>7. /\ IsFiniteSet(K \ B) /\ Cardinality(K \ B) = Cardinality(K) - Cardinality(B)
  <2>1. K \cap B = B
    BY <1>4
  <2>2. QED
    BY <1>2, <2>1, FS_Difference
<1>8. Cardinality(B) > 1 /\ Cardinality(B) \in Nat /\ Cardinality(K) \in Nat /\ Cardinality(K \ B) \in Nat
  BY <1>2, <1>3, <1>7, FS_CardinalityType DEF Due
<1>9. IsFiniteSet((K \ B) \cup {f}) /\ Cardinality((K \ B) \cup {f}) <= Cardinality(K \ B) + 1
  BY <1>7, <1>8, FS_AddElement
<1>10. Cardinality(P) <= Cardinality((K \ B) \cup {f}) /\ Cardinality(P) \in Nat
  BY <1>6, <1>9, FS_Subset, FS_CardinalityType
<1>11. Cardinality((K \ B) \cup {f}) \in Nat
  BY <1>9, FS_CardinalityType
<1>12. QED
  BY <1>2, <1>7, <1>8, <1>9, <1>10, <1>11

\* A call for c begins before the leaves that are due.
LEMMA BeginsBefore ==
  ASSUME TypeInv, NEW c \in GridCells, NEW j, Due(j, c)
  PROVE  LeafOf(FirstKey(c)) < j
<1>1. inst \in Instances /\ FirstKey(c) \in Nat
  BY FirstKeyNat DEF TypeInv
<1>2. PICK l : l = LeafOf(FirstKey(c)) /\ l \in LeafNumbers
  BY <1>1, LeafOfOK
<1>3. l \in Nat /\ j \in Nat /\ j - 1 \in LeafNumbers
  BY <1>1, <1>2, DueOK, LeavesOK
<1>4. PICK k \in inst.leaves[j - 1] : k >= FirstKey(c)
  BY DueOK
<1>5. ~(j - 1 < l)
  <2>1. ASSUME j - 1 < l PROVE FALSE
    <3>1. k < FirstKey(c)
      BY <1>1, <1>2, <1>3, <2>1, LeafOfOK
    <3>2. k \in Nat
      BY <1>1, <1>3, LeavesOK
    <3>3. QED
      BY <1>1, <1>4, <3>1, <3>2
  <2>2. QED
    BY <2>1
<1>6. QED
  BY <1>2, <1>3, <1>5

\* A call for a later cell d begins at a leaf of an earlier cell at most, and at the
\* last of all leaves only if no key is d's.
LEMMA Passed ==
  ASSUME TypeInv, Registered, NEW c \in GridCells, NEW d \in GridCells, c < d,
         NEW j, Due(j, c)
  PROVE  /\ j <= LeafOf(FirstKey(d))
         /\ j = Len(inst.leaves) => KeysOf(d) = {}
<1>1. inst \in Instances /\ FirstKey(d) \in Nat /\ j \in LeafNumbers /\ j \in Nat
  BY FirstKeyNat, DueOK DEF TypeInv
<1>2. PICK lx, hx : lx = glbGridCell[d].lx /\ hx = glbGridCell[d].hx /\ lx \in Nat /\ hx \in Nat
  BY DEF TypeInv, TypeOK
<1>3. /\ c \in Nat /\ d \in Nat /\ glbGridCell[c].hx \in Nat /\ glbGridCell[c].lx \in Nat
      /\ glbGridCell[c].hx <= hx /\ glbGridCell[c].lx <= lx
  <2>1. c \in Nat /\ d \in Nat /\ c <= d /\ c # d
    BY Parameters DEF GridCells
  <2>2. QED
    BY <1>2, <2>1 DEF TypeInv, TypeOK, BordersAscend
<1>4. ASSUME NEW k \in inst.leaves[j]
      PROVE  /\ k \in InitKeys /\ k \in Nat /\ OfInteger(k) < lx /\ k <= FirstKey(d)
  <2>1. k \in InitKeys /\ k \in Nat
    BY <1>1, InitKeysOK
  <2>2. OfInteger(k) \in Nat
    BY <2>1, KeyRounded
  <2>3. InCell(k, c) /\ ~InCell(k, d)
    BY <1>3, DueOK
  <2>4. OfInteger(k) <= hx
    BY <1>2, <1>3, <2>2, <2>3 DEF InCell
  <2>5. OfInteger(k) < lx
    BY <1>2, <2>2, <2>3, <2>4 DEF InCell
  <2>6. ~(k > FirstKey(d))
    <3>1. ASSUME k > FirstKey(d) PROVE FALSE
      <4>1. OfInteger(k) >= lx
        BY <1>2, <2>1, <3>1, RoundedBeyond
      <4>2. QED
        BY <1>2, <2>2, <2>5, <4>1
    <3>2. QED
      BY <3>1
  <2>7. QED
    BY <1>1, <2>1, <2>5, <2>6
<1>5. j <= LeafOf(FirstKey(d))
  <2>1. PICK l : l = LeafOf(FirstKey(d)) /\ l \in LeafNumbers /\ l \in Nat
    <3>1. PICK f, i : f = FirstKey(d) /\ f \in Nat /\ i = LeafOf(f)
      BY <1>1
    <3>2. i \in LeafNumbers
      BY <1>1, <3>1, LeafOfOK
    <3>3. QED
      BY <1>1, <3>1, <3>2, LeavesOK
  <2>2. ASSUME l < j PROVE FALSE
    <3>1. PICK g : g = Max(inst.leaves[l]) /\ g \in inst.leaves[l] /\ g \in Nat
      BY <1>1, <2>1, GreatestKey
    <3>2. PICK k : k \in inst.leaves[j]
      BY <1>1, LeavesOK
    <3>3. g < k /\ k <= FirstKey(d) /\ k \in Nat
      BY <1>1, <1>4, <2>1, <2>2, <3>1, <3>2, LeafOrder
    <3>4. l # Len(inst.leaves)
      BY <1>1, <2>1, <2>2, LeavesOK
    <3>5. g >= FirstKey(d)
      BY <1>1, <2>1, <3>1, <3>4, LeafOfOK
    <3>6. QED
      BY <1>1, <3>1, <3>3, <3>5
  <2>3. QED
    BY <1>1, <2>1, <2>2
<1>6. ASSUME j = Len(inst.leaves), NEW h \in KeysOf(d) PROVE FALSE
  <2>1. h \in InitKeys /\ OfInteger(h) >= lx
    BY <1>2, <1>6 DEF KeysOf, InCell
  <2>2. PICK i \in LeafNumbers : h \in inst.leaves[i]
    BY <1>1, <2>1, InitKeysOK
  <2>3. PICK k : k = Max(inst.leaves[j]) /\ k \in inst.leaves[j] /\ k \in Nat
    BY <1>1, GreatestKey
  <2>4. h <= k
    <3>1. i <= j /\ i \in Nat /\ h \in Nat
      BY <1>1, <1>6, <2>2, LeavesOK
    <3>2. CASE i = j
      BY <1>1, <2>2, <2>3, <3>2, GreatestKey
    <3>3. CASE i < j
      <4>1. h < k
        BY <1>1, <2>2, <2>3, <3>3, LeafOrder
      <4>2. QED
        BY <2>3, <3>1, <4>1
    <3>4. QED
      BY <1>1, <3>1, <3>2, <3>3
  <2>5. k \in InitKeys /\ OfInteger(k) < lx
    BY <1>4, <2>3
  <2>6. OfInteger(h) <= OfInteger(k) /\ OfInteger(h) \in Nat /\ OfInteger(k) \in Nat
    BY <2>1, <2>4, <2>5, KeyRounded
  <2>7. QED
    BY <1>2, <2>1, <2>5, <2>6
<1>7. QED
  BY <1>5, <1>6

\* What a scan from k on adds to what the call has come across.
LEMMA AcrossScan ==
  ASSUME TypeInv, NEW c \in GridCells, NEW k \in Nat, FirstKey(c) <= k,
         NEW l, l = LeafOf(k)
  PROVE  /\ Across(c, k) \subseteq InitKeys /\ Onwards(k) \subseteq InitKeys
         /\ Across(c, k) \cap Onwards(k) = {}
         /\ Onwards(k) # {} =>
              /\ Max(Onwards(k)) = Max(inst.leaves[l]) /\ Max(inst.leaves[l]) >= k
              /\ Across(c, Max(inst.leaves[l]) + 1) = Across(c, k) \cup Onwards(k)
         /\ Onwards(k) = {} => l = Len(inst.leaves)
<1>1. inst \in Instances /\ FirstKey(c) \in Nat /\ l \in LeafNumbers
  BY FirstKeyNat, LeafOfOK DEF TypeInv
<1>2. PICK m : m = Max(inst.leaves[l]) /\ m \in inst.leaves[l] /\ m \in Nat
  BY <1>1, GreatestKey
<1>3. \A h \in inst.leaves[l] : h \in Nat /\ h \in InitKeys /\ h <= m
  BY <1>1, <1>2, GreatestKey, LeavesOK, InitKeysOK
<1>4. PICK O : O = Onwards(k)
  OBVIOUS
<1>5. O = {h \in inst.leaves[l] : h >= k}
  BY <1>4 DEF Onwards
<1>6. \A h \in O : h \in inst.leaves[l] /\ h \in InitKeys /\ h \in Nat /\ h >= k /\ h <= m
  BY <1>3, <1>5
<1>7. Across(c, k) \cap O = {}
  <2>1. \A h \in Across(c, k) : h < k /\ h \in Nat
    BY <1>1, InitKeysOK DEF Across
  <2>2. \A h \in O : ~(h < k)
    BY <1>6
  <2>3. QED
    BY <2>1, <2>2
<1>8. ASSUME O # {} PROVE m >= k /\ m \in O
  <2>1. PICK h \in O : TRUE
    BY <1>8
  <2>2. m >= k
    BY <1>2, <1>6, <2>1
  <2>3. QED
    BY <1>2, <1>5, <2>2
<1>9. ASSUME O # {} PROVE Max(O) = m
  <2>1. IsFiniteSet(O) /\ O \subseteq Nat
    BY <1>1, <1>4, EntriesOK
  <2>2. Max(O) \in O /\ \A y \in O : y <= Max(O)
    BY <1>9, <2>1, MaxOf
  <2>3. QED
    BY <1>2, <1>6, <1>8, <1>9, <2>2
<1>10. ASSUME O # {} PROVE Across(c, m + 1) = Across(c, k) \cup O
  <2>1. m >= k
    BY <1>8, <1>10
  <2>2. ASSUME NEW h \in Across(c, m + 1), ~(h < k) PROVE h \in O
    <3>1. h \in InitKeys /\ h \in Nat /\ h < m + 1
      BY <1>1, <2>2, InitKeysOK DEF Across
    <3>2. h <= m /\ h >= k
      BY <1>2, <2>2, <3>1
    <3>3. PICK i \in LeafNumbers : h \in inst.leaves[i]
      BY <1>1, <3>1, InitKeysOK
    <3>4. ~(i < l)
      <4>1. ASSUME i < l PROVE FALSE
        <5>1. h < k
          BY <1>1, <3>3, <4>1, LeafOfOK
        <5>2. QED
          BY <2>2, <5>1
      <4>2. QED
        BY <4>1
    <3>5. i \in Nat /\ l \in Nat
      BY <1>1, <3>3, LeavesOK
    <3>6. ~(l < i)
      <4>1. ASSUME l < i PROVE FALSE
        <5>1. m < h
          BY <1>1, <1>2, <3>3, <4>1, LeafOrder
        <5>2. QED
          BY <1>2, <3>1, <3>2, <5>1
      <4>2. QED
        BY <4>1
    <3>7. h \in inst.leaves[l]
      BY <3>3, <3>4, <3>5, <3>6
    <3>8. QED
      BY <1>5, <3>2, <3>7
  <2>3. ASSUME NEW h \in Across(c, m + 1) PROVE h \in Across(c, k) \cup O
    <3>1. CASE h < k
      BY <2>3, <3>1 DEF Across
    <3>2. QED
      BY <2>2, <2>3, <3>1
  <2>4. ASSUME NEW h \in Across(c, k) PROVE h \in Across(c, m + 1)
    <3>1. h \in InitKeys /\ h \in Nat /\ h < k /\ FirstKey(c) <= h
      BY <1>1, <2>4, InitKeysOK DEF Across
    <3>2. h < m + 1
      BY <1>2, <2>1, <3>1
    <3>3. QED
      BY <3>1, <3>2 DEF Across
  <2>5. ASSUME NEW h \in O PROVE h \in Across(c, m + 1)
    <3>1. h \in InitKeys /\ h \in Nat /\ h >= k /\ h <= m
      BY <1>6, <2>5
    <3>2. h < m + 1 /\ FirstKey(c) <= h
      BY <1>1, <1>2, <3>1
    <3>3. QED
      BY <3>1, <3>2 DEF Across
  <2>6. QED
    BY <2>3, <2>4, <2>5
<1>11. ASSUME O = {} PROVE l = Len(inst.leaves)
  <2>1. ~(m >= k)
    BY <1>2, <1>5, <1>11
  <2>2. QED
    BY <1>1, <1>2, <2>1, LeafOfOK
<1>12. Across(c, k) \subseteq InitKeys /\ O \subseteq InitKeys
  BY <1>6 DEF Across
<1>13. QED
  BY <1>2, <1>4, <1>7, <1>8, <1>9, <1>10, <1>11, <1>12

\* What the next scan of a call does that has come across as many keys as it has
\* counted: it ends the call behind every leaf that is due, or goes on behind its leaf.
LEMMA NextScan ==
  ASSUME TypeInv, pc \in {"scan", "move"}, NEW k \in Nat, FirstKey(gc) <= k,
         NEW n \in Nat, n = Cardinality(Across(gc, k)), n <= DataDist[gc],
         NEW found, found = Entries(k, DataDist[gc] - n),
         Continue(found, n + Cardinality(found)),
         inst' = inst, glbGridCell' = glbGridCell
  PROVE  \/ /\ gc' = gc + 1 /\ pc' \in {"scan", "divide"}
            /\ \A j \in LeafNumbers : Due(j, gc) => j <= LeafOf(k)
         \/ /\ gc' = gc /\ pc' = "move"
            /\ \E h \in inst.leaves[LeafOf(k)] : h >= k
            /\ nextKey' = Max(inst.leaves[LeafOf(k)]) + 1 /\ k <= nextKey'
            /\ count' = Cardinality(Across(gc, nextKey'))
<1>1. inst \in Instances /\ gc \in GridCells /\ Registered /\ DataDist[gc] \in Nat
  <2>1. Cardinality(InitKeys) \in Nat
    BY InitKeysOK DEF TypeInv
  <2>2. QED
    BY <2>1 DEF TypeInv, TypeOK, Registered
<1>2. PICK l : l = LeafOf(k) /\ l \in LeafNumbers /\ l \in Nat
  BY <1>1, LeafOfOK, LeavesOK
<1>3. PICK d : d = DataDist[gc] /\ d \in Nat /\ d = Cardinality(KeysOf(gc))
  BY <1>1 DEF TypeInv, Distributed
<1>4. PICK m : m = d - n /\ m \in Nat
  BY <1>3
<1>5. PICK O : O = Onwards(k)
  OBVIOUS
<1>6. /\ found = Entries(k, m) /\ found \subseteq O /\ IsFiniteSet(found)
      /\ Cardinality(found) \in Nat /\ (found = O \/ Cardinality(found) >= m)
  <2>1. found = Entries(k, m)
    BY <1>3, <1>4
  <2>2. QED
    BY <1>1, <1>4, <1>5, <2>1, EntriesOK
<1>7. PICK A : A = Across(gc, k)
  OBVIOUS
<1>8. /\ A \subseteq InitKeys /\ O \subseteq InitKeys /\ A \cap O = {}
      /\ (O # {} => /\ Max(O) = Max(inst.leaves[l]) /\ Max(inst.leaves[l]) >= k
                    /\ Across(gc, Max(inst.leaves[l]) + 1) = A \cup O)
      /\ (O = {} => l = Len(inst.leaves))
  BY <1>1, <1>2, <1>5, <1>7, AcrossScan
<1>9. IsFiniteSet(A) /\ IsFiniteSet(O) /\ n = Cardinality(A)
  BY <1>1, <1>7, <1>8, InitKeysOK, FS_Subset
<1>10. PICK t : t = n + Cardinality(found) /\ t \in Nat
  BY <1>6
<1>11. IsFiniteSet(A \cup found) /\ Cardinality(A \cup found) = t
  <2>1. A \cap found = {}
    BY <1>6, <1>8
  <2>2. Cardinality(A \cap found) = 0
    BY <2>1, FS_EmptySet
  <2>3. PICK e, u : e = Cardinality(found) /\ u = Cardinality(A \cup found)
    OBVIOUS
  <2>4. IsFiniteSet(A \cup found) /\ u = n + e - 0
    BY <1>6, <1>9, <2>2, <2>3, FS_Union
  <2>5. e \in Nat /\ t = n + e
    BY <1>6, <1>10, <2>3
  <2>6. QED
    BY <2>3, <2>4, <2>5
<1>12. CASE EndOfCall(found, t)
  <2>1. gc' = gc + 1 /\ pc' \in {"scan", "divide"}
    BY <1>10, <1>12 DEF Continue
  <2>2. ASSUME NEW j \in LeafNumbers, Due(j, gc) PROVE j <= l
    <3>1. j \in Nat /\ j <= Len(inst.leaves)
      BY <1>1, LeavesOK
    <3>2. CASE t >= d
      <4>1. ASSUME l < j PROVE FALSE
        <5>1. ASSUME NEW h \in A \cup found
              PROVE  FirstKey(gc) <= h /\ \A g \in inst.leaves[j] : h < g
          <6>1. PICK x : x = Max(inst.leaves[l]) /\ x \in inst.leaves[l] /\ x \in Nat
            BY <1>1, <1>2, GreatestKey
          <6>2. \A g \in inst.leaves[j] : g \in Nat /\ x < g
            BY <1>1, <1>2, <4>1, <6>1, LeavesOK
          <6>3. l # Len(inst.leaves)
            BY <1>2, <3>1, <4>1
          <6>4. x >= k
            BY <1>1, <1>2, <6>1, <6>3, LeafOfOK
          <6>5. h \in Nat /\ FirstKey(gc) \in Nat
            BY <1>1, <1>6, <1>8, FirstKeyNat, InitKeysOK
          <6>6. CASE h \in A
            <7>1. FirstKey(gc) <= h /\ h < k
              BY <1>7, <6>6 DEF Across
            <7>2. QED
              BY <6>1, <6>2, <6>4, <6>5, <7>1
          <6>7. CASE h \in O
            <7>1. h \in inst.leaves[l] /\ h >= k
              BY <1>2, <1>5, <6>7 DEF Onwards
            <7>2. h <= x
              BY <1>1, <1>2, <6>1, <7>1, GreatestKey
            <7>3. QED
              BY <6>1, <6>2, <6>5, <7>1, <7>2
          <6>8. QED
            BY <1>6, <6>6, <6>7
        <5>2. A \cup found \subseteq InitKeys
          BY <1>6, <1>8
        <5>3. Cardinality(A \cup found) < Cardinality(KeysOf(gc))
          BY <1>1, <2>2, <5>1, <5>2, BeforeDue
        <5>4. QED
          BY <1>3, <1>10, <1>11, <3>2, <5>3
      <4>2. QED
        BY <1>2, <3>1, <4>1
    <3>3. CASE ~(t >= d)
      <4>1. found = {}
        BY <1>3, <1>12, <3>3 DEF EndOfCall
      <4>2. ~(Cardinality(found) >= m)
        <5>1. PICK e : e = Cardinality(found) /\ e = 0
          BY <4>1, FS_EmptySet
        <5>2. t = n + e /\ m = d - n /\ d \in Nat /\ ~(t >= d)
          BY <1>3, <1>4, <1>10, <3>3, <5>1
        <5>3. ~(e >= m)
          BY <5>1, <5>2
        <5>4. QED
          BY <5>1, <5>3
      <4>3. O = {}
        BY <1>6, <4>1, <4>2
      <4>4. QED
        BY <1>8, <3>1, <4>3
    <3>4. QED
      BY <3>2, <3>3
  <2>3. QED
    BY <1>2, <2>1, <2>2
<1>13. CASE ~EndOfCall(found, t)
  <2>1. ~(t >= d) /\ found # {}
    BY <1>3, <1>13 DEF EndOfCall
  <2>2. ~(Cardinality(found) >= m)
    BY <1>3, <1>4, <1>6, <1>10, <2>1
  <2>3. found = O /\ O # {}
    BY <1>6, <2>1, <2>2
  <2>4. PICK x : x = Max(inst.leaves[l]) /\ x \in Nat /\ x >= k
    BY <1>1, <1>2, <1>8, <2>3, GreatestKey
  <2>5. /\ count' = t /\ gc' = gc /\ pc' = "move"
        /\ nextKey' = incKey(Max(found))
    BY <1>10, <1>13, <2>1 DEF Continue
  <2>6. nextKey' = x + 1 /\ k <= nextKey'
    <3>1. nextKey' = x + 1
      BY <1>8, <2>3, <2>4, <2>5 DEF incKey
    <3>2. QED
      BY <2>4, <3>1
  <2>7. Across(gc, nextKey') = A \cup found
    BY <1>8, <2>3, <2>4, <2>6
  <2>8. \E h \in inst.leaves[LeafOf(k)] : h >= k
    BY <1>5, <2>3 DEF Onwards
  <2>9. QED
    BY <1>2, <1>11, <2>4, <2>5, <2>6, <2>7, <2>8
<1>14. QED
  BY <1>12, <1>13

-------------------------------------------------------------------------------
(***************************************************************************)
(* The leaves of the cells that are finished lie where they should; a call *)
(* has counted the keys that it came across, has come to the end of a leaf *)
(* L, and has moved every leaf behind its first one up to L.               *)
(***************************************************************************)
Settled(c) == \A j \in LeafNumbers : Due(j, c) => place[leaf(j)] = numaConfig[c]

UnderWay(c, L) ==
  /\ LeafOf(FirstKey(c)) <= L
  /\ nextKey = Max(inst.leaves[L]) + 1
  /\ \A j \in LeafNumbers :
       LeafOf(FirstKey(c)) < j /\ j <= L => place[leaf(j)] = numaConfig[c]

FollowInv ==
  /\ pc \notin {"register", "distribution"} => \A c \in GridCells : c < gc => Settled(c)
  /\ pc = "move" =>
       /\ FirstKey(gc) <= nextKey
       /\ count = Cardinality(Across(gc, nextKey))
       /\ \E L \in LeafNumbers : UnderWay(gc, L)

LEMMA DueSame ==
  ASSUME inst' = inst, glbGridCell' = glbGridCell
  PROVE  /\ LeafNumbers' = LeafNumbers
         /\ \A j, c : Due(j, c)' = Due(j, c)
         /\ \A c : LeafOf(FirstKey(c))' = LeafOf(FirstKey(c)) /\ FirstKey(c)' = FirstKey(c)
         /\ \A c, k : Across(c, k)' = Across(c, k)
<1>1. LeafNumbers' = LeafNumbers /\ InitKeys' = InitKeys
  BY TreeSame
<1>2. /\ \A k : CellsOf(k)' = CellsOf(k)
      /\ \A c : FirstKey(c)' = FirstKey(c)
  BY KeysSame
<1>3. \A c : Within(c)' = Within(c)
  BY <1>1, <1>2 DEF Within
<1>4. \A j, c : Shares(j, c)' = Shares(j, c)
  BY <1>2 DEF Shares
<1>5. \A j, c : Due(j, c)' = Due(j, c)
  BY <1>3, <1>4 DEF Due
<1>6. \A c : LeafOf(FirstKey(c))' = LeafOf(FirstKey(c))
  BY <1>1, <1>2 DEF LeafOf
<1>7. \A c, k : Across(c, k)' = Across(c, k)
  BY <1>1, <1>2 DEF Across
<1>8. QED
  BY <1>1, <1>2, <1>5, <1>6, <1>7

\* What the NUMA node of a leaf is after a step of migratory_scan_.
LEMMA LeafMoved ==
  ASSUME TypeInv, migratory_scan_, NEW l, l = LeafOf(nextKey), NEW j \in LeafNumbers
  PROVE  /\ j = l => place'[leaf(j)] = numaConfig[gc]
         /\ j # l => place'[leaf(j)] = place[leaf(j)]
<1>1. leaf(j) \in TreeNodes
  BY DEF TreeNodes
<1>2. place'[leaf(j)] = IF leaf(j) \in Descent(l) THEN numaConfig[gc] ELSE place[leaf(j)]
  BY <1>1 DEF migratory_scan_, OnTheWay
<1>3. leaf(j) # Root /\ leaf(j) # inner(l) /\ (leaf(j) = leaf(l) <=> j = l)
  BY DEF leaf, inner, Root
<1>4. leaf(j) \in Descent(l) <=> j = l
  BY <1>3 DEF Descent
<1>5. QED
  BY <1>2, <1>4

\* A step that leaves the places and the cells alone, and finishes none.
LEMMA QuietFollow ==
  ASSUME FollowInv, inst' = inst, glbGridCell' = glbGridCell, numaConfig' = numaConfig,
         place' = place, gc' = gc, pc \notin {"register", "distribution"}, pc' # "move"
  PROVE  FollowInv'
<1>1. /\ LeafNumbers' = LeafNumbers
      /\ \A j, c : Due(j, c)' = Due(j, c)
  BY DueSame
<1>2. \A c : Settled(c)' = Settled(c)
  BY <1>1 DEF Settled, leaf
<1>3. QED
  BY <1>2 DEF FollowInv

LEMMA InitFollows == Init => FollowInv
BY DEF Init, FollowInv

LEMMA ScanFollows ==
  ASSUME TypeInv, FollowInv, ScanFirst
  PROVE  FollowInv'
<1>1. /\ pc = "scan" /\ gc \in GridCells /\ inst \in Instances /\ DataDist[gc] \in Nat
      /\ Registered
  <2>1. Cardinality(InitKeys) \in Nat
    BY InitKeysOK DEF TypeInv
  <2>2. QED
    BY <2>1 DEF ScanFirst, TypeInv, TypeOK, Registered
<1>2. UNCHANGED <<inst, numaConfig, glbGridCell, DataDist, place, numa_nodes>>
  BY DEF ScanFirst
<1>3. /\ LeafNumbers' = LeafNumbers
      /\ \A j, c : Due(j, c)' = Due(j, c)
      /\ \A c : LeafOf(FirstKey(c))' = LeafOf(FirstKey(c)) /\ FirstKey(c)' = FirstKey(c)
      /\ \A c, k : Across(c, k)' = Across(c, k)
  BY <1>2, DueSame
<1>4. \A c : Settled(c)' = Settled(c)
  BY <1>2, <1>3 DEF Settled, leaf
<1>5. PICK k : k = FirstKey(gc) /\ k \in Nat
  BY <1>1, FirstKeyNat
<1>6. PICK l : l = LeafOf(k) /\ l \in LeafNumbers /\ l \in Nat
  BY <1>1, <1>5, LeafOfOK, LeavesOK
<1>7. Across(gc, k) = {} /\ Cardinality(Across(gc, k)) = 0
  <2>1. ASSUME NEW h \in Across(gc, k) PROVE FALSE
    <3>1. h \in Nat /\ k <= h /\ h < k
      BY <1>1, <1>5, InitKeysOK DEF Across
    <3>2. QED
      BY <1>5, <3>1
  <2>2. Across(gc, k) = {}
    BY <2>1
  <2>3. QED
    BY <2>2, FS_EmptySet
<1>8. PICK found : /\ found = Entries(k, DataDist[gc] - 0)
                   /\ Continue(found, 0 + Cardinality(found))
  <2>1. PICK d : d = DataDist[gc] /\ d \in Nat
    BY <1>1
  <2>2. PICK found : found = Entries(k, d)
    OBVIOUS
  <2>3. Continue(found, Cardinality(found))
    BY <1>5, <2>1, <2>2 DEF ScanFirst
  <2>4. Cardinality(found) \in Nat
    BY <1>1, <1>5, <2>1, <2>2, EntriesTyped
  <2>5. d - 0 = d /\ 0 + Cardinality(found) = Cardinality(found)
    BY <2>1, <2>4
  <2>6. QED
    BY <2>1, <2>2, <2>3, <2>5
<1>9. \/ /\ gc' = gc + 1 /\ pc' \in {"scan", "divide"}
         /\ \A j \in LeafNumbers : Due(j, gc) => j <= l
      \/ /\ gc' = gc /\ pc' = "move"
         /\ \E h \in inst.leaves[l] : h >= k
         /\ nextKey' = Max(inst.leaves[l]) + 1 /\ k <= nextKey'
         /\ count' = Cardinality(Across(gc, nextKey'))
  <2>1. 0 \in Nat /\ 0 = Cardinality(Across(gc, k)) /\ 0 <= DataDist[gc] /\ FirstKey(gc) <= k
    BY <1>1, <1>5, <1>7
  <2>2. QED
    BY <1>1, <1>2, <1>5, <1>6, <1>8, <2>1, NextScan
<1>10. CASE /\ gc' = gc + 1 /\ pc' \in {"scan", "divide"}
            /\ \A j \in LeafNumbers : Due(j, gc) => j <= l
  <2>1. Settled(gc)
    <3>1. ASSUME NEW j \in LeafNumbers, Due(j, gc) PROVE FALSE
      <4>1. l < j /\ j \in Nat
        BY <1>1, <1>5, <1>6, <3>1, BeginsBefore, LeavesOK
      <4>2. j <= l
        BY <1>10, <3>1
      <4>3. QED
        BY <1>6, <4>1, <4>2
    <3>2. QED
      BY <3>1 DEF Settled
  <2>2. ASSUME NEW c \in GridCells, c < gc' PROVE Settled(c)
    <3>1. c \in Nat /\ gc \in Nat
      BY <1>1, Parameters DEF GridCells
    <3>2. c < gc \/ c = gc
      BY <1>10, <2>2, <3>1
    <3>3. QED
      BY <1>1, <2>1, <3>2 DEF FollowInv
  <2>3. QED
    BY <1>4, <1>10, <2>2 DEF FollowInv
<1>11. CASE /\ gc' = gc /\ pc' = "move"
            /\ nextKey' = Max(inst.leaves[l]) + 1 /\ k <= nextKey'
            /\ count' = Cardinality(Across(gc, nextKey'))
  <2>1. \A c \in GridCells : c < gc => Settled(c)
    BY <1>1 DEF FollowInv
  <2>2. \A j \in LeafNumbers : ~(l < j /\ j <= l)
    BY <1>1, <1>6, LeavesOK
  <2>3. UnderWay(gc, l)'
    BY <1>2, <1>3, <1>5, <1>6, <1>11, <2>2 DEF UnderWay
  <2>4. FirstKey(gc)' <= nextKey' /\ count' = Cardinality(Across(gc, nextKey))'
    BY <1>3, <1>5, <1>11
  <2>5. QED
    BY <1>3, <1>4, <1>6, <1>11, <2>1, <2>3, <2>4 DEF FollowInv
<1>12. QED
  BY <1>9, <1>10, <1>11

LEMMA MoveFollows ==
  ASSUME TypeInv, FollowInv, migratory_scan_
  PROVE  FollowInv'
<1>1. /\ pc = "move" /\ gc \in GridCells /\ inst \in Instances /\ DataDist[gc] \in Nat
      /\ Registered /\ nextKey \in Nat /\ count \in Nat /\ count < DataDist[gc]
  <2>1. Cardinality(InitKeys) \in Nat
    BY InitKeysOK DEF TypeInv
  <2>2. QED
    BY <2>1 DEF migratory_scan_, TypeInv, TypeOK, Registered, Calls
<1>2. UNCHANGED <<inst, numaConfig, glbGridCell, DataDist, numa_nodes>>
  BY DEF migratory_scan_
<1>3. /\ LeafNumbers' = LeafNumbers
      /\ \A j, c : Due(j, c)' = Due(j, c)
      /\ \A c : LeafOf(FirstKey(c))' = LeafOf(FirstKey(c)) /\ FirstKey(c)' = FirstKey(c)
      /\ \A c, k : Across(c, k)' = Across(c, k)
  BY <1>2, DueSame
<1>4. /\ FirstKey(gc) <= nextKey
      /\ count = Cardinality(Across(gc, nextKey))
      /\ \A c \in GridCells : c < gc => Settled(c)
  BY <1>1 DEF FollowInv
<1>5. PICK L \in LeafNumbers : UnderWay(gc, L)
  BY <1>1 DEF FollowInv
<1>6. PICK first : first = LeafOf(FirstKey(gc)) /\ first \in LeafNumbers /\ first \in Nat
  <2>1. PICK f, i : f = FirstKey(gc) /\ f \in Nat /\ i = LeafOf(f)
    BY <1>1, FirstKeyNat
  <2>2. i \in LeafNumbers
    BY <1>1, <2>1, LeafOfOK
  <2>3. QED
    BY <1>1, <2>1, <2>2, LeavesOK
<1>7. PICK k : k = nextKey /\ k \in Nat
  BY <1>1
<1>8. PICK m : m = Max(inst.leaves[L]) /\ m \in inst.leaves[L] /\ m \in Nat
  BY <1>1, <1>5, GreatestKey
<1>9. /\ first <= L /\ k = m + 1 /\ L \in Nat
      /\ \A j \in LeafNumbers : first < j /\ j <= L => place[leaf(j)] = numaConfig[gc]
  BY <1>1, <1>5, <1>6, <1>7, <1>8, LeavesOK DEF UnderWay
<1>10. PICK l : l = LeafOf(k) /\ l \in LeafNumbers /\ l \in Nat
  <2>1. PICK i : i = LeafOf(k)
    OBVIOUS
  <2>2. i \in LeafNumbers
    BY <1>1, <1>7, <2>1, LeafOfOK
  <2>3. QED
    BY <1>1, <2>1, <2>2, LeavesOK
<1>11. \A j \in LeafNumbers : /\ j = l => place'[leaf(j)] = numaConfig[gc]
                              /\ j # l => place'[leaf(j)] = place[leaf(j)]
  BY <1>7, <1>10, LeafMoved
<1>12. \A j \in LeafNumbers : j < l => j <= L
  <2>1. ASSUME NEW j \in LeafNumbers, j < l PROVE j <= L
    <3>1. PICK h : h = Max(inst.leaves[j]) /\ h \in inst.leaves[j] /\ h \in Nat
      BY <1>1, GreatestKey
    <3>2. h < k
      BY <1>1, <1>7, <1>10, <2>1, <3>1, LeafOfOK
    <3>3. h < m \/ h = m
      BY <1>8, <1>9, <3>1, <3>2
    <3>4. QED
      BY <1>1, <1>8, <1>9, <3>1, <3>3, LeafOrder
  <2>2. QED
    BY <2>1
\* What lies behind the first leaf, up to this one, has been moved.
<1>13. \A j \in LeafNumbers : first < j /\ j <= l => place'[leaf(j)] = numaConfig[gc]
  <2>1. ASSUME NEW j \in LeafNumbers, first < j, j <= l PROVE place'[leaf(j)] = numaConfig[gc]
    <3>1. CASE j = l
      BY <1>11, <3>1
    <3>2. CASE j # l
      <4>1. j < l
        BY <1>1, <1>10, <2>1, <3>2, LeavesOK
      <4>2. QED
        BY <1>9, <1>11, <1>12, <2>1, <3>2, <4>1
    <3>3. QED
      BY <3>1, <3>2
  <2>2. QED
    BY <2>1
\* The leaves of the cells before are left alone.
<1>14. ASSUME NEW c \in GridCells, c < gc, NEW j \in LeafNumbers, Due(j, c) PROVE j # l
  <2>1. j <= first /\ (j = Len(inst.leaves) => KeysOf(gc) = {})
    BY <1>1, <1>6, <1>14, Passed
  <2>2. ASSUME j = l PROVE FALSE
    <3>1. PICK x : x = Max(inst.leaves[l]) /\ x \in inst.leaves[l] /\ x \in Nat
      BY <1>1, <1>10, GreatestKey
    <3>2. ~(x >= k)
      <4>1. l <= L
        BY <1>6, <1>9, <1>10, <2>1, <2>2
      <4>2. x <= m
        <5>1. CASE l = L
          BY <1>8, <3>1, <5>1
        <5>2. CASE l < L
          <6>1. x < m
            BY <1>1, <1>5, <1>8, <1>10, <3>1, <5>2, LeafOrder
          <6>2. QED
            BY <1>8, <3>1, <6>1
        <5>3. QED
          BY <1>9, <1>10, <4>1, <5>1, <5>2
      <4>3. QED
        BY <1>8, <1>9, <3>1, <4>2
    <3>3. l = Len(inst.leaves)
      BY <1>1, <1>7, <1>10, <3>1, <3>2, LeafOfOK
    <3>4. KeysOf(gc) = {} /\ Cardinality(KeysOf(gc)) = 0
      BY <2>1, <2>2, <3>3, FS_EmptySet
    <3>5. DataDist[gc] = 0
      BY <1>1, <3>4 DEF TypeInv, Distributed
    <3>6. QED
      BY <1>1, <3>5
  <2>3. QED
    BY <2>2
<1>15. ASSUME NEW c \in GridCells, c < gc PROVE Settled(c)'
  <2>1. ASSUME NEW j \in LeafNumbers, Due(j, c) PROVE place'[leaf(j)] = numaConfig[c]
    <3>1. place[leaf(j)] = numaConfig[c]
      BY <1>4, <1>15, <2>1 DEF Settled
    <3>2. j # l
      BY <1>14, <1>15, <2>1
    <3>3. QED
      BY <1>11, <3>1, <3>2
  <2>2. QED
    BY <1>2, <1>3, <2>1 DEF Settled, leaf
<1>16. PICK found : /\ found = Entries(k, DataDist[gc] - count)
                    /\ Continue(found, count + Cardinality(found))
  BY <1>7 DEF migratory_scan_
<1>17. \/ /\ gc' = gc + 1 /\ pc' \in {"scan", "divide"}
          /\ \A j \in LeafNumbers : Due(j, gc) => j <= l
       \/ /\ gc' = gc /\ pc' = "move"
          /\ \E h \in inst.leaves[l] : h >= k
          /\ nextKey' = Max(inst.leaves[l]) + 1 /\ k <= nextKey'
          /\ count' = Cardinality(Across(gc, nextKey'))
  <2>1. PICK n : n = count /\ n \in Nat
    BY <1>1
  <2>2. n = Cardinality(Across(gc, k)) /\ n <= DataDist[gc] /\ FirstKey(gc) <= k
    BY <1>1, <1>4, <1>7, <2>1
  <2>3. found = Entries(k, DataDist[gc] - n) /\ Continue(found, n + Cardinality(found))
    BY <1>16, <2>1
  <2>4. QED
    BY <1>1, <1>2, <1>7, <1>10, <2>1, <2>2, <2>3, NextScan
<1>18. CASE /\ gc' = gc + 1 /\ pc' \in {"scan", "divide"}
            /\ \A j \in LeafNumbers : Due(j, gc) => j <= l
  <2>1. ASSUME NEW c \in GridCells, c = gc PROVE Settled(c)'
    <3>1. ASSUME NEW j \in LeafNumbers, Due(j, c) PROVE place'[leaf(j)] = numaConfig[c]
      <4>1. first < j /\ j <= l
        BY <1>1, <1>6, <1>18, <2>1, <3>1, BeginsBefore
      <4>2. QED
        BY <1>13, <2>1, <4>1
    <3>2. QED
      BY <1>2, <1>3, <3>1 DEF Settled, leaf
  <2>2. ASSUME NEW c \in GridCells, c < gc' PROVE Settled(c)'
    <3>1. c \in Nat /\ gc \in Nat
      BY <1>1, Parameters DEF GridCells
    <3>2. c < gc \/ c = gc
      BY <1>18, <2>2, <3>1
    <3>3. QED
      BY <1>15, <2>1, <3>2
  <2>3. QED
    BY <1>18, <2>2 DEF FollowInv
<1>19. CASE /\ gc' = gc /\ pc' = "move"
            /\ \E h \in inst.leaves[l] : h >= k
            /\ nextKey' = Max(inst.leaves[l]) + 1 /\ k <= nextKey'
            /\ count' = Cardinality(Across(gc, nextKey'))
  <2>1. L <= l
    <3>1. PICK h : h \in inst.leaves[l] /\ h >= k
      BY <1>19
    <3>2. h \in Nat /\ m < h
      BY <1>1, <1>8, <1>9, <1>10, <3>1, LeavesOK
    <3>3. QED
      BY <1>1, <1>5, <1>8, <1>10, <3>1, <3>2, LeafOrder
  <2>2. first <= l
    BY <1>6, <1>9, <1>10, <2>1
  <2>3. UnderWay(gc, l)'
    BY <1>2, <1>3, <1>6, <1>13, <1>19, <2>2 DEF UnderWay, leaf
  <2>4. FirstKey(gc)' <= nextKey' /\ count' = Cardinality(Across(gc, nextKey))'
    <3>1. FirstKey(gc) <= nextKey'
      <4>1. FirstKey(gc) \in Nat /\ FirstKey(gc) <= k /\ k <= nextKey' /\ nextKey' \in Nat
        <5>1. nextKey' \in Nat
          BY <1>1, <1>10, <1>19, GreatestKey
        <5>2. QED
          BY <1>1, <1>4, <1>7, <1>19, <5>1, FirstKeyNat
      <4>2. QED
        BY <1>7, <4>1
    <3>2. QED
      BY <1>3, <1>19, <3>1
  <2>5. QED
    BY <1>3, <1>10, <1>15, <1>19, <2>3, <2>4 DEF FollowInv
<1>20. QED
  BY <1>17, <1>18, <1>19

LEMMA NextFollows ==
  ASSUME TypeInv, FollowInv, [Next]_vars
  PROVE  FollowInv'
<1>1. CASE register_grid_cells
  BY <1>1 DEF register_grid_cells, FollowInv
<1>2. CASE buildDataDistIdx
  <2>1. gc' = 0 /\ pc' = "scan"
    BY <1>2 DEF buildDataDistIdx, TypeInv, Calls
  <2>2. \A c \in GridCells : ~(c < 0)
    BY Parameters DEF GridCells
  <2>3. QED
    BY <2>1, <2>2 DEF FollowInv
<1>3. CASE ScanFirst
  BY <1>3, ScanFollows
<1>4. CASE migratory_scan_
  BY <1>4, MoveFollows
<1>5. ASSUME NEW k, NEW visited, full_scan(k, visited)
      PROVE  /\ pc' \in {"next", "done"}
             /\ UNCHANGED <<inst, numaConfig, glbGridCell, place, gc>>
  BY <1>5 DEF full_scan
<1>6. CASE DivideFirst
  <2>1. pc = "divide" /\ full_scan(key1, Descent(LeafOf(key1)))
    BY <1>6 DEF DivideFirst
  <2>2. pc' \in {"next", "done"} /\ UNCHANGED <<inst, numaConfig, glbGridCell, place, gc>>
    BY <1>5, <2>1
  <2>3. QED
    BY <2>1, <2>2, QuietFollow
<1>7. CASE DivideNext
  <2>1. pc = "next" /\ full_scan(nextKey, {leaf(LeafOf(nextKey))})
    BY <1>7 DEF DivideNext
  <2>2. pc' \in {"next", "done"} /\ UNCHANGED <<inst, numaConfig, glbGridCell, place, gc>>
    BY <1>5, <2>1
  <2>3. QED
    BY <2>1, <2>2, QuietFollow
<1>8. CASE UNCHANGED vars
  <2>1. UNCHANGED <<inst, numaConfig, glbGridCell, DataDist, place, pc, gc, count, nextKey, numa_nodes>>
    BY <1>8 DEF vars
  <2>2. /\ LeafNumbers' = LeafNumbers
        /\ \A j, c : Due(j, c)' = Due(j, c)
        /\ \A c : LeafOf(FirstKey(c))' = LeafOf(FirstKey(c)) /\ FirstKey(c)' = FirstKey(c)
        /\ \A c, k : Across(c, k)' = Across(c, k)
    BY <2>1, DueSame
  <2>3. \A c : Settled(c)' = Settled(c)
    BY <2>1, <2>2 DEF Settled, leaf
  <2>4. \A L : UnderWay(gc, L)' = UnderWay(gc, L)
    BY <2>1, <2>2 DEF UnderWay, leaf
  <2>5. QED
    BY <2>1, <2>2, <2>3, <2>4 DEF FollowInv
<1>9. QED
  BY <1>1, <1>2, <1>3, <1>4, <1>6, <1>7, <1>8 DEF Next, Loops, Done

(***************************************************************************)
(* Once enforce_scheduling is through, every leaf that lies within a cell, *)
(* holds two keys and comes after a leaf that shares the cell is on that   *)
(* cell's NUMA node, over any borders and leaves, however both are         *)
(* rounded: no call ends before it, and no later call moves it away.       *)
(***************************************************************************)
THEOREM LeavesFollow == Spec => []LeavesFollowTheirCell
<1>1. TypeInv /\ FollowInv => LeavesFollowTheirCell
  <2> SUFFICES ASSUME TypeInv, FollowInv, pc \in {"divide", "next", "done"},
                      NEW c \in GridCells, NEW j \in Within(c),
                      j > 1 /\ Shares(j - 1, c) /\ Cardinality(inst.leaves[j]) > 1
               PROVE  place[leaf(j)] = numaConfig[c]
    BY DEF LeavesFollowTheirCell
  <2>1. Due(j, c)
    BY DEF Due
  <2>2. j \in LeafNumbers
    BY DEF Within
  <2>3. c < gc
    BY Parameters DEF TypeInv, Calls, GridCells
  <2>4. QED
    BY <2>1, <2>2, <2>3 DEF FollowInv, Settled
<1>2. TypeInv /\ FollowInv /\ [Next]_vars => TypeInv' /\ FollowInv'
  BY NextTyped, NextFollows
<1>3. Init => TypeInv /\ FollowInv
  BY InitTyped, InitFollows
<1>4. QED
  BY <1>1, <1>2, <1>3, PTL DEF Spec

-------------------------------------------------------------------------------
(***************************************************************************)
(* Where the borders are. Every operation rounds by half a spacing of its  *)
(* result, which is no coarser than that of the greatest number that       *)
(* occurs (SpacingRounded); the rounding of the width counts once for each *)
(* cell before the border. Numbers are compared twice and xPar times, so   *)
(* that halves and parts of the key space are whole.                       *)
(***************************************************************************)
Near(a, b, m) == a \in Nat /\ b \in Nat /\ m \in Nat /\ a <= b + m /\ b <= a + m

LEMMA NearVia ==
  ASSUME NEW a, NEW b, NEW c, NEW m, NEW k, Near(a, b, m), Near(b, c, k)
  PROVE  Near(a, c, m + k)
BY DEF Near

LEMMA NearPlus ==
  ASSUME NEW a, NEW b, NEW m, Near(a, b, m), NEW c, NEW d, NEW k, Near(c, d, k)
  PROVE  Near(a + c, b + d, m + k)
BY DEF Near

LEMMA NearTimes ==
  ASSUME NEW a, NEW b, NEW m, Near(a, b, m), NEW n \in Nat
  PROVE  Near(n * a, n * b, n * m)
<1>1. a \in Nat /\ b \in Nat /\ m \in Nat /\ a <= b + m /\ b <= a + m
  BY DEF Near
<1>2. n * a \in Nat /\ n * b \in Nat /\ n * m \in Nat
  BY <1>1
<1>3. n * a <= n * (b + m) /\ n * b <= n * (a + m)
  BY <1>1
<1>4. n * (b + m) = n * b + n * m /\ n * (a + m) = n * a + n * m
  BY <1>1
<1>5. QED
  BY <1>2, <1>3, <1>4 DEF Near

\* Rounding to a multiple of s goes to the nearer one.
LEMMA ToDoubleNear ==
  ASSUME NEW k \in Nat, NEW s \in Nat, s > 0
  PROVE  Near(2 * ToDouble(k, s), 2 * k, s)
<1>1. PICK q, r : q = k \div s /\ r = k % s
  OBVIOUS
<1>2. q \in Nat /\ r \in Nat /\ r < s /\ k = s * q + r
  BY <1>1
<1>3. PICK l : l = s * q /\ l \in Nat
  BY <1>2
<1>4. k - (k % s) = l
  BY <1>1, <1>2, <1>3
<1>5. \/ ToDouble(k, s) = l /\ 2 * r <= s
      \/ ToDouble(k, s) = l + s /\ 2 * r >= s
  BY <1>1, <1>2, <1>4 DEF ToDouble
<1>6. QED
  BY <1>2, <1>3, <1>5 DEF Near

LEMMA RoundNear ==
  ASSUME NEW x \in Nat, x < Limit
  PROVE  Near(2 * Round(x), 2 * x, Spacing(x))
<1>1. Spacing(x) \in Nat /\ Spacing(x) > 0
  BY SpacingBounds
<1>2. QED
  BY <1>1, ToDoubleNear DEF Round

\* A number that is rounded to y at most is not spaced more coarsely than y.
LEMMA SpacingRounded ==
  ASSUME NEW x \in Nat, x < Limit, NEW y \in Nat, y < Limit, x <= y \/ Round(x) <= y
  PROVE  Spacing(x) <= Spacing(y)
<1>1. PICK d : Spaced(x, d) /\ Spacing(x) = 2^d
  BY HasSpacing
<1>2. PICK e : Spaced(y, e) /\ Spacing(y) = 2^e
  BY HasSpacing
<1>3. d \in Nat /\ e \in Nat /\ d <= MaxExponent /\ e <= MaxExponent
  BY <1>1, <1>2, Parameters DEF Spaced
<1>4. d <= e
  <2>1. SUFFICES ASSUME d > e PROVE FALSE
    BY <1>3
  <2>2. x >= 2^(Significand + d - 1) /\ y < 2^(Significand + e)
    BY <1>1, <1>2, <1>3, <2>1 DEF Spaced
  <2>3. Round(x) >= 2^(Significand + d - 1) /\ Round(x) \in Nat
    BY <1>1, <1>3, <2>1, RoundWithin
  <2>4. Significand + e \in Exponents /\ Significand + d - 1 \in Exponents
    BY <1>3, <2>1, Parameters DEF Exponents
  <2>5. Significand + e <= Significand + d - 1
    BY <1>3, <2>1, Parameters
  <2>6. 2^(Significand + e) <= 2^(Significand + d - 1)
    BY <2>4, <2>5, PowerMonotone
  <2>7. 2^(Significand + e) \in Nat /\ 2^(Significand + d - 1) \in Nat
    BY <2>4, Parameters
  <2>8. QED
    BY <2>2, <2>3, <2>6, <2>7
<1>5. d \in Exponents /\ e \in Exponents
  BY <1>3, Parameters DEF Exponents
<1>6. QED
  BY <1>1, <1>2, <1>4, <1>5, PowerMonotone

\* The same for what is rounded to y at most.
LEMMA RoundsNear ==
  ASSUME NEW x \in Nat, x < Limit, NEW y \in Nat, y < Limit, x <= y \/ Round(x) <= y
  PROVE  Near(2 * Round(x), 2 * x, Spacing(y))
<1>1. Spacing(x) \in Nat /\ Spacing(y) \in Nat /\ Spacing(x) <= Spacing(y)
  BY SpacingBounds, SpacingRounded
<1>2. PICK r : r = Round(x) /\ r \in Nat
  BY RoundNat
<1>3. Near(2 * r, 2 * x, Spacing(x))
  BY <1>2, RoundNear
<1>4. QED
  BY <1>1, <1>2, <1>3 DEF Near

\* A quotient is off by half a spacing.
LEMMA OverNear ==
  ASSUME NEW a \in Nat, a < Limit, NEW n \in Nat, n > 0
  PROVE  Near(n * (2 * Over(a, n)), 2 * a, n * Spacing(a \div n))
<1>1. PICK b : b = a \div n /\ b \in Nat /\ b <= a
  OBVIOUS
<1>2. b < Limit
  BY <1>1, Parameters DEF Limit, Exponents
<1>3. PICK s : s = Spacing(b) /\ s \in Nat /\ s > 0
  BY <1>1, <1>2, SpacingBounds
<1>4. PICK t : t = n * s /\ t \in Nat /\ t > 0
  BY <1>3
<1>5. PICK d : d = ToDouble(a, t) /\ d \in Nat
  BY <1>4, ToDoubleBounds
<1>6. PICK q \in Nat : d = t * q
  <2>1. \E q \in Nat : ToDouble(a, t) = t * q
    BY <1>4, ToDoubleBounds
  <2>2. QED
    BY <1>5, <2>1
<1>7. PICK o : o = s * q /\ o \in Nat
  BY <1>3, <1>6
<1>8. d = n * o
  <2>1. (n * s) * q = n * (s * q)
    BY <1>3, <1>6
  <2>2. QED
    BY <1>4, <1>6, <1>7, <2>1
<1>9. Over(a, n) = o
  <2>1. Over(a, n) = d \div n
    BY <1>1, <1>3, <1>4, <1>5 DEF Over
  <2>2. (n * o) \div n = o
    <3>1. PICK m : m = (n * o) \div n
      OBVIOUS
    <3>2. n * o \in Nat /\ (n * o) % n = 0
      <4>1. o \in Nat
        BY <1>7
      <4>2. n * o \in Nat
        BY <4>1
      <4>3. (n * o) % n = 0
        BY <4>1, Multiple
      <4>4. QED
        BY <4>2, <4>3
    <3>3. m \in Nat /\ n * o = n * m
      BY <3>1, <3>2
    <3>4. QED
      BY <1>7, <3>1, <3>3
  <2>3. QED
    BY <1>8, <2>1, <2>2
<1>10. n * (2 * o) = 2 * d
  BY <1>7, <1>8
<1>11. Near(2 * d, 2 * a, t)
  BY <1>4, <1>5, ToDoubleNear
<1>12. QED
  BY <1>1, <1>3, <1>4, <1>9, <1>10, <1>11

\* The greatest number that occurs.
Top == IF Upper(xPar - 1) > End THEN Upper(xPar - 1) ELSE End

LEMMA TopOK ==
  ASSUME inst \in Instances
  PROVE  /\ Top \in Nat /\ Top < Limit /\ Start \in Nat /\ End \in Nat /\ Start <= End /\ End <= Top
         /\ \A c \in GridCells : /\ Border(c) \in Nat /\ Border(c) <= Top
                                 /\ Upper(c) \in Nat /\ Upper(c) <= Top
                                 /\ Upper(c) = Round(Border(c) + delX) /\ Border(c) + delX < Limit
         /\ \E v \in Nat : /\ linspace[1] = Start + v /\ linspace[1] <= Top
                           /\ delX = Round(v) /\ v < Limit /\ delX \in Nat
<1>1. /\ Size \in Nat /\ 256 * (Size + xPar) < Limit /\ Limit \in Nat
      /\ xPar \in Nat /\ xPar > 0
  BY InstanceOK, Parameters
<1>2. /\ Start \in Nat /\ End \in Nat /\ Start <= End /\ End <= 2 * Size
  BY EndsOK
<1>3. \A c \in GridCells : /\ c \in Nat /\ c <= xPar /\ c <= xPar - 1 /\ xPar - 1 \in GridCells
                           /\ Border(c) \in Nat /\ Border(c) <= 36 * Size + 4 * xPar
                           /\ Round(Border(c)) = Border(c) /\ Upper(c) \in Nat
                           /\ Border(c) <= Border(xPar - 1) /\ Upper(c) <= Upper(xPar - 1)
  <2>1. \A c \in GridCells : c \in Nat /\ c <= xPar /\ c <= xPar - 1 /\ xPar - 1 \in GridCells
    BY <1>1 DEF GridCells
  <2>2. QED
    BY <2>1, BorderOK, Borders
<1>4. xPar - 1 \in GridCells
  BY <1>1 DEF GridCells
<1>5. PICK l : l = linspace[1] /\ l \in Nat /\ l <= 36 * Size + 4 * xPar /\ Start <= l
               /\ (l = End \/ \E c \in GridCells : l = Border(c))
  <2>1. CASE xPar = 1
    BY <1>1, <1>2, <2>1, LinspaceIs
  <2>2. CASE xPar # 1
    <3>1. 1 \in GridCells /\ 0 \in GridCells
      BY <1>1, <2>2 DEF GridCells
    <3>2. Border(0) = Start /\ Border(0) <= Border(1)
      BY <3>1, BorderStart, Borders
    <3>3. linspace[1] = Border(1)
      BY <2>2, LinspaceIs
    <3>4. QED
      BY <1>3, <3>1, <3>2, <3>3
  <2>3. QED
    BY <2>1, <2>2
<1>6. PICK v : v = l - Start /\ v \in Nat /\ v < Limit /\ l = Start + v /\ v <= 36 * Size + 4 * xPar
  BY <1>1, <1>2, <1>5
<1>7. delX = Round(v) /\ delX \in Nat /\ delX <= 2 * v
  <2>1. linspace[0] = Start
    <3>1. 0 \in GridCells
      BY <1>1 DEF GridCells
    <3>2. QED
      BY <3>1, BorderStart, LinspaceIs
  <2>2. delX = Round(v)
    BY <1>5, <1>6, <2>1 DEF delX, Minus
  <2>3. QED
    BY <1>6, <2>2, RoundNat
<1>8. PICK w : w = delX /\ w \in Nat /\ w <= 72 * Size + 8 * xPar
  BY <1>1, <1>6, <1>7
<1>9. ASSUME NEW c \in GridCells
      PROVE  /\ Upper(c) = Round(Border(c) + delX) /\ Border(c) + delX < Limit
             /\ Border(c) <= Upper(c) /\ Upper(c) < Limit
  <2>1. PICK b : b = Border(c) /\ b \in Nat /\ b <= 36 * Size + 4 * xPar /\ Round(b) = b
    BY <1>3
  <2>2. b + w \in Nat /\ b + w < Limit /\ b <= b + w /\ b + w <= 108 * Size + 12 * xPar
    BY <1>1, <1>8, <2>1
  <2>3. Upper(c) = Round(b + w)
    BY <1>8, <2>1 DEF Upper, Plus
  <2>4. Round(b) <= Round(b + w) /\ Round(b + w) \in Nat /\ Round(b + w) <= 2 * (b + w)
    BY <2>1, <2>2, RoundMonotone, RoundNat
  <2>5. QED
    BY <1>1, <1>8, <2>1, <2>2, <2>3, <2>4
<1>10. PICK u : u = Upper(xPar - 1) /\ u \in Nat /\ u < Limit
  BY <1>3, <1>4, <1>9
<1>11. Top \in Nat /\ Top < Limit /\ u <= Top /\ End <= Top
  BY <1>1, <1>2, <1>10 DEF Top
<1>12. \A c \in GridCells : Border(c) <= Top /\ Upper(c) <= Top
  BY <1>3, <1>9, <1>10, <1>11
<1>13. l <= Top
  BY <1>5, <1>11, <1>12
<1>14. QED
  BY <1>2, <1>3, <1>5, <1>6, <1>7, <1>9, <1>11, <1>12, <1>13

\* The spacing that counts for all numbers, and that of the width of a cell.
Coarse == Spacing(Top)
Fine   == Spacing(Minus(End, Start) \div xPar)
Width  == End - Start
Off    == xPar * Fine + Coarse

LEMMA WidthNear ==
  ASSUME inst \in Instances
  PROVE  /\ Near(xPar * (2 * Delta), 2 * Width, Off) /\ Width \in Nat
         /\ Coarse \in Nat /\ Fine \in Nat /\ Off \in Nat /\ xPar \in Nat /\ xPar > 0 /\ Delta \in Nat
<1>1. /\ Top \in Nat /\ Top < Limit /\ Start \in Nat /\ End \in Nat /\ Start <= End /\ End <= Top
      /\ Delta \in Nat /\ xPar \in Nat /\ xPar > 0 /\ Limit \in Nat
  BY TopOK, EndsOK, Parameters, InstanceOK
<1>2. PICK w : w = End - Start /\ w \in Nat /\ w <= Top /\ w < Limit
  BY <1>1
<1>3. PICK d : d = Round(w) /\ d \in Nat /\ d < Limit
  <2>1. Round(w) \in Nat /\ Round(w) <= 2 * w
    BY <1>2, RoundNat
  <2>2. End <= 2 * Size /\ Size \in Nat /\ 256 * (Size + xPar) < Limit
    BY EndsOK, InstanceOK
  <2>3. QED
    BY <1>1, <1>2, <2>1, <2>2
<1>4. Near(2 * d, 2 * w, Coarse)
  BY <1>1, <1>2, <1>3, RoundsNear DEF Coarse
<1>5. Near(xPar * (2 * Delta), 2 * d, xPar * Fine)
  <2>1. Minus(End, Start) = d /\ Delta = Over(d, xPar)
    BY <1>2, <1>3 DEF Minus, Delta
  <2>2. QED
    BY <1>1, <1>3, <2>1, OverNear DEF Fine
<1>6. Near(xPar * (2 * Delta), 2 * w, xPar * Fine + Coarse)
  BY <1>4, <1>5, NearVia
<1>7. Fine \in Nat
  <2>1. PICK b : b = d \div xPar /\ b \in Nat /\ b <= d
    BY <1>1, <1>3
  <2>2. b < Limit
    BY <1>1, <1>3, <2>1
  <2>3. Fine = Spacing(b)
    BY <1>2, <1>3, <2>1 DEF Fine, Minus
  <2>4. QED
    BY <2>1, <2>2, <2>3, SpacingBounds
<1>8. Coarse \in Nat
  BY <1>1, SpacingBounds DEF Coarse
<1>9. QED
  BY <1>1, <1>2, <1>6, <1>7, <1>8 DEF Width, Off

\* The border behind c cells.
LEMMA BorderNear ==
  ASSUME inst \in Instances, NEW c \in Nat, c <= xPar, Border(c) <= Top
  PROVE  Near(xPar * (2 * Border(c)), xPar * (2 * Start) + c * (2 * Width),
              xPar * (2 * Coarse) + c * Off)
<1>1. /\ Near(xPar * (2 * Delta), 2 * Width, Off) /\ Width \in Nat /\ Coarse \in Nat /\ Off \in Nat
      /\ xPar \in Nat /\ xPar > 0 /\ Delta \in Nat
      /\ Top \in Nat /\ Top < Limit /\ Start \in Nat /\ Start <= Top
  BY WidthNear, TopOK
<1>2. PICK t : t = Delta * c /\ t \in Nat /\ t < Limit
  <2>1. Delta * c \in Nat /\ Delta * c <= xPar * Delta /\ xPar * Delta \in Nat
    BY <1>1
  <2>2. xPar * Delta <= 8 * Size + xPar /\ Size \in Nat /\ 256 * (Size + xPar) < Limit /\ Limit \in Nat
    BY EndsOK, InstanceOK
  <2>3. QED
    BY <1>1, <2>1, <2>2
<1>3. PICK r : r = Round(t) /\ r \in Nat /\ r < Limit /\ Start + r < Limit
  <2>1. Round(t) \in Nat /\ Round(t) <= 2 * t
    BY <1>2, RoundNat
  <2>2. t <= 8 * Size + xPar
    <3>1. Delta * c \in Nat /\ Delta * c <= xPar * Delta /\ xPar * Delta \in Nat
      BY <1>1
    <3>2. xPar * Delta <= 8 * Size + xPar /\ Size \in Nat
      BY EndsOK, InstanceOK
    <3>3. QED
      BY <1>1, <1>2, <3>1, <3>2
  <2>3. Start <= 2 * Size /\ Size \in Nat /\ 256 * (Size + xPar) < Limit /\ Limit \in Nat
    BY <1>1, EndsOK, InstanceOK
  <2>4. QED
    BY <1>1, <1>2, <2>1, <2>2, <2>3
<1>4. PICK x : x = Start + r /\ x \in Nat /\ x < Limit /\ r <= x
  BY <1>1, <1>3
<1>5. Border(c) = Round(x)
  BY <1>2, <1>3, <1>4 DEF Border, Plus, Times
<1>6. PICK b : b = Border(c) /\ b \in Nat /\ b <= Top
  BY <1>4, <1>5, RoundNat
<1>7. r <= Top
  <2>1. Round(r) = r
    BY <1>2, <1>3, RoundAgain
  <2>2. Round(r) <= Round(x)
    BY <1>3, <1>4, RoundMonotone
  <2>3. QED
    BY <1>1, <1>3, <1>5, <1>6, <2>1, <2>2
<1>8. Near(2 * b, 2 * x, Coarse) /\ Near(2 * r, 2 * t, Coarse)
  BY <1>1, <1>2, <1>3, <1>4, <1>5, <1>6, <1>7, RoundsNear DEF Coarse
<1>9. Near(xPar * (2 * b), xPar * (2 * x), xPar * Coarse)
  BY <1>1, <1>8, NearTimes
<1>10. Near(xPar * (2 * r), xPar * (2 * t), xPar * Coarse)
  BY <1>1, <1>8, NearTimes
<1>11. Near(c * (xPar * (2 * Delta)), c * (2 * Width), c * Off)
  BY <1>1, NearTimes
<1>12. xPar * (2 * t) = c * (xPar * (2 * Delta))
  BY <1>1, <1>2
<1>13. Near(xPar * (2 * r), c * (2 * Width), xPar * Coarse + c * Off)
  BY <1>10, <1>11, <1>12, NearVia
<1>14. PICK s2 : s2 = xPar * (2 * Start) /\ s2 \in Nat
  BY <1>1
<1>15. xPar * (2 * x) = s2 + xPar * (2 * r)
  BY <1>1, <1>3, <1>4, <1>14
<1>16. Near(s2 + xPar * (2 * r), s2 + c * (2 * Width), 0 + (xPar * Coarse + c * Off))
  BY <1>13, <1>14, NearPlus DEF Near
<1>17. Near(xPar * (2 * b), s2 + c * (2 * Width), xPar * Coarse + (0 + (xPar * Coarse + c * Off)))
  BY <1>9, <1>15, <1>16, NearVia
<1>18. xPar * Coarse + (0 + (xPar * Coarse + c * Off)) = xPar * (2 * Coarse) + c * Off
  <2>1. PICK p, q : p = xPar * Coarse /\ q = c * Off /\ p \in Nat /\ q \in Nat
    BY <1>1
  <2>2. xPar * (2 * Coarse) = 2 * p
    BY <1>1, <2>1
  <2>3. QED
    BY <2>1, <2>2
<1>19. QED
  BY <1>6, <1>14, <1>17, <1>18

\* The width of the first cell, which all are given.
LEMMA StepNear ==
  ASSUME inst \in Instances
  PROVE  Near(xPar * (2 * delX), 2 * Width, xPar * (3 * Coarse) + Off)
<1>1. /\ Width \in Nat /\ Coarse \in Nat /\ Off \in Nat /\ xPar \in Nat /\ xPar > 0
      /\ Top \in Nat /\ Top < Limit /\ Start \in Nat /\ End \in Nat /\ Start <= End
  BY WidthNear, TopOK
<1>2. PICK v \in Nat : /\ linspace[1] = Start + v /\ linspace[1] <= Top
                       /\ delX = Round(v) /\ v < Limit /\ delX \in Nat
  BY TopOK
<1>3. v <= Top
  BY <1>1, <1>2
<1>4. Near(2 * delX, 2 * v, Coarse)
  BY <1>1, <1>2, <1>3, RoundsNear DEF Coarse
<1>5. Near(xPar * (2 * delX), xPar * (2 * v), xPar * Coarse)
  BY <1>1, <1>4, NearTimes
<1>6. Near(xPar * (2 * v), 2 * Width, xPar * (2 * Coarse) + Off)
  <2>1. CASE xPar = 1
    <3>1. linspace[1] = End
      BY <2>1, LinspaceIs
    <3>2. v = Width
      BY <1>1, <1>2, <3>1 DEF Width
    <3>3. xPar * (2 * v) = 2 * Width /\ xPar * (2 * Coarse) + Off \in Nat
      BY <1>1, <2>1, <3>2
    <3>4. QED
      BY <1>1, <3>3 DEF Near
  <2>2. CASE xPar # 1
    <3>1. linspace[1] = Border(1) /\ 1 <= xPar /\ 1 \in Nat
      BY <1>1, <2>2, LinspaceIs
    <3>2. Near(xPar * (2 * (Start + v)), xPar * (2 * Start) + 1 * (2 * Width), xPar * (2 * Coarse) + 1 * Off)
      BY <1>2, <3>1, BorderNear
    <3>3. PICK a, b : a = xPar * (2 * Start) /\ b = xPar * (2 * v) /\ a \in Nat /\ b \in Nat
      BY <1>1
    <3>4. xPar * (2 * (Start + v)) = a + b
      BY <1>1, <3>3
    <3>5. 1 * (2 * Width) = 2 * Width /\ 1 * Off = Off /\ 2 * Width \in Nat
      BY <1>1
    <3>6. Near(a + b, a + 2 * Width, xPar * (2 * Coarse) + Off)
      BY <3>2, <3>3, <3>4, <3>5
    <3>7. Near(b, 2 * Width, xPar * (2 * Coarse) + Off)
      BY <3>3, <3>5, <3>6 DEF Near
    <3>8. QED
      BY <3>3, <3>7
  <2>3. QED
    BY <2>1, <2>2
<1>7. Near(xPar * (2 * delX), 2 * Width, xPar * Coarse + (xPar * (2 * Coarse) + Off))
  BY <1>5, <1>6, NearVia
<1>8. xPar * Coarse + (xPar * (2 * Coarse) + Off) = xPar * (3 * Coarse) + Off
  <2>1. PICK p : p = xPar * Coarse /\ p \in Nat
    BY <1>1
  <2>2. xPar * (2 * Coarse) = 2 * p /\ xPar * (3 * Coarse) = 3 * p
    BY <1>1, <2>1
  <2>3. QED
    BY <1>1, <2>1, <2>2
<1>9. QED
  BY <1>7, <1>8

\* Where a cell ends.
LEMMA UpperNear ==
  ASSUME inst \in Instances, NEW c \in GridCells
  PROVE  Near(xPar * (2 * Upper(c)), xPar * (2 * Start) + (c + 1) * (2 * Width),
              xPar * (6 * Coarse) + (c + 1) * Off)
<1>1. /\ Width \in Nat /\ Coarse \in Nat /\ Off \in Nat /\ xPar \in Nat /\ xPar > 0
      /\ Top \in Nat /\ Top < Limit /\ Start \in Nat
  BY WidthNear, TopOK
<1>2. c \in Nat /\ c <= xPar
  BY <1>1 DEF GridCells
<1>3. PICK b, w, u : /\ b = Border(c) /\ w = delX /\ u = Upper(c)
                     /\ b \in Nat /\ w \in Nat /\ u \in Nat /\ b <= Top /\ u <= Top
                     /\ u = Round(b + w) /\ b + w < Limit
  BY TopOK
<1>4. Near(2 * u, 2 * (b + w), Coarse)
  BY <1>1, <1>3, RoundsNear DEF Coarse
<1>5. Near(xPar * (2 * u), xPar * (2 * (b + w)), xPar * Coarse)
  BY <1>1, <1>4, NearTimes
<1>6. Near(xPar * (2 * b), xPar * (2 * Start) + c * (2 * Width), xPar * (2 * Coarse) + c * Off)
  BY <1>2, <1>3, BorderNear
<1>7. Near(xPar * (2 * w), 2 * Width, xPar * (3 * Coarse) + Off)
  BY <1>3, StepNear
<1>8. Near(xPar * (2 * b) + xPar * (2 * w), (xPar * (2 * Start) + c * (2 * Width)) + 2 * Width,
           (xPar * (2 * Coarse) + c * Off) + (xPar * (3 * Coarse) + Off))
  BY <1>6, <1>7, NearPlus
<1>9. xPar * (2 * (b + w)) = xPar * (2 * b) + xPar * (2 * w)
  BY <1>1, <1>3
<1>10. Near(xPar * (2 * u), (xPar * (2 * Start) + c * (2 * Width)) + 2 * Width,
            xPar * Coarse + ((xPar * (2 * Coarse) + c * Off) + (xPar * (3 * Coarse) + Off)))
  BY <1>5, <1>8, <1>9, NearVia
<1>11. (c + 1) * (2 * Width) = c * (2 * Width) + 2 * Width /\ (c + 1) * Off = c * Off + Off
  BY <1>1, <1>2
<1>12. PICK p, q, r, s : /\ p = xPar * Coarse /\ q = c * Off /\ r = xPar * (2 * Start) /\ s = c * (2 * Width)
                         /\ p \in Nat /\ q \in Nat /\ r \in Nat /\ s \in Nat
  BY <1>1, <1>2
<1>13. xPar * (2 * Coarse) = 2 * p /\ xPar * (3 * Coarse) = 3 * p /\ xPar * (6 * Coarse) = 6 * p
  BY <1>1, <1>12
<1>14. (r + s) + 2 * Width = r + (s + 2 * Width) /\ p + ((2 * p + q) + (3 * p + Off)) = 6 * p + (q + Off)
  BY <1>1, <1>12
<1>15. QED
  BY <1>3, <1>10, <1>11, <1>12, <1>13, <1>14

\* Both are within the Drift of CellsDivideKeySpace.
Most == xPar * (4 * Coarse + xPar * Fine)

LEMMA CellNear ==
  ASSUME inst \in Instances, NEW c \in GridCells
  PROVE  /\ Near(xPar * Border(c), xPar * Start + c * Width, Most)
         /\ Near(xPar * Upper(c), xPar * Start + (c + 1) * Width, Most)
<1>1. /\ Width \in Nat /\ Coarse \in Nat /\ Fine \in Nat /\ Off \in Nat /\ xPar \in Nat /\ xPar > 0
      /\ Start \in Nat /\ Off = xPar * Fine + Coarse
  BY WidthNear, TopOK DEF Off
<1>2. c \in Nat /\ c <= xPar /\ c + 1 <= xPar
  BY <1>1 DEF GridCells
<1>3. PICK b, u : b = Border(c) /\ u = Upper(c) /\ b \in Nat /\ u \in Nat
  BY TopOK
<1>4. Near(xPar * (2 * b), xPar * (2 * Start) + c * (2 * Width), xPar * (2 * Coarse) + c * Off)
  BY <1>2, <1>3, BorderNear, TopOK
<1>5. Near(xPar * (2 * u), xPar * (2 * Start) + (c + 1) * (2 * Width), xPar * (6 * Coarse) + (c + 1) * Off)
  BY <1>3, UpperNear
<1>6. PICK p, f, o, o1, on : /\ p = xPar * Coarse /\ f = xPar * (xPar * Fine) /\ p \in Nat /\ f \in Nat
                             /\ o = c * Off /\ o1 = (c + 1) * Off /\ on = xPar * Off
                             /\ o \in Nat /\ o1 \in Nat /\ on \in Nat
  BY <1>1, <1>2
<1>7. o <= on /\ o1 <= on
  BY <1>1, <1>2, <1>6
<1>8. on = f + p
  BY <1>1, <1>6
<1>9. Most = 4 * p + f /\ xPar * (2 * Coarse) = 2 * p /\ xPar * (6 * Coarse) = 6 * p
  <2>1. xPar * (4 * Coarse + xPar * Fine) = xPar * (4 * Coarse) + xPar * (xPar * Fine)
    BY <1>1
  <2>2. xPar * (4 * Coarse) = 4 * p /\ xPar * (2 * Coarse) = 2 * p /\ xPar * (6 * Coarse) = 6 * p
    BY <1>1, <1>6
  <2>3. QED
    BY <1>6, <2>1, <2>2 DEF Most
<1>10. PICK x, y, s, w, w1 : /\ x = xPar * b /\ y = xPar * u /\ s = xPar * Start /\ w = c * Width /\ w1 = (c + 1) * Width
                             /\ x \in Nat /\ y \in Nat /\ s \in Nat /\ w \in Nat /\ w1 \in Nat
  BY <1>1, <1>2, <1>3
<1>11. /\ xPar * (2 * b) = 2 * x /\ xPar * (2 * u) = 2 * y /\ xPar * (2 * Start) = 2 * s
       /\ c * (2 * Width) = 2 * w /\ (c + 1) * (2 * Width) = 2 * w1
  BY <1>1, <1>2, <1>3, <1>10
<1>12. Near(2 * x, 2 * s + 2 * w, 2 * p + o) /\ Near(2 * y, 2 * s + 2 * w1, 6 * p + o1)
  BY <1>4, <1>5, <1>6, <1>9, <1>11
<1>13. Near(x, s + w, 4 * p + f) /\ Near(y, s + w1, 4 * p + f)
  BY <1>6, <1>7, <1>8, <1>10, <1>12 DEF Near
<1>14. QED
  BY <1>3, <1>9, <1>10, <1>13

\* What the cells are as long as they are registered.
CellsInv == Registered => glbGridCell = [c \in GridCells |-> [lx |-> Border(c), hx |-> Upper(c)]]

LEMMA CellsStay ==
  ASSUME TypeInv, CellsInv, [Next]_vars
  PROVE  CellsInv'
<1>1. CASE register_grid_cells
  <2>1. inst' = inst /\ inst \in Instances
    BY <1>1 DEF register_grid_cells, TypeInv
  <2>2. \A c \in GridCells : linspace[c] = Border(c) /\ upperBorder(c) = Upper(c)
    BY <2>1, Borders
  <2>3. glbGridCell' = [c \in GridCells |-> [lx |-> Border(c), hx |-> Upper(c)]]
    BY <1>1, <2>2 DEF register_grid_cells
  <2>4. \A c : Border(c)' = Border(c) /\ Upper(c)' = Upper(c)
    BY <2>1 DEF Border, Upper, Start, End, Delta, delX, linspace
  <2>5. QED
    BY <2>3, <2>4 DEF CellsInv
<1>2. CASE ~register_grid_cells
  <2>1. UNCHANGED <<inst, glbGridCell>> /\ (Registered' => Registered)
    BY <1>2 DEF Next, Loops, buildDataDistIdx, ScanFirst, migratory_scan_, DivideFirst, DivideNext,
                full_scan, Done, vars, Registered
  <2>2. \A c : Border(c)' = Border(c) /\ Upper(c)' = Upper(c)
    BY <2>1 DEF Border, Upper, Start, End, Delta, delX, linspace
  <2>3. QED
    BY <2>1, <2>2 DEF CellsInv
<1>3. QED
  BY <1>1, <1>2

LEMMA CellsDivide ==
  ASSUME TypeInv, CellsInv, Registered
  PROVE  CellsDivideKeySpace
<1>1. /\ inst \in Instances
      /\ \A c \in GridCells : glbGridCell[c].lx = Border(c) /\ glbGridCell[c].hx = Upper(c)
  BY DEF TypeInv, CellsInv
<1>2. xPar \in Nat /\ xPar > 0 /\ xPar - 1 \in GridCells
  BY Parameters DEF GridCells
<1>3. GridEnd = Upper(xPar - 1)
  BY <1>1, <1>2 DEF GridEnd
<1>4. Drift = Most
  BY <1>3 DEF Drift, Most, Coarse, Fine, Top, Start, End
<1>5. ASSUME NEW k \in inst.min..inst.max, NEW c \in GridCells, NEW x, x = xPar * OfInteger(k)
      PROVE  /\ /\ (xPar * Start + c * Width) + Most < x
                /\ x + Most < xPar * Start + (c + 1) * Width
                => c \in CellsOf(k)
             /\ c \in CellsOf(k) => /\ xPar * Start + c * Width <= x + Most
                                    /\ x <= (xPar * Start + (c + 1) * Width) + Most
  <2>1. PICK h : h = OfInteger(k) /\ h \in Nat
    <3>1. k \in Nat /\ k <= inst.max
      BY <1>1, <1>5, InstanceOK
    <3>2. k * Unit \in Nat /\ k * Unit < Limit
      <4>1. inst.max * Unit \in Nat /\ 256 * (inst.max * Unit + xPar) < Limit /\ Limit \in Nat
        BY <1>1, InstanceOK DEF Size
      <4>2. k * Unit \in Nat /\ k * Unit <= inst.max * Unit
        BY <1>1, <3>1, InstanceOK, Parameters
      <4>3. QED
        BY <1>2, <4>1, <4>2
    <3>3. QED
      BY <3>2, RoundNat DEF OfInteger
  <2>2. PICK b, u : b = Border(c) /\ u = Upper(c) /\ b \in Nat /\ u \in Nat
    BY <1>1, TopOK
  <2>3. c \in CellsOf(k) <=> b <= h /\ h <= u
    BY <1>1, <2>1, <2>2 DEF CellsOf, InCell
  <2>4. /\ Near(xPar * b, xPar * Start + c * Width, Most)
        /\ Near(xPar * u, xPar * Start + (c + 1) * Width, Most)
    BY <1>1, <2>2, CellNear
  <2>5. PICK pb, pu, l, r, m : /\ pb = xPar * b /\ pu = xPar * u /\ m = Most
                               /\ l = xPar * Start + c * Width /\ r = xPar * Start + (c + 1) * Width
    OBVIOUS
  <2>6. /\ pb \in Nat /\ pu \in Nat /\ l \in Nat /\ r \in Nat /\ m \in Nat
        /\ pb <= l + m /\ l <= pb + m /\ pu <= r + m /\ r <= pu + m
    BY <2>4, <2>5 DEF Near
  <2>7. x \in Nat /\ (b <= h => pb <= x) /\ (h <= u => x <= pu) /\ (pb < x => b <= h) /\ (x < pu => h <= u)
    <3>1. x = xPar * h
      BY <1>5, <2>1
    <3>2. \A i, j \in Nat : i <= j => xPar * i <= xPar * j
      BY <1>2
    <3>3. (b <= h => pb <= x) /\ (h <= u => x <= pu) /\ x \in Nat
      BY <1>2, <2>1, <2>2, <2>5, <3>1, <3>2
    <3>4. (~(b <= h) => x <= pb) /\ (~(h <= u) => pu <= x)
      BY <2>1, <2>2, <2>5, <3>1, <3>2
    <3>5. QED
      BY <2>6, <3>3, <3>4
  <2>8. /\ l + m < x /\ x + m < r => c \in CellsOf(k)
        /\ c \in CellsOf(k) => l <= x + m /\ x <= r + m
    BY <2>3, <2>6, <2>7
  <2>9. QED
    BY <2>5, <2>8
<1>6. QED
  BY <1>4, <1>5 DEF CellsDivideKeySpace, Start, End, Width

(***************************************************************************)
(* linspace divides, adds and multiplies in doubles and the cells' ends    *)
(* are added up again, but no key is taken for one of another cell, or for *)
(* none, that is further than Drift from the border of its cell.           *)
(***************************************************************************)
THEOREM CellsDivideTheKeys == Spec => []CellsDivideKeySpace
<1>1. TypeInv /\ CellsInv => CellsDivideKeySpace
  <2>1. ~Registered => CellsDivideKeySpace
    BY DEF CellsDivideKeySpace, Registered
  <2>2. QED
    BY <2>1, CellsDivide
<1>2. TypeInv /\ CellsInv /\ [Next]_vars => TypeInv' /\ CellsInv'
  BY NextTyped, CellsStay
<1>3. Init => TypeInv /\ CellsInv
  <2>1. Init => CellsInv
    BY DEF Init, CellsInv, Registered
  <2>2. QED
    BY <2>1, InitTyped
<1>4. QED
  BY <1>1, <1>2, <1>3, PTL DEF Spec

===============================================================================
