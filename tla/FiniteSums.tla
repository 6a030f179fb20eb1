------------------------------ MODULE FiniteSums ------------------------------
(***************************************************************************)
(* What the proofs need of finite sets and sums: a set of natural numbers  *)
(* has a least one and a bounded one a greatest, a family of subsets has a *)
(* minimal one, and SumFunctionOnSet, a fold over a finite set, changes    *)
(* with its summands.  A sum of natural numbers is a number of units       *)
(* (SumOf); everything else follows from that.                             *)
(***************************************************************************)
EXTENDS Integers, FiniteSets, FiniteSetsExt, Functions, FiniteSetTheorems,
        WellFoundedInduction, TLAPS

-------------------------------------------------------------------------------
\* A set of natural numbers has a least one.
LEMMA LeastNumber ==
  ASSUME NEW S, S \subseteq Nat, S # {}
  PROVE  \E d \in S : \A i \in S : d <= i
<1>1. PICK d \in S : \A i \in S : ~(<<i, d>> \in OpToRel(<, Nat))
  BY NatLessThanWellFounded, WFMin
<1>2. \A i \in S : d <= i
  <2>1. \A i \in S : i \in Nat /\ d \in Nat /\ ~(i < d)
    BY <1>1 DEF OpToRel
  <2>2. QED
    BY <2>1
<1>3. QED
  BY <1>2

\* Among subsets of a finite set there is one that contains no other.
LEMMA MinimalSubset ==
  ASSUME NEW S, IsFiniteSet(S), NEW F, F \subseteq SUBSET S, F # {}
  PROVE  \E m \in F : \A T \in F : T \subseteq m => T = m
<1>1. IsWellFoundedOn(StrictSubsetOrdering(S), SUBSET S)
  BY FS_StrictSubsetOrderingWellFounded, FS_FiniteSubsetsOfFinite
<1>2. PICK m \in F : \A T \in F : ~(<<T, m>> \in StrictSubsetOrdering(S))
  BY <1>1, WFMin
<1>3. \A T \in F : T \subseteq m => T = m
  BY <1>2 DEF StrictSubsetOrdering
<1>4. QED
  BY <1>3

\* A pile of f[x] units for each x of S: as many units as the sum of f over S.
Units(f, S) == UNION {{x} \X (1..f[x]) : x \in S}

\* The units of S are those of x and those of the others.
LEMMA OnePile ==
  ASSUME NEW f, NEW S, NEW x \in S, f[x] \in Nat, IsFiniteSet(Units(f, S \ {x}))
  PROVE  /\ IsFiniteSet(Units(f, S))
         /\ Cardinality(Units(f, S)) = f[x] + Cardinality(Units(f, S \ {x}))
<1> DEFINE pile == {x} \X (1..f[x])
           rest == Units(f, S \ {x})
<1>1. Units(f, S) = pile \cup rest /\ pile \cap rest = {}
  BY DEF Units
<1>2. IsFiniteSet(pile) /\ Cardinality(pile) = f[x]
  <2>1. IsFiniteSet(1..f[x]) /\ Cardinality(1..f[x]) = f[x]
    BY FS_Interval, SMTT(30)
  <2>2. IsFiniteSet({x}) /\ Cardinality({x}) = 1
    BY FS_Singleton
  <2>3. IsFiniteSet(pile) /\ Cardinality(pile) = Cardinality({x}) * Cardinality(1..f[x])
    BY <2>1, <2>2, FS_Product
  <2>4. 1 * f[x] = f[x]
    OBVIOUS
  <2> HIDE DEF pile
  <2>5. QED
    BY <2>1, <2>2, <2>3, <2>4
<1> HIDE DEF pile, rest
<1>3. /\ IsFiniteSet(pile \cup rest)
      /\ Cardinality(pile \cup rest) =
           Cardinality(pile) + Cardinality(rest) - Cardinality(pile \cap rest)
  BY <1>2, FS_Union DEF rest
<1>4. Cardinality(pile \cap rest) = 0
  BY <1>1, FS_EmptySet
<1>5. Cardinality(rest) \in Nat
  BY FS_CardinalityType DEF rest
<1>6. QED
  BY <1>1, <1>2, <1>3, <1>4, <1>5 DEF rest

\* There are finitely many units, whichever elements are summed.
LEMMA UnitsFinite ==
  ASSUME NEW S, IsFiniteSet(S), NEW f, \A x \in S : f[x] \in Nat
  PROVE  \A T \in SUBSET S : IsFiniteSet(Units(f, T))
<1> DEFINE bad == {T \in SUBSET S : ~IsFiniteSet(Units(f, T))}
<1> SUFFICES ASSUME bad # {} PROVE FALSE
  OBVIOUS
<1>1. PICK m \in bad : \A T \in bad : T \subseteq m => T = m
  <2> bad \subseteq SUBSET S
    OBVIOUS
  <2> HIDE DEF bad
  <2>1. QED
    BY MinimalSubset
<1>2. m # {}
  <2>1. Units(f, {}) = {}
    BY DEF Units
  <2>2. QED
    BY <2>1, FS_EmptySet
<1>3. PICK x : x \in m
  BY <1>2
<1>4. m \ {x} \notin bad
  BY <1>1, <1>3
<1>5. IsFiniteSet(Units(f, m \ {x}))
  BY <1>4
<1>6. QED
  BY <1>3, <1>5, OnePile

\* The body of the fold that sums f.
SumStep(f, it, s) ==
  IF s = {} THEN 0 ELSE f[CHOOSE x \in s : TRUE] + it[s \ {CHOOSE x \in s : TRUE}]

\* SumFunctionOnSet is the fold it is defined by in the community modules.
LEMMA SumFold ==
  ASSUME NEW f, NEW S
  PROVE  SumFunctionOnSet(f, S) = (CHOOSE it : it = [s \in SUBSET S |-> SumStep(f, it, s)])[S]
BY Zenon DEF SumFunctionOnSet, FoldFunctionOnSet, MapThenFoldSet, SumStep

\* The sum is the number of units.
LEMMA SumOf ==
  ASSUME NEW S, IsFiniteSet(S), NEW f, \A x \in S : f[x] \in Nat
  PROVE  SumFunctionOnSet(f, S) = Cardinality(Units(f, S))
<1> DEFINE g == [s \in SUBSET S |-> Cardinality(Units(f, s))]
<1>1. PICK iter : iter = (CHOOSE it : it = [s \in SUBSET S |-> SumStep(f, it, s)])
  OBVIOUS
<1>2. ASSUME NEW s \in SUBSET S, s # {}, NEW x, x = (CHOOSE y \in s : TRUE)
      PROVE  x \in s /\ g[s] = f[x] + g[s \ {x}]
  <2>1. x \in s
    BY <1>2
  <2>2. Cardinality(Units(f, s)) = f[x] + Cardinality(Units(f, s \ {x}))
    <3>1. f[x] \in Nat /\ s \ {x} \in SUBSET S
      BY <2>1
    <3>2. IsFiniteSet(Units(f, s \ {x}))
      BY <3>1, UnitsFinite
    <3>3. QED
      BY <2>1, <3>1, <3>2, OnePile
  <2>3. QED
    BY <2>1, <2>2
<1>3. g[{}] = 0
  <2>1. Units(f, {}) = {}
    BY DEF Units
  <2>2. QED
    BY <2>1, FS_EmptySet
<1>4. g = [s \in SUBSET S |-> SumStep(f, g, s)]
  <2>1. \A s \in SUBSET S : g[s] = SumStep(f, g, s)
    <3> HIDE DEF g
    <3>1. QED
      BY <1>2, <1>3 DEF SumStep
  <2>2. QED
    BY <2>1
<1> HIDE DEF g
<1>5. iter = [s \in SUBSET S |-> SumStep(f, iter, s)]
  BY <1>1, <1>4, Zenon
<1>6. iter[S] = g[S]
  <2> DEFINE bad == {s \in SUBSET S : iter[s] # g[s]}
  <2> SUFFICES ASSUME bad # {} PROVE FALSE
    OBVIOUS
  <2>1. PICK m \in bad : \A T \in bad : T \subseteq m => T = m
    <3> bad \subseteq SUBSET S
      OBVIOUS
    <3> HIDE DEF bad
    <3>1. QED
      BY MinimalSubset
  <2>2. iter[m] = SumStep(f, iter, m)
    BY <1>5
  <2>3. m # {}
    BY <1>3, <2>2 DEF SumStep
  <2>4. PICK x : x = (CHOOSE y \in m : TRUE)
    OBVIOUS
  <2>5. x \in m /\ g[m] = f[x] + g[m \ {x}]
    BY <1>2, <2>3, <2>4
  <2>6. iter[m \ {x}] = g[m \ {x}]
    BY <2>1, <2>5
  <2>7. iter[m] = f[x] + iter[m \ {x}]
    BY <2>2, <2>3, <2>4, Zenon DEF SumStep
  <2>8. QED
    BY <2>1, <2>5, <2>6, <2>7
<1>7. g[S] = Cardinality(Units(f, S))
  BY DEF g
<1>8. QED
  <2>1. SumFunctionOnSet(f, S) = iter[S]
    BY <1>1, SumFold
  <2>2. QED
    BY <1>6, <1>7, <2>1

\* A sum of natural numbers is one.
LEMMA SumNat ==
  ASSUME NEW S, IsFiniteSet(S), NEW f, \A x \in S : f[x] \in Nat
  PROVE  SumFunctionOnSet(f, S) \in Nat
<1>1. IsFiniteSet(Units(f, S))
  BY UnitsFinite
<1>2. QED
  BY <1>1, SumOf, FS_CardinalityType

\* One summand and the rest.
LEMMA SumRest ==
  ASSUME NEW S, IsFiniteSet(S), NEW f, \A x \in S : f[x] \in Nat, NEW x \in S
  PROVE  SumFunctionOnSet(f, S) = f[x] + SumFunctionOnSet(f, S \ {x})
<1>1. IsFiniteSet(S \ {x}) /\ \A y \in S \ {x} : f[y] \in Nat
  BY FS_RemoveElement
<1>2. IsFiniteSet(Units(f, S \ {x}))
  BY UnitsFinite
<1>3. Cardinality(Units(f, S)) = f[x] + Cardinality(Units(f, S \ {x}))
  BY <1>2, OnePile
<1>4. SumFunctionOnSet(f, S \ {x}) = Cardinality(Units(f, S \ {x}))
  BY <1>1, SumOf
<1>5. QED
  BY <1>3, <1>4, SumOf

\* A sum of zeros is zero.
LEMMA SumNone ==
  ASSUME NEW S, IsFiniteSet(S), NEW f, \A x \in S : f[x] = 0
  PROVE  SumFunctionOnSet(f, S) = 0
<1>1. Units(f, S) = {}
  <2>1. \A x \in S : 1..f[x] = {}
    OBVIOUS
  <2>2. QED
    BY <2>1 DEF Units
<1>2. \A x \in S : f[x] \in Nat
  OBVIOUS
<1>3. QED
  BY <1>1, <1>2, SumOf, FS_EmptySet

\* Nothing summed is zero.
LEMMA SumEmpty == \A f : SumFunctionOnSet(f, {}) = 0
<1> TAKE f
<1>1. IsFiniteSet({}) /\ \A x \in {} : f[x] = 0
  BY FS_EmptySet
<1>2. QED
  BY <1>1, SumNone

\* The greater the summands, the greater the sum.
LEMMA SumLeq ==
  ASSUME NEW S, IsFiniteSet(S), NEW f, NEW g,
         \A x \in S : f[x] \in Nat /\ g[x] \in Nat /\ f[x] <= g[x]
  PROVE  SumFunctionOnSet(f, S) <= SumFunctionOnSet(g, S)
<1>1. Units(f, S) \subseteq Units(g, S)
  <2>1. \A x \in S : 1..f[x] \subseteq 1..g[x]
    OBVIOUS
  <2>2. QED
    BY <2>1 DEF Units
<1>2. IsFiniteSet(Units(g, S))
  BY UnitsFinite
<1>3. Cardinality(Units(f, S)) <= Cardinality(Units(g, S))
  BY <1>1, <1>2, FS_Subset
<1>4. QED
  BY <1>3, SumOf

\* A sum is settled by its summands.
LEMMA SumSame ==
  ASSUME NEW S, IsFiniteSet(S), NEW f, NEW g, \A x \in S : f[x] \in Nat /\ g[x] = f[x]
  PROVE  SumFunctionOnSet(g, S) = SumFunctionOnSet(f, S)
<1>1. \A x \in S : g[x] \in Nat /\ f[x] <= g[x] /\ g[x] <= f[x]
  OBVIOUS
<1>2. /\ SumFunctionOnSet(f, S) <= SumFunctionOnSet(g, S)
      /\ SumFunctionOnSet(g, S) <= SumFunctionOnSet(f, S)
  BY <1>1, SumLeq
<1>3. SumFunctionOnSet(f, S) \in Nat /\ SumFunctionOnSet(g, S) \in Nat
  BY <1>1, SumNat
<1>4. QED
  BY <1>2, <1>3

\* One summand changes.
LEMMA SumChange ==
  ASSUME NEW S, IsFiniteSet(S), NEW x \in S, NEW f, NEW g,
         \A y \in S : f[y] \in Nat, g[x] \in Nat, \A y \in S \ {x} : g[y] = f[y]
  PROVE  SumFunctionOnSet(g, S) + f[x] = SumFunctionOnSet(f, S) + g[x]
<1>1. IsFiniteSet(S \ {x}) /\ \A y \in S \ {x} : f[y] \in Nat
  BY FS_RemoveElement
<1>2. SumFunctionOnSet(g, S \ {x}) = SumFunctionOnSet(f, S \ {x})
  BY <1>1, SumSame
<1>3. \A y \in S : g[y] \in Nat
  OBVIOUS
<1>4. /\ SumFunctionOnSet(f, S) = f[x] + SumFunctionOnSet(f, S \ {x})
      /\ SumFunctionOnSet(g, S) = g[x] + SumFunctionOnSet(g, S \ {x})
  BY <1>3, SumRest
<1>5. SumFunctionOnSet(f, S \ {x}) \in Nat
  BY <1>1, SumNat
<1>6. QED
  BY <1>2, <1>4, <1>5

\* Adding summand by summand.
LEMMA SumPlus ==
  ASSUME NEW S, IsFiniteSet(S), NEW f, NEW g, NEW h,
         \A x \in S : f[x] \in Nat /\ g[x] \in Nat /\ h[x] = f[x] + g[x]
  PROVE  SumFunctionOnSet(h, S) = SumFunctionOnSet(f, S) + SumFunctionOnSet(g, S)
<1> DEFINE bad == {T \in SUBSET S :
              SumFunctionOnSet(h, T) # SumFunctionOnSet(f, T) + SumFunctionOnSet(g, T)}
<1> SUFFICES ASSUME bad # {} PROVE FALSE
  OBVIOUS
<1>1. PICK m \in bad : \A T \in bad : T \subseteq m => T = m
  <2> bad \subseteq SUBSET S
    OBVIOUS
  <2> HIDE DEF bad
  <2>1. QED
    BY MinimalSubset
<1>2. IsFiniteSet(m) /\ \A x \in m : f[x] \in Nat /\ g[x] \in Nat /\ h[x] \in Nat /\ h[x] = f[x] + g[x]
  BY FS_Subset
<1>3. m # {}
  <2>1. /\ SumFunctionOnSet(h, {}) = 0 /\ SumFunctionOnSet(f, {}) = 0
        /\ SumFunctionOnSet(g, {}) = 0
    BY SumEmpty
  <2>2. SumFunctionOnSet(h, {}) = SumFunctionOnSet(f, {}) + SumFunctionOnSet(g, {})
    BY <2>1
  <2>3. QED
    BY <2>2
<1>4. PICK x \in m : TRUE
  BY <1>3
<1>5. m \ {x} \notin bad
  BY <1>1, <1>4
<1>6. SumFunctionOnSet(h, m \ {x}) = SumFunctionOnSet(f, m \ {x}) + SumFunctionOnSet(g, m \ {x})
  BY <1>5
<1>7. /\ SumFunctionOnSet(f, m) = f[x] + SumFunctionOnSet(f, m \ {x})
      /\ SumFunctionOnSet(g, m) = g[x] + SumFunctionOnSet(g, m \ {x})
      /\ SumFunctionOnSet(h, m) = h[x] + SumFunctionOnSet(h, m \ {x})
  BY <1>2, SumRest
<1>8. SumFunctionOnSet(f, m \ {x}) \in Nat /\ SumFunctionOnSet(g, m \ {x}) \in Nat
  <2>1. IsFiniteSet(m \ {x})
    BY <1>2, FS_RemoveElement
  <2>2. QED
    BY <1>2, <2>1, SumNat
<1>9. SumFunctionOnSet(h, m) = SumFunctionOnSet(f, m) + SumFunctionOnSet(g, m)
  BY <1>2, <1>6, <1>7, <1>8
<1>10. QED
  BY <1>9

\* As many ones as there are elements.
LEMMA SumOnes ==
  ASSUME NEW S, IsFiniteSet(S), NEW f, \A x \in S : f[x] = 1
  PROVE  SumFunctionOnSet(f, S) = Cardinality(S)
<1>1. Units(f, S) = S \X {1}
  <2>1. \A x \in S : 1..f[x] = {1}
    OBVIOUS
  <2>2. QED
    BY <2>1 DEF Units
<1>2. IsFiniteSet({1}) /\ Cardinality({1}) = 1
  BY FS_Singleton
<1>3. Cardinality(S \X {1}) = Cardinality(S) * Cardinality({1})
  BY <1>2, FS_Product
<1>4. Cardinality(S) \in Nat
  BY FS_CardinalityType
<1>5. Cardinality(S \X {1}) = Cardinality(S)
  BY <1>2, <1>3, <1>4
<1>6. \A x \in S : f[x] \in Nat
  OBVIOUS
<1>7. QED
  BY <1>1, <1>5, <1>6, SumOf

\* The sizes of sets apart sum to the size of their union.
LEMMA SumDisjoint ==
  ASSUME NEW S, NEW f, NEW P, IsFiniteSet(S), \A x \in S : IsFiniteSet(P[x]) /\ f[x] = Cardinality(P[x]),
         \A x, y \in S : x # y => P[x] \cap P[y] = {}
  PROVE  SumFunctionOnSet(f, S) = Cardinality(UNION {P[x] : x \in S})
<1> DEFINE All(T) == UNION {P[x] : x \in T}
           bad == {T \in SUBSET S : ~(IsFiniteSet(All(T)) /\ SumFunctionOnSet(f, T) = Cardinality(All(T)))}
<1> SUFFICES ASSUME bad # {} PROVE FALSE
  OBVIOUS
<1>1. PICK m \in bad : \A T \in bad : T \subseteq m => T = m
  <2> bad \subseteq SUBSET S
    OBVIOUS
  <2> HIDE DEF bad
  <2>1. QED
    BY MinimalSubset
<1>2. m \in SUBSET S /\ ~(IsFiniteSet(All(m)) /\ SumFunctionOnSet(f, m) = Cardinality(All(m)))
  <2> HIDE DEF All
  <2>1. QED
    OBVIOUS
<1>3. ASSUME NEW x \in m PROVE f[x] \in Nat
  BY <1>2, FS_CardinalityType
<1>4. IsFiniteSet(m)
  BY <1>2, FS_Subset
<1>5. m # {}
  <2>1. All({}) = {}
    OBVIOUS
  <2>2. SumFunctionOnSet(f, {}) = 0 /\ IsFiniteSet({}) /\ Cardinality({}) = 0
    BY SumEmpty, FS_EmptySet
  <2> HIDE DEF All
  <2>3. QED
    BY <1>2, <2>1, <2>2
<1>6. PICK x \in m : TRUE
  BY <1>5
<1>7. PICK r : r = m \ {x}
  OBVIOUS
<1>8. r \in SUBSET S /\ r # m /\ r \subseteq m
  BY <1>2, <1>6, <1>7
<1>9. IsFiniteSet(All(r)) /\ SumFunctionOnSet(f, r) = Cardinality(All(r))
  <2> HIDE DEF All
  <2>1. QED
    BY <1>1, <1>8
<1>10. All(m) = P[x] \cup All(r) /\ P[x] \cap All(r) = {}
  BY <1>2, <1>6, <1>7
<1> HIDE DEF All
<1>11. PICK A, B : A = P[x] /\ B = All(r)
  OBVIOUS
<1>12. IsFiniteSet(A) /\ f[x] = Cardinality(A) /\ IsFiniteSet(B) /\ A \cap B = {}
  BY <1>2, <1>6, <1>9, <1>10, <1>11
<1>13. IsFiniteSet(A \cup B) /\ Cardinality(A \cup B) = Cardinality(A) + Cardinality(B)
  <2>1. Cardinality(A \cap B) = 0
    BY <1>12, FS_EmptySet
  <2>2. Cardinality(A \cup B) = Cardinality(A) + Cardinality(B) - Cardinality(A \cap B) /\ IsFiniteSet(A \cup B)
    BY <1>12, FS_Union
  <2>3. Cardinality(A) \in Nat /\ Cardinality(B) \in Nat
    BY <1>12, FS_CardinalityType
  <2>4. QED
    BY <2>1, <2>2, <2>3
<1>14. SumFunctionOnSet(f, m) = f[x] + SumFunctionOnSet(f, r)
  BY <1>3, <1>4, <1>6, <1>7, SumRest
<1>15. QED
  BY <1>2, <1>9, <1>10, <1>11, <1>12, <1>13, <1>14

\* Every summand is taken k times.
LEMMA SumTimes ==
  ASSUME NEW S, IsFiniteSet(S), NEW k \in Nat, NEW f, NEW g,
         \A x \in S : f[x] \in Nat /\ g[x] = k * f[x]
  PROVE  SumFunctionOnSet(g, S) = k * SumFunctionOnSet(f, S)
<1> DEFINE bad == {T \in SUBSET S : SumFunctionOnSet(g, T) # k * SumFunctionOnSet(f, T)}
<1> SUFFICES ASSUME bad # {} PROVE FALSE
  OBVIOUS
<1>1. PICK m \in bad : \A T \in bad : T \subseteq m => T = m
  <2> bad \subseteq SUBSET S
    OBVIOUS
  <2> HIDE DEF bad
  <2>1. QED
    BY MinimalSubset
<1>2. IsFiniteSet(m) /\ \A x \in m : f[x] \in Nat /\ g[x] \in Nat /\ g[x] = k * f[x]
  BY FS_Subset
<1>3. m # {}
  <2>1. SumFunctionOnSet(g, {}) = 0 /\ SumFunctionOnSet(f, {}) = 0
    BY SumEmpty
  <2>2. k * 0 = 0
    OBVIOUS
  <2>3. QED
    BY <2>1, <2>2
<1>4. PICK x \in m : TRUE
  BY <1>3
<1>5. m \ {x} \notin bad
  BY <1>1, <1>4
<1>6. SumFunctionOnSet(g, m \ {x}) = k * SumFunctionOnSet(f, m \ {x})
  BY <1>5
<1>7. /\ SumFunctionOnSet(f, m) = f[x] + SumFunctionOnSet(f, m \ {x})
      /\ SumFunctionOnSet(g, m) = g[x] + SumFunctionOnSet(g, m \ {x})
  BY <1>2, SumRest
<1>8. SumFunctionOnSet(f, m \ {x}) \in Nat /\ f[x] \in Nat /\ g[x] = k * f[x]
  <2>1. IsFiniteSet(m \ {x})
    BY <1>2, FS_RemoveElement
  <2>2. QED
    BY <1>2, <2>1, SumNat
<1>9. \A a, b \in Nat : k * (a + b) = k * a + k * b
  OBVIOUS
<1>10. SumFunctionOnSet(g, m) = k * SumFunctionOnSet(f, m)
  BY <1>6, <1>7, <1>8, <1>9
<1>11. QED
  BY <1>10

\* Rows first or columns first.
LEMMA SumSwap ==
  ASSUME NEW S, IsFiniteSet(S), NEW R, IsFiniteSet(R), NEW table,
         \A x \in S : \A y \in R : table[x][y] \in Nat
  PROVE  SumFunctionOnSet([x \in S |-> SumFunctionOnSet([y \in R |-> table[x][y]], R)], S)
           = SumFunctionOnSet([y \in R |-> SumFunctionOnSet([x \in S |-> table[x][y]], S)], R)
<1> DEFINE row == [x \in S |-> SumFunctionOnSet([y \in R |-> table[x][y]], R)]
           column(T) == [y \in R |-> SumFunctionOnSet([x \in S |-> table[x][y]], T)]
           bad == {T \in SUBSET S :
                     SumFunctionOnSet(row, T) # SumFunctionOnSet(column(T), R)}
<1> SUFFICES ASSUME bad # {} PROVE FALSE
  OBVIOUS
<1>1. PICK m \in bad : \A T \in bad : T \subseteq m => T = m
  <2> bad \subseteq SUBSET S
    OBVIOUS
  <2> HIDE DEF bad
  <2>1. QED
    BY MinimalSubset
<1>2. IsFiniteSet(m) /\ m \subseteq S
  BY FS_Subset
<1>3. m # {}
  <2>1. SumFunctionOnSet(row, {}) = 0
    BY SumEmpty
  <2>2. \A y \in R : column({})[y] = 0
    BY SumEmpty
  <2>3. SumFunctionOnSet(column({}), R) = 0
    <3> HIDE DEF column
    <3>1. QED
      BY <2>2, SumNone
  <2>4. QED
    BY <2>1, <2>3
<1>4. PICK x \in m : TRUE
  BY <1>3
<1>5. m \ {x} \notin bad
  BY <1>1, <1>4
<1>6. SumFunctionOnSet(row, m \ {x}) = SumFunctionOnSet(column(m \ {x}), R)
  BY <1>5
<1>7. \A y \in S : row[y] \in Nat
  <2> TAKE y \in S
  <2> DEFINE r == [z \in R |-> table[y][z]]
  <2>1. \A z \in R : r[z] \in Nat
    OBVIOUS
  <2> HIDE DEF r
  <2>2. SumFunctionOnSet(r, R) \in Nat
    BY <2>1, SumNat
  <2>3. QED
    BY <2>2 DEF r
<1>8. SumFunctionOnSet(row, m) = row[x] + SumFunctionOnSet(row, m \ {x})
  <2> HIDE DEF row
  <2>1. QED
    BY <1>2, <1>7, SumRest
<1>9. \A y \in R : /\ column(m)[y] = [z \in R |-> table[x][z]][y] + column(m \ {x})[y]
                   /\ [z \in R |-> table[x][z]][y] \in Nat /\ column(m \ {x})[y] \in Nat
  <2> TAKE y \in R
  <2> DEFINE c == [z \in S |-> table[z][y]]
  <2>1. (\A z \in m : c[z] \in Nat) /\ c[x] = table[x][y] /\ table[x][y] \in Nat
    BY <1>2
  <2> HIDE DEF c
  <2>2. SumFunctionOnSet(c, m) = c[x] + SumFunctionOnSet(c, m \ {x})
    BY <1>2, <2>1, SumRest
  <2>3. SumFunctionOnSet(c, m \ {x}) \in Nat
    <3>1. IsFiniteSet(m \ {x})
      BY <1>2, FS_RemoveElement
    <3>2. QED
      BY <2>1, <3>1, SumNat
  <2>4. QED
    BY <2>1, <2>2, <2>3 DEF c
<1>10. SumFunctionOnSet(column(m), R)
         = SumFunctionOnSet([z \in R |-> table[x][z]], R) + SumFunctionOnSet(column(m \ {x}), R)
  <2> DEFINE r == [z \in R |-> table[x][z]]
             a == column(m)
             b == column(m \ {x})
  <2>1. \A y \in R : r[y] \in Nat /\ b[y] \in Nat /\ a[y] = r[y] + b[y]
    BY <1>9
  <2> HIDE DEF r, a, b
  <2>2. SumFunctionOnSet(a, R) = SumFunctionOnSet(r, R) + SumFunctionOnSet(b, R)
    BY <2>1, SumPlus
  <2>3. QED
    BY <2>2 DEF r, a, b
<1>11. row[x] = SumFunctionOnSet([z \in R |-> table[x][z]], R)
  BY <1>2
<1>12. QED
  BY <1>6, <1>8, <1>10, <1>11

-------------------------------------------------------------------------------
\* A finite set of natural numbers has a greatest one.
HasGreatest(T) == \E m \in T : \A y \in T : y <= m

LEMMA Greatest ==
  ASSUME NEW S, IsFiniteSet(S)
  PROVE  S \subseteq Nat /\ S # {} => HasGreatest(S)
<1> DEFINE bad == {T \in SUBSET S : T # {} /\ ~HasGreatest(T)}
<1>1. SUFFICES ASSUME bad # {}, S \subseteq Nat PROVE FALSE
  OBVIOUS
<1>0. PICK T \in bad : \A U \in bad : U \subseteq T => U = T
  <2>1. PICK F : F = bad
    OBVIOUS
  <2>2. F # {} /\ F \subseteq SUBSET S
    BY <1>1, <2>1
  <2>3. \E T \in F : \A U \in F : U \subseteq T => U = T
    <3> HIDE DEF bad
    <3>1. QED
      BY <2>2, MinimalSubset
  <2>4. QED
    BY <2>1, <2>3
<1>2. PICK x : x \in T
  BY <1>0, <1>1
<1>3. CASE T \ {x} = {}
  <2>1. \A y \in T : y = x
    BY <1>3
  <2>2. x \in Nat /\ \A y \in T : y <= x
    BY <1>0, <1>1, <1>2, <2>1
  <2>3. QED
    BY <1>0, <1>1, <1>2, <2>2 DEF HasGreatest
<1>4. CASE T \ {x} # {}
  <2>1. T \ {x} \notin bad /\ T \ {x} \in SUBSET S
    BY <1>0, <1>1, <1>2
  <2>2. PICK m \in T \ {x} : \A y \in T \ {x} : y <= m
    BY <1>4, <2>1 DEF HasGreatest
  <2>3. m \in Nat /\ x \in Nat /\ \A y \in T : y \in Nat
    BY <1>0, <1>1, <1>2
  <2>4. CASE x <= m
    <3>1. \A y \in T : y <= m
      BY <2>2, <2>4
    <3>2. QED
      BY <1>0, <1>1, <3>1, <2>2 DEF HasGreatest
  <2>5. CASE ~(x <= m)
    <3>1. \A y \in T : y <= x
      BY <2>2, <2>3, <2>5
    <3>2. QED
      BY <1>0, <1>1, <1>2, <3>1 DEF HasGreatest
  <2>6. QED
    BY <2>4, <2>5
<1>5. QED
  BY <1>3, <1>4

\* Max and Min are what they are called.
LEMMA MaxOf ==
  ASSUME NEW S, IsFiniteSet(S), S \subseteq Nat, S # {}
  PROVE  Max(S) \in S /\ \A y \in S : y <= Max(S)
<1>1. PICK m \in S : \A y \in S : y <= m
  BY Greatest DEF HasGreatest
<1>2. \A y \in S : m >= y
  BY <1>1
<1>3. Max(S) \in S /\ \A y \in S : Max(S) >= y
  BY <1>2 DEF Max
<1>4. QED
  BY <1>3

LEMMA MinOf ==
  ASSUME NEW S, S \subseteq Nat, S # {}
  PROVE  Min(S) \in S /\ \A y \in S : Min(S) <= y
<1>1. PICK m \in S : \A y \in S : m <= y
  BY LeastNumber
<1>2. QED
  BY <1>1 DEF Min

-------------------------------------------------------------------------------
\* A loop that runs N times has run: from v, k going from 1 to N, by the table G.
LoopRuns(N, V, v, G) ==
  \E f \in [0..N -> V] : f[0] = v /\ \A k \in 1..N : f[k] = G[<<k, f[k - 1]>>]

LEMMA Loop ==
  ASSUME NEW N \in Nat, NEW V, NEW v \in V, NEW G \in [(1..N) \X V -> V]
  PROVE  LoopRuns(N, V, v, G)
<1> DEFINE Run(m, f) == f[0] = v /\ \A k \in 1..m : f[k] = G[<<k, f[k - 1]>>]
           off == {m \in 0..N : ~\E f \in [0..m -> V] : Run(m, f)}
<1> SUFFICES off = {}
  <2>1. N \in 0..N
    OBVIOUS
  <2>2. QED
    BY <2>1 DEF LoopRuns
<1> SUFFICES ASSUME off # {} PROVE FALSE
  OBVIOUS
<1>1. PICK m \in off : \A i \in off : m <= i
  <2> off \subseteq Nat
    OBVIOUS
  <2> HIDE DEF off
  <2>1. QED
    BY LeastNumber
<1>2. m \in 0..N /\ m \in Nat
  OBVIOUS
<1>3. m # 0
  <2> SUFFICES ASSUME m = 0 PROVE FALSE
    OBVIOUS
  <2>1. PICK f : f = [k \in 0..0 |-> v]
    OBVIOUS
  <2>2. f \in [0..m -> V] /\ Run(m, f)
    BY <2>1
  <2>3. QED
    BY <2>2
<1>4. m - 1 \in 0..N /\ ~(m <= m - 1)
  BY <1>2, <1>3
<1>5. PICK f \in [0..(m - 1) -> V] : Run(m - 1, f)
  BY <1>1, <1>4
<1>6. PICK g : g = [k \in 0..m |-> IF k = m THEN G[<<m, f[m - 1]>>] ELSE f[k]]
  OBVIOUS
<1>7. f[m - 1] \in V /\ G[<<m, f[m - 1]>>] \in V
  <2>1. f[m - 1] \in V /\ <<m, f[m - 1]>> \in (1..N) \X V
    BY <1>2, <1>3
  <2>2. QED
    BY <2>1
<1>8. g \in [0..m -> V]
  <2>1. \A k \in 0..m : k # m => k \in 0..(m - 1)
    BY <1>2
  <2>2. QED
    BY <1>6, <1>7, <2>1
<1>9. Run(m, g)
  <2>1. g[0] = v
    BY <1>2, <1>3, <1>5, <1>6
  <2>2. ASSUME NEW k \in 1..m PROVE g[k] = G[<<k, g[k - 1]>>]
    <3>1. g[k - 1] = f[k - 1]
      BY <1>2, <1>6
    <3>2. CASE k = m
      <4>1. g[m] = G[<<m, f[m - 1]>>]
        BY <1>2, <1>6
      <4>2. QED
        BY <3>1, <3>2, <4>1, Zenon
    <3>3. CASE k # m
      <4>1. k \in 1..(m - 1) /\ g[k] = f[k]
        BY <1>2, <1>6, <3>3
      <4>2. QED
        BY <1>5, <3>1, <4>1
    <3>4. QED
      BY <3>2, <3>3
  <2>3. QED
    BY <2>1, <2>2
<1>10. QED
  BY <1>1, <1>8, <1>9

\* Whatever satisfies the equations of the loop stays among the values V.
LEMMA LoopStays ==
  ASSUME NEW N \in Nat, NEW V, NEW G \in [(1..N) \X V -> V], NEW h,
         h[0] \in V, \A k \in 1..N : h[k - 1] \in V => h[k] = G[<<k, h[k - 1]>>]
  PROVE  \A k \in 0..N : h[k] \in V
<1> DEFINE off == {k \in 0..N : h[k] \notin V}
<1> SUFFICES ASSUME off # {} PROVE FALSE
  OBVIOUS
<1>1. PICK k \in off : \A i \in off : k <= i
  <2> off \subseteq Nat
    OBVIOUS
  <2> HIDE DEF off
  <2>1. QED
    BY LeastNumber
<1>2. k \in 1..N /\ k - 1 \in 0..N /\ ~(k <= k - 1)
  OBVIOUS
<1>3. h[k - 1] \in V
  BY <1>1, <1>2
<1>4. <<k, h[k - 1]>> \in (1..N) \X V
  BY <1>2, <1>3
<1>5. h[k] \in V
  BY <1>2, <1>3, <1>4
<1>6. QED
  BY <1>5

\* The same from 1 on: f[1] is v, and each later value comes from the one before.
StepsRun(N, V, v, G) ==
  \E f \in [1..N -> V] : f[1] = v /\ \A k \in 2..N : f[k] = G[<<k, f[k - 1]>>]

LEMMA Steps ==
  ASSUME NEW N \in Nat \ {0}, NEW V, NEW v \in V, NEW G \in [(2..N) \X V -> V]
  PROVE  StepsRun(N, V, v, G)
<1>1. PICK M \in Nat : M = N - 1 /\ N = M + 1
  OBVIOUS
<1>2. PICK H : H = [p \in (1..M) \X V |-> G[<<p[1] + 1, p[2]>>]]
  OBVIOUS
<1>3. \A k \in 1..M : k + 1 \in 2..N
  BY <1>1
<1>4. /\ H \in [(1..M) \X V -> V]
      /\ \A k \in 1..M : \A a \in V : H[<<k, a>>] = G[<<k + 1, a>>]
  <2>1. ASSUME NEW p \in (1..M) \X V PROVE G[<<p[1] + 1, p[2]>>] \in V
    <3>1. <<p[1] + 1, p[2]>> \in (2..N) \X V
      BY <1>3
    <3>2. QED
      BY <3>1
  <2>2. QED
    BY <1>2, <2>1
<1>5. PICK h \in [0..M -> V] : h[0] = v /\ \A k \in 1..M : h[k] = H[<<k, h[k - 1]>>]
  <2>1. LoopRuns(M, V, v, H)
    BY <1>4, Loop
  <2>2. QED
    BY <2>1 DEF LoopRuns
<1>6. PICK f : f = [k \in 1..N |-> h[k - 1]]
  OBVIOUS
<1>7. \A k \in 1..N : k - 1 \in 0..M
  BY <1>1
<1>8. f \in [1..N -> V] /\ f[1] = v
  <2>1. f[1] = h[0]
    BY <1>6
  <2>2. QED
    BY <1>5, <1>6, <1>7, <2>1
<1>9. ASSUME NEW k \in 2..N PROVE f[k] = G[<<k, f[k - 1]>>]
  <2>1. k \in 1..N /\ k - 1 \in 1..N /\ k - 1 \in 1..M /\ (k - 1) + 1 = k /\ (k - 1) - 1 \in 0..M
    BY <1>1
  <2>2. f[k] = h[k - 1] /\ f[k - 1] = h[(k - 1) - 1]
    BY <1>6, <2>1
  <2>3. h[k - 1] = H[<<k - 1, h[(k - 1) - 1]>>] /\ h[(k - 1) - 1] \in V
    BY <1>5, <2>1
  <2>4. H[<<k - 1, h[(k - 1) - 1]>>] = G[<<(k - 1) + 1, h[(k - 1) - 1]>>]
    BY <1>4, <2>1, <2>3
  <2>5. QED
    BY <2>1, <2>2, <2>3, <2>4
<1>10. QED
  BY <1>8, <1>9 DEF StepsRun

\* What holds of 1, and of every number if of the one before, holds of all.
LEMMA StepsReach ==
  ASSUME NEW N \in Nat, NEW S, 1 \in S \/ N = 0, \A k \in 2..N : k - 1 \in S => k \in S
  PROVE  1..N \subseteq S
<1> DEFINE off == {k \in 1..N : k \notin S}
<1> SUFFICES ASSUME off # {} PROVE FALSE
  OBVIOUS
<1>1. PICK k \in off : \A i \in off : k <= i
  <2> off \subseteq Nat
    OBVIOUS
  <2> HIDE DEF off
  <2>1. QED
    BY LeastNumber
<1>2. k \in 2..N /\ k - 1 \in 1..N /\ ~(k <= k - 1)
  OBVIOUS
<1>3. k - 1 \in S
  BY <1>1, <1>2
<1>4. QED
  BY <1>2, <1>3

-------------------------------------------------------------------------------
\* R, a set of pairs, orders the set S; x has as many others before it as its
\* rank says.
Orders(R, S) ==
  /\ \A x \in S : <<x, x>> \notin R
  /\ \A x, y, z \in S : <<x, y>> \in R /\ <<y, z>> \in R => <<x, z>> \in R
  /\ \A x, y \in S : x = y \/ <<x, y>> \in R \/ <<y, x>> \in R
Earlier(R, S, x) == {y \in S : <<y, x>> \in R}
Rank(R, S, x) == Cardinality(Earlier(R, S, x))

\* What comes earlier has a smaller rank, and every rank is below the number
\* of elements.
LEMMA RankGrows ==
  ASSUME NEW S, IsFiniteSet(S), NEW R, Orders(R, S)
  PROVE  /\ \A x \in S : Rank(R, S, x) \in 0..(Cardinality(S) - 1)
         /\ \A x, y \in S : <<x, y>> \in R => Rank(R, S, x) < Rank(R, S, y)
<1>1. ASSUME NEW x \in S PROVE Rank(R, S, x) \in 0..(Cardinality(S) - 1)
  <2>1. IsFiniteSet(S \ {x}) /\ Cardinality(S \ {x}) = Cardinality(S) - 1
    BY FS_RemoveElement
  <2>2. Earlier(R, S, x) \subseteq S \ {x}
    BY DEF Earlier, Orders
  <2>3. IsFiniteSet(Earlier(R, S, x)) /\ Cardinality(Earlier(R, S, x)) <= Cardinality(S \ {x})
    BY <2>1, <2>2, FS_Subset
  <2>4. Cardinality(Earlier(R, S, x)) \in Nat /\ Cardinality(S) \in Nat
    BY <2>3, FS_CardinalityType
  <2>5. QED
    BY <2>1, <2>3, <2>4 DEF Rank
<1>2. ASSUME NEW x \in S, NEW y \in S, <<x, y>> \in R
      PROVE  Rank(R, S, x) < Rank(R, S, y)
  <2>1. Earlier(R, S, x) \subseteq Earlier(R, S, y)
    BY <1>2 DEF Earlier, Orders
  <2>2. x \in Earlier(R, S, y) /\ x \notin Earlier(R, S, x)
    BY <1>2 DEF Earlier, Orders
  <2>3. IsFiniteSet(Earlier(R, S, y))
    BY FS_Subset DEF Earlier
  <2>4. Cardinality(Earlier(R, S, x)) <= Cardinality(Earlier(R, S, y))
        /\ Cardinality(Earlier(R, S, y)) # Cardinality(Earlier(R, S, x))
    BY <2>1, <2>2, <2>3, FS_Subset
  <2>5. Rank(R, S, x) \in 0..(Cardinality(S) - 1) /\ Rank(R, S, y) \in 0..(Cardinality(S) - 1)
    BY <1>1
  <2>6. QED
    BY <2>4, <2>5 DEF Rank
<1>3. QED
  BY <1>1, <1>2

\* There is one element of every rank, and only one.
LEMMA RankTaken ==
  ASSUME NEW S, IsFiniteSet(S), NEW R, Orders(R, S)
  PROVE  /\ \A x, y \in S : Rank(R, S, x) = Rank(R, S, y) => x = y
         /\ \A k \in 0..(Cardinality(S) - 1) : \E x \in S : Rank(R, S, x) = k
<1>0. Cardinality(S) \in Nat
  BY FS_CardinalityType
<1>1. \A x, y \in S : Rank(R, S, x) = Rank(R, S, y) => x = y
  <2>1. ASSUME NEW x \in S, NEW y \in S, Rank(R, S, x) = Rank(R, S, y), x # y PROVE FALSE
    <3>1. <<x, y>> \in R \/ <<y, x>> \in R
      BY <2>1 DEF Orders
    <3>2. Rank(R, S, x) < Rank(R, S, y) \/ Rank(R, S, y) < Rank(R, S, x)
      BY <3>1, RankGrows
    <3>3. Rank(R, S, x) \in 0..(Cardinality(S) - 1) /\ Rank(R, S, y) \in 0..(Cardinality(S) - 1)
      BY RankGrows
    <3>4. QED
      BY <1>0, <2>1, <3>2, <3>3
  <2>2. QED
    BY <2>1
<1>2. PICK f : f = [x \in S |-> Rank(R, S, x)]
  OBVIOUS
<1>3. PICK T : T = 0..(Cardinality(S) - 1)
  OBVIOUS
<1>4. f \in Injection(S, T)
  <2>1. f \in [S -> T]
    BY <1>2, <1>3, RankGrows
  <2>2. \A x, y \in S : f[x] = f[y] => x = y
    BY <1>1, <1>2
  <2>3. QED
    BY <2>1, <2>2 DEF Injection, IsInjective
<1>5. IsFiniteSet(T) /\ Cardinality(T) = Cardinality(S)
  <2>1. IsFiniteSet(T) /\ Cardinality(T) = IF 0 > Cardinality(S) - 1 THEN 0 ELSE Cardinality(S) - 1 - 0 + 1
    BY <1>0, <1>3, FS_Interval
  <2>2. QED
    BY <1>0, <2>1
<1>6. f \in Surjection(S, T)
  BY <1>4, <1>5, FS_Injection
<1>7. \A k \in T : \E x \in S : f[x] = k
  BY <1>6 DEF Surjection
<1>8. QED
  BY <1>1, <1>2, <1>3, <1>7

\* The first element of an order.
LEMMA FirstOf ==
  ASSUME NEW S, IsFiniteSet(S), S # {}, NEW R, Orders(R, S)
  PROVE  \E x \in S : \A y \in S : x = y \/ <<x, y>> \in R
<1>1. Cardinality(S) \in Nat /\ Cardinality(S) # 0
  BY FS_CardinalityType, FS_EmptySet
<1>2. 0 \in 0..(Cardinality(S) - 1)
  BY <1>1
<1>3. PICK x \in S : Rank(R, S, x) = 0
  BY <1>2, RankTaken
<1>4. IsFiniteSet(Earlier(R, S, x))
  BY FS_Subset DEF Earlier
<1>5. Earlier(R, S, x) = {}
  BY <1>3, <1>4, FS_EmptySet DEF Rank
<1>6. ASSUME NEW y \in S PROVE x = y \/ <<x, y>> \in R
  <2>1. <<y, x>> \notin R
    BY <1>5 DEF Earlier
  <2>2. QED
    BY <2>1 DEF Orders
<1>7. QED
  BY <1>6

===============================================================================
