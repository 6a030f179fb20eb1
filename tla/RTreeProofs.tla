------------------------------ MODULE RTreeProofs ------------------------------
(***************************************************************************)
(* The R-tree for any setups: types, one well-formed tree, the collection  *)
(* of rectangles that whoever uses it sees, and exact boxes.               *)
(*                                                                         *)
(* The inductive invariant IInv says of the tree that its nodes are linked *)
(* level by level from the root to the leaves, that no node is too full    *)
(* but the one about to be split, and that every object is in one leaf, is *)
(* to be reinserted, or is being inserted.  None of this survives a call   *)
(* on a node the call was not meant for, so IInv also says what the driver *)
(* may be about to do, that the cuts and children an earlier call listed   *)
(* are those of the node at hand, and that the driver's copy is such a     *)
(* tree too.                                                               *)
(*                                                                         *)
(* First what the calls compute: the orders, the boxes, and that every way *)
(* of splitting divides a node that is one entry too full into two that    *)
(* are full enough and lose nothing.  Then what that does to the tree: it  *)
(* changes boxes, changes one leaf, or divides one node.  Then the calls.  *)
(* The boxes come last, with an invariant of their own, BoxesOK, which     *)
(* says which one is too large in the middle of an insertion, and by what. *)
(***************************************************************************)
EXTENDS RTreeQueries, FiniteSums, SequenceTheorems

-------------------------------------------------------------------------------
\* Tuples of n scores, and what Less is on them: an order.
Tuples(n) == [1..n -> Int]

\* Two different tuples differ somewhere for the first time.
LEMMA FirstDifference ==
  ASSUME NEW n \in Nat, NEW v \in Tuples(n), NEW w \in Tuples(n), v # w
  PROVE  \E i \in 1..n : v[i] # w[i] /\ \A j \in 1..i - 1 : v[j] = w[j]
<1>1. PICK S : S = {i \in 1..n : v[i] # w[i]}
  OBVIOUS
<1>2. S # {} /\ S \subseteq Nat
  <2>1. v = [i \in 1..n |-> v[i]] /\ w = [i \in 1..n |-> w[i]]
    BY DEF Tuples
  <2>2. ~(\A i \in 1..n : v[i] = w[i])
    BY <2>1
  <2>3. QED
    BY <1>1, <2>2
<1>3. PICK i \in S : \A j \in S : i <= j
  BY <1>2, LeastNumber
<1>4. \A j \in 1..i - 1 : j \notin S /\ j \in 1..n
  BY <1>1, <1>3
<1>5. QED
  BY <1>1, <1>3, <1>4

\* Any two tuples are ordered.
LEMMA LessTotal ==
  ASSUME NEW n \in Nat, NEW v \in Tuples(n), NEW w \in Tuples(n)
  PROVE  v = w \/ Less(v, w) \/ Less(w, v)
<1> SUFFICES ASSUME v # w PROVE Less(v, w) \/ Less(w, v)
  OBVIOUS
<1>1. PICK i \in 1..n : v[i] # w[i] /\ \A j \in 1..i - 1 : v[j] = w[j]
  BY FirstDifference
<1>2. v[i] \in Int /\ w[i] \in Int /\ i \in DOMAIN v /\ i \in DOMAIN w
  BY DEF Tuples
<1>3. v[i] < w[i] \/ w[i] < v[i]
  BY <1>1, <1>2
<1>4. QED
  BY <1>1, <1>2, <1>3 DEF Less

\* None comes before itself.
LEMMA LessStrict ==
  ASSUME NEW n \in Nat, NEW v \in Tuples(n)
  PROVE  ~Less(v, v)
<1>1. \A i \in DOMAIN v : ~(v[i] < v[i])
  BY DEF Tuples
<1>2. QED
  BY <1>1 DEF Less

\* The order is transitive.
LEMMA LessTransitive ==
  ASSUME NEW n \in Nat, NEW u \in Tuples(n), NEW v \in Tuples(n), NEW w \in Tuples(n),
         Less(u, v), Less(v, w)
  PROVE  Less(u, w)
<1>1. PICK i \in 1..n : u[i] < v[i] /\ \A j \in 1..i - 1 : u[j] = v[j]
  BY DEF Less, Tuples
<1>2. PICK k \in 1..n : v[k] < w[k] /\ \A j \in 1..k - 1 : v[j] = w[j]
  BY DEF Less, Tuples
<1>3. \A j \in 1..n : u[j] \in Int /\ v[j] \in Int /\ w[j] \in Int
  BY DEF Tuples
<1>4. i \in DOMAIN u /\ k \in DOMAIN u
  BY DEF Tuples
<1>5. CASE i < k
  <2>1. i \in 1..k - 1 /\ \A j \in 1..i - 1 : j \in 1..k - 1
    BY <1>5
  <2>2. u[i] < w[i] /\ \A j \in 1..i - 1 : u[j] = w[j]
    BY <1>1, <1>2, <1>3, <2>1
  <2>3. QED
    BY <1>4, <2>2 DEF Less
<1>6. CASE i = k
  <2>1. u[i] < w[i]
    BY <1>1, <1>2, <1>3, <1>6
  <2>2. \A j \in 1..i - 1 : u[j] = w[j]
    BY <1>1, <1>2, <1>6
  <2>3. QED
    BY <1>4, <2>1, <2>2 DEF Less
<1>7. CASE k < i
  <2>1. k \in 1..i - 1 /\ \A j \in 1..k - 1 : j \in 1..i - 1
    BY <1>7
  <2>2. u[k] < w[k] /\ \A j \in 1..k - 1 : u[j] = w[j]
    BY <1>1, <1>2, <1>3, <2>1
  <2>3. QED
    BY <1>4, <2>2 DEF Less
<1>8. QED
  BY <1>5, <1>6, <1>7

\* Less as a set of pairs.
LessIn(S) == {p \in S \X S : Less(p[1], p[2])}

\* Less orders any set of tuples of the same length.
LEMMA LessOrders ==
  ASSUME NEW n \in Nat, NEW S, S \subseteq Tuples(n)
  PROVE  Orders(LessIn(S), S) /\ \A v, w \in S : <<v, w>> \in LessIn(S) <=> Less(v, w)
<1>1. \A v, w \in S : <<v, w>> \in LessIn(S) <=> Less(v, w)
  BY DEF LessIn
<1>2. \A x \in S : <<x, x>> \notin LessIn(S)
  BY <1>1, LessStrict
<1>3. \A x, y, z \in S : <<x, y>> \in LessIn(S) /\ <<y, z>> \in LessIn(S) => <<x, z>> \in LessIn(S)
  <2>1. \A x, y, z \in S : Less(x, y) /\ Less(y, z) => Less(x, z)
    BY LessTransitive
  <2>2. QED
    BY <1>1, <2>1
<1>4. \A x, y \in S : x = y \/ <<x, y>> \in LessIn(S) \/ <<y, x>> \in LessIn(S)
  BY <1>1, LessTotal
<1>5. QED
  BY <1>1, <1>2, <1>3, <1>4 DEF Orders

\* Least is one of the tuples it is asked about, and no other is less.
LEMMA LeastOf ==
  ASSUME NEW n \in Nat, NEW S, S \subseteq Tuples(n), IsFiniteSet(S), S # {}
  PROVE  /\ Least(S) \in S
         /\ \A w \in S : Least(S) = w \/ Less(Least(S), w)
<1>1. Orders(LessIn(S), S) /\ \A v, w \in S : <<v, w>> \in LessIn(S) <=> Less(v, w)
  BY LessOrders
<1>2. PICK v \in S : \A w \in S : v = w \/ <<v, w>> \in LessIn(S)
  BY <1>1, FirstOf
<1>3. \A w \in S : v = w \/ Less(v, w)
  BY <1>1, <1>2
<1>4. QED
  BY <1>3, Zenon DEF Least

\* A tuple that is less than another begins with nothing greater.
LEMMA LessBegins ==
  ASSUME NEW n \in Nat \ {0}, NEW v \in Tuples(n), NEW w \in Tuples(n), v = w \/ Less(v, w)
  PROVE  v[1] <= w[1]
<1>1. 1 \in 1..n /\ v[1] \in Int /\ w[1] \in Int
  BY DEF Tuples
<1>2. CASE v = w
  BY <1>1, <1>2
<1>3. CASE Less(v, w)
  <2>1. PICK i \in 1..n : v[i] < w[i] /\ \A j \in 1..i - 1 : v[j] = w[j]
    BY <1>3 DEF Less, Tuples
  <2>2. CASE i = 1
    BY <1>1, <2>1, <2>2
  <2>3. CASE i # 1
    <3>1. 1 \in 1..i - 1
      BY <2>3
    <3>2. QED
      BY <1>1, <2>1, <3>1
  <2>4. QED
    BY <2>2, <2>3
<1>4. QED
  BY <1>2, <1>3

-------------------------------------------------------------------------------
\* A sequence without repetitions, and what a sequence has.
Injective(s) == \A i, j \in DOMAIN s : s[i] = s[j] => i = j

\* t has the elements of s, each once, in another order.
Permutes(t, s) == DOMAIN t = DOMAIN s /\ ASet(t) = ASet(s) /\ Injective(t)

\* t[k] comes before t[l]: it has the lesser key.
InOrder(t, s, key) ==
  \A k, l \in DOMAIN s : k < l => \E i, j \in DOMAIN s : t[k] = s[i] /\ t[l] = s[j] /\ Less(key[i], key[j])

\* Ordered rearranges, in the order of the keys.
LEMMA OrderedPermutes ==
  ASSUME NEW n \in Nat, NEW m \in Nat, NEW s, DOMAIN s = 1..m, Injective(s),
         NEW key \in [1..m -> Tuples(n)], Injective(key)
  PROVE  Permutes(Ordered(s, key), s) /\ InOrder(Ordered(s, key), s, key)
<1>1. PICK D : D = 1..m
  OBVIOUS
<1>2. PICK R : R = {p \in D \X D : Less(key[p[1]], key[p[2]])}
  OBVIOUS
<1>3. \A i, j \in D : <<i, j>> \in R <=> Less(key[i], key[j])
  BY <1>2
<1>4. \A i \in D : key[i] \in Tuples(n)
  BY <1>1
<1>5. Orders(R, D)
  <2>1. \A i \in D : <<i, i>> \notin R
    BY <1>3, <1>4, LessStrict
  <2>2. \A i, j, k \in D : <<i, j>> \in R /\ <<j, k>> \in R => <<i, k>> \in R
    <3>1. \A i, j, k \in D : Less(key[i], key[j]) /\ Less(key[j], key[k]) => Less(key[i], key[k])
      BY <1>4, LessTransitive
    <3>2. QED
      BY <1>3, <3>1
  <2>3. \A i, j \in D : i = j \/ <<i, j>> \in R \/ <<j, i>> \in R
    <3>1. \A i, j \in D : key[i] = key[j] \/ Less(key[i], key[j]) \/ Less(key[j], key[i])
      BY <1>4, LessTotal
    <3>2. \A i, j \in D : key[i] = key[j] => i = j
      BY <1>1 DEF Injective
    <3>3. QED
      BY <1>3, <3>1, <3>2
  <2>4. QED
    BY <2>1, <2>2, <2>3 DEF Orders
<1>6. IsFiniteSet(D) /\ Cardinality(D) = m
  <2>1. IsFiniteSet(1..m) /\ Cardinality(1..m) = IF 1 > m THEN 0 ELSE m - 1 + 1
    BY FS_Interval
  <2>2. QED
    BY <1>1, <2>1
<1>7. \A i \in D : Rank(R, D, i) = Cardinality({j \in DOMAIN s : Less(key[j], key[i])})
  <2>1. \A i \in D : Earlier(R, D, i) = {j \in DOMAIN s : Less(key[j], key[i])}
    BY <1>1, <1>3 DEF Earlier
  <2>2. QED
    BY <2>1 DEF Rank
<1>8. Ranked(s, key) = {<<Rank(R, D, i), s[i]>> : i \in D}
  BY <1>1, <1>7 DEF Ranked
<1>9. /\ \A i, j \in D : Rank(R, D, i) = Rank(R, D, j) => i = j
      /\ \A k \in 0..(m - 1) : \E i \in D : Rank(R, D, i) = k
  BY <1>5, <1>6, RankTaken
<1>10. \A i \in D : Rank(R, D, i) \in 0..(m - 1)
  BY <1>5, <1>6, RankGrows
<1>11. ASSUME NEW i \in D, NEW k \in D, Rank(R, D, i) = k - 1
       PROVE  Ordered(s, key)[k] = s[i]
  <2>1. PICK p : p = (CHOOSE q \in Ranked(s, key) : q[1] = k - 1)
    OBVIOUS
  <2>2. <<Rank(R, D, i), s[i]>> \in Ranked(s, key) /\ <<Rank(R, D, i), s[i]>>[1] = k - 1
    BY <1>8, <1>11
  <2>3. p \in Ranked(s, key) /\ p[1] = k - 1
    BY <2>1, <2>2
  <2>4. PICK j \in D : p = <<Rank(R, D, j), s[j]>>
    BY <1>8, <2>3
  <2>5. j = i
    BY <1>9, <1>11, <2>3, <2>4
  <2>6. Ordered(s, key)[k] = p[2]
    BY <1>1, <2>1 DEF Ordered
  <2>7. QED
    BY <2>4, <2>5, <2>6
<1>12. DOMAIN Ordered(s, key) = D
  BY <1>1 DEF Ordered
<1>13. \A k \in D : \E i \in D : Rank(R, D, i) = k - 1
  <2>1. \A k \in D : k - 1 \in 0..(m - 1)
    BY <1>1
  <2>2. QED
    BY <1>9, <2>1
<1>14. \A i \in D : \E k \in D : Rank(R, D, i) = k - 1
  <2>1. ASSUME NEW i \in D PROVE \E k \in D : Rank(R, D, i) = k - 1
    <3>1. PICK r : r = Rank(R, D, i)
      OBVIOUS
    <3>2. r \in 0..(m - 1)
      BY <1>10, <3>1
    <3>3. r + 1 \in D /\ r = r + 1 - 1
      BY <1>1, <3>2
    <3>4. PICK k : k = r + 1
      OBVIOUS
    <3>5. k \in D /\ r = k - 1
      BY <3>2, <3>3, <3>4
    <3>6. QED
      BY <3>1, <3>5, Zenon
  <2>2. QED
    BY <2>1
<1>15. ASet(Ordered(s, key)) = ASet(s)
  <2>1. \A k \in D : \E i \in D : Ordered(s, key)[k] = s[i]
    BY <1>11, <1>13
  <2>2. \A i \in D : \E k \in D : Ordered(s, key)[k] = s[i]
    BY <1>11, <1>14
  <2>3. PICK t : t = Ordered(s, key)
    OBVIOUS
  <2>4. DOMAIN t = D /\ DOMAIN s = D
    BY <1>1, <1>12, <2>3
  <2>5. (\A k \in D : \E i \in D : t[k] = s[i]) /\ (\A i \in D : \E k \in D : t[k] = s[i])
    BY <2>1, <2>2, <2>3
  <2>6. {t[i] : i \in D} = {s[i] : i \in D}
    BY <2>5
  <2>7. ASet(t) = ASet(s)
    BY <2>4, <2>6 DEF ASet
  <2>8. QED
    BY <2>3, <2>7
<1>16. Injective(Ordered(s, key))
  <2>1. ASSUME NEW k \in D, NEW l \in D, Ordered(s, key)[k] = Ordered(s, key)[l] PROVE k = l
    <3>1. PICK i \in D : Rank(R, D, i) = k - 1
      BY <1>13
    <3>2. PICK j \in D : Rank(R, D, j) = l - 1
      BY <1>13
    <3>3. s[i] = s[j]
      BY <1>11, <2>1, <3>1, <3>2
    <3>4. i = j
      BY <1>1, <3>3 DEF Injective
    <3>5. k \in Nat /\ l \in Nat
      BY <1>1
    <3>6. QED
      BY <3>1, <3>2, <3>4, <3>5
  <2>2. QED
    BY <1>12, <2>1 DEF Injective
<1>17. InOrder(Ordered(s, key), s, key)
  <2>1. ASSUME NEW k \in D, NEW l \in D, k < l
        PROVE  \E i, j \in D : Ordered(s, key)[k] = s[i] /\ Ordered(s, key)[l] = s[j] /\ Less(key[i], key[j])
    <3>1. PICK i \in D : Rank(R, D, i) = k - 1
      BY <1>13
    <3>2. PICK j \in D : Rank(R, D, j) = l - 1
      BY <1>13
    <3>3. k \in Nat /\ l \in Nat /\ k - 1 < l - 1
      BY <1>1, <2>1
    <3>4. i # j /\ ~(l - 1 < k - 1)
      BY <3>1, <3>2, <3>3
    <3>5. <<j, i>> \notin R
      BY <1>5, <1>6, <3>1, <3>2, <3>4, RankGrows
    <3>6. Less(key[i], key[j])
      BY <1>3, <1>5, <3>4, <3>5 DEF Orders
    <3>7. QED
      BY <1>11, <3>1, <3>2, <3>6
  <2>2. PICK t : t = Ordered(s, key)
    OBVIOUS
  <2>3. DOMAIN s = D /\ \A k, l \in D : k < l => \E i, j \in D : t[k] = s[i] /\ t[l] = s[j] /\ Less(key[i], key[j])
    BY <1>1, <2>1, <2>2
  <2>4. InOrder(t, s, key)
    BY ONLY <2>3 DEF InOrder
  <2>5. QED
    BY <2>2, <2>4
<1>18. QED
  BY <1>1, <1>12, <1>15, <1>16, <1>17 DEF Permutes

\* A tuple of n scores is a sequence, and takes one more.
LEMMA TupleIsSeq ==
  ASSUME NEW n \in Nat, NEW a \in Tuples(n)
  PROVE  a \in Seq(Int) /\ Len(a) = n
<1>1. a \in [1..n -> Int]
  BY DEF Tuples
<1>2. a \in Seq(Int)
  BY <1>1, SeqDef
<1>3. QED
  BY <1>1, <1>2, LenProperties

\* A score appended to a tuple.
LEMMA OneMoreScore ==
  ASSUME NEW n \in Nat, NEW a \in Tuples(n), NEW k \in Int
  PROVE  a \o <<k>> \in Tuples(n + 1) /\ (a \o <<k>>)[n + 1] = k
<1>1. a \in Seq(Int) /\ Len(a) = n /\ <<k>> \in Seq(Int) /\ Len(<<k>>) = 1 /\ <<k>>[1] = k
  BY TupleIsSeq
<1>2. a \o <<k>> \in Seq(Int) /\ Len(a \o <<k>>) = n + 1 /\ (a \o <<k>>)[n + 1] = k
  <2>1. PICK b : b = <<k>>
    OBVIOUS
  <2>2. /\ a \o b \in Seq(Int) /\ Len(a \o b) = Len(a) + Len(b)
        /\ \A i \in 1..Len(a) + Len(b) : (a \o b)[i] = IF i <= Len(a) THEN a[i] ELSE b[i - Len(a)]
    BY ONLY <1>1, <2>1, ConcatProperties
  <2>3. Len(a) = n /\ Len(b) = 1 /\ b[1] = k
    BY <1>1, <2>1
  <2>4. (a \o b)[n + 1] = b[n + 1 - n] /\ n + 1 - n = 1
    BY <2>2, <2>3
  <2>5. QED
    BY <2>1, <2>2, <2>3, <2>4
<1>3. QED
  BY <1>2, LenProperties DEF Tuples

-------------------------------------------------------------------------------
\* Rows of ids: the entries of a node.
Ids(e) == e \in Seq(Nat) /\ Injective(e)

\* The ids at the positions i to j.
Piece(s, i, j) == {s[k] : k \in i..j}

\* The positions and the ids of a row.
LEMMA SetOf ==
  ASSUME NEW s \in Seq(Nat)
  PROVE  /\ Len(s) \in Nat /\ DOMAIN s = 1..Len(s)
         /\ ASet(s) = Piece(s, 1, Len(s)) /\ ASet(s) \subseteq Nat
         /\ IsFiniteSet(DOMAIN s)
<1>1. Len(s) \in Nat /\ DOMAIN s = 1..Len(s)
  BY LenProperties
<1>2. ASet(s) = Piece(s, 1, Len(s))
  BY <1>1 DEF ASet, Piece
<1>3. ASet(s) \subseteq Nat
  BY <1>1 DEF ASet
<1>4. IsFiniteSet(1..Len(s))
  BY <1>1, FS_Interval
<1>5. QED
  BY <1>1, <1>2, <1>3, <1>4

\* SubSeq takes the ids of a piece, in their order.
LEMMA PieceOf ==
  ASSUME NEW s, Ids(s), NEW i \in Nat \ {0}, NEW j \in Nat, j <= Len(s), i <= j + 1
  PROVE  /\ Ids(SubSeq(s, i, j)) /\ Len(SubSeq(s, i, j)) = j - i + 1
         /\ ASet(SubSeq(s, i, j)) = Piece(s, i, j)
         /\ \A k \in 1..(j - i + 1) : SubSeq(s, i, j)[k] = s[i + k - 1]
<1>0. s \in Seq(Nat) /\ Len(s) \in Nat /\ DOMAIN s = 1..Len(s)
  BY SetOf DEF Ids
<1>1. PICK t : t = SubSeq(s, i, j)
  OBVIOUS
<1>2. /\ t \in Seq(Nat) /\ Len(t) = j - i + 1 /\ DOMAIN t = 1..(j - i + 1)
      /\ \A k \in 1..(j - i + 1) : t[k] = s[i + k - 1]
  BY <1>0, <1>1
<1>3. Injective(t)
  <2>1. \A k \in 1..(j - i + 1) : i + k - 1 \in DOMAIN s
    BY <1>0
  <2>2. ASSUME NEW k \in 1..(j - i + 1), NEW l \in 1..(j - i + 1), t[k] = t[l] PROVE k = l
    <3>1. i + k - 1 = i + l - 1
      BY <1>2, <2>1, <2>2 DEF Ids, Injective
    <3>2. QED
      BY <3>1
  <2>3. QED
    BY <1>2, <2>2 DEF Injective
<1>4. ASet(t) = Piece(s, i, j)
  <2>1. \A k \in 1..(j - i + 1) : i + k - 1 \in i..j
    OBVIOUS
  <2>2. \A l \in i..j : l - i + 1 \in 1..(j - i + 1) /\ t[l - i + 1] = s[l]
    <3>1. \A l \in i..j : l - i + 1 \in 1..(j - i + 1) /\ i + (l - i + 1) - 1 = l
      OBVIOUS
    <3>2. QED
      BY <1>2, <3>1
  <2>3. ASet(t) \subseteq Piece(s, i, j)
    BY <1>2, <2>1 DEF ASet, Piece
  <2>4. Piece(s, i, j) \subseteq ASet(t)
    BY <1>2, <2>2 DEF ASet, Piece
  <2>5. QED
    BY <2>3, <2>4
<1>5. QED
  BY <1>1, <1>2, <1>3, <1>4 DEF Ids

\* A piece is what two pieces that follow one another have.
LEMMA PiecesJoin ==
  ASSUME NEW s, NEW i \in Int, NEW k \in Int, NEW j \in Int, i <= k + 1, k <= j
  PROVE  Piece(s, i, j) = Piece(s, i, k) \cup Piece(s, k + 1, j)
<1>1. i..j = (i..k) \cup ((k + 1)..j)
  OBVIOUS
<1>2. QED
  BY <1>1 DEF Piece

\* The pieces before and after a cut share no id.
LEMMA PiecesApart ==
  ASSUME NEW s, Ids(s), NEW k \in Nat
  PROVE  Piece(s, 1, k) \cap Piece(s, k + 1, Len(s)) = {}
<1>0. s \in Seq(Nat) /\ Len(s) \in Nat /\ DOMAIN s = 1..Len(s)
  BY SetOf DEF Ids
<1>1. \A i \in 1..k, j \in (k + 1)..Len(s) : s[i] # s[j]
  <2>1. \A i \in 1..k, j \in (k + 1)..Len(s) : i \in DOMAIN s /\ j \in DOMAIN s /\ i # j
    BY <1>0
  <2>2. QED
    BY <2>1 DEF Ids, Injective
<1>2. QED
  BY <1>1 DEF Piece

-------------------------------------------------------------------------------
\* Boxes.  b is the box of the rectangles S: it contains each of them and
\* each side of it touches one.
BoxOf(b, S) ==
  /\ b \in RectT
  /\ \A a \in S : Contains(b, a)
  /\ \E a \in S : a.left = b.left
  /\ \E a \in S : a.right = b.right
  /\ \E a \in S : a.bottom = b.bottom
  /\ \E a \in S : a.top = b.top

\* A rectangle by its four sides.
LEMMA RectIs ==
  \A l, r, b, t \in Int :
      /\ Rect(l, r, b, t) \in RectT
      /\ Rect(l, r, b, t).left = l /\ Rect(l, r, b, t).right = r
      /\ Rect(l, r, b, t).bottom = b /\ Rect(l, r, b, t).top = t
BY DEF Rect, RectT

\* The sides of a rectangle are integers.
LEMMA RectFields ==
  \A a \in RectT : a.left \in Int /\ a.right \in Int /\ a.bottom \in Int /\ a.top \in Int
BY DEF RectT

\* Four sides make a rectangle.
LEMMA SameRect ==
  ASSUME NEW a \in RectT, NEW b \in RectT,
         a.left = b.left, a.right = b.right, a.bottom = b.bottom, a.top = b.top
  PROVE  a = b
BY DEF RectT

\* The box of two boxes, side by side.
LEMMA MergeIs ==
  ASSUME NEW a \in RectT, NEW b \in RectT
  PROVE  /\ Merge(a, b) \in RectT
         /\ Merge(a, b).left = Lower(a.left, b.left) /\ Merge(a, b).right = Higher(a.right, b.right)
         /\ Merge(a, b).bottom = Lower(a.bottom, b.bottom) /\ Merge(a, b).top = Higher(a.top, b.top)
<1>1. /\ Lower(a.left, b.left) \in Int /\ Higher(a.right, b.right) \in Int
      /\ Lower(a.bottom, b.bottom) \in Int /\ Higher(a.top, b.top) \in Int
  BY RectFields DEF Lower, Higher
<1>2. QED
  BY <1>1, RectIs DEF Merge

\* It does not matter which of the two comes first.
LEMMA MergeTurned ==
  ASSUME NEW a \in RectT, NEW b \in RectT
  PROVE  Merge(a, b) = Merge(b, a)
<1>1. /\ a.left \in Int /\ a.right \in Int /\ a.bottom \in Int /\ a.top \in Int
      /\ b.left \in Int /\ b.right \in Int /\ b.bottom \in Int /\ b.top \in Int
  BY RectFields
<1>2. /\ Lower(a.left, b.left) = Lower(b.left, a.left) /\ Higher(a.right, b.right) = Higher(b.right, a.right)
      /\ Lower(a.bottom, b.bottom) = Lower(b.bottom, a.bottom) /\ Higher(a.top, b.top) = Higher(b.top, a.top)
  BY <1>1 DEF Lower, Higher
<1>3. QED
  BY <1>2 DEF Merge

\* The box of both of two boxes.
LEMMA BoxOfBoth ==
  ASSUME NEW S, NEW T, NEW a, BoxOf(a, S), NEW b, BoxOf(b, T),
         \A x \in S \cup T : x \in RectT
  PROVE  BoxOf(Merge(a, b), S \cup T)
<1>1. a \in RectT /\ b \in RectT
  BY DEF BoxOf
<1>2. PICK m : m = Merge(a, b)
  OBVIOUS
<1>3. /\ m \in RectT
      /\ m.left = Lower(a.left, b.left) /\ m.right = Higher(a.right, b.right)
      /\ m.bottom = Lower(a.bottom, b.bottom) /\ m.top = Higher(a.top, b.top)
  BY <1>1, <1>2, MergeIs
<1>4. /\ a.left \in Int /\ a.right \in Int /\ a.bottom \in Int /\ a.top \in Int
      /\ b.left \in Int /\ b.right \in Int /\ b.bottom \in Int /\ b.top \in Int
  BY <1>1, RectFields
<1>5. Contains(m, a) /\ Contains(m, b)
  BY <1>3, <1>4 DEF Contains, Lower, Higher
<1>6. \A x \in S \cup T : Contains(a, x) \/ Contains(b, x)
  BY DEF BoxOf
<1>7. ASSUME NEW x \in S \cup T PROVE Contains(m, x)
  <2>1. x.left \in Int /\ x.right \in Int /\ x.bottom \in Int /\ x.top \in Int
    BY RectFields
  <2>2. m.left \in Int /\ m.right \in Int /\ m.bottom \in Int /\ m.top \in Int
    BY <1>3, RectFields
  <2>3. QED
    BY <1>4, <1>5, <1>6, <2>1, <2>2 DEF Contains
<1>8. /\ \E x \in S \cup T : x.left = m.left
      /\ \E x \in S \cup T : x.right = m.right
      /\ \E x \in S \cup T : x.bottom = m.bottom
      /\ \E x \in S \cup T : x.top = m.top
  <2>1. /\ m.left = a.left \/ m.left = b.left
        /\ m.right = a.right \/ m.right = b.right
        /\ m.bottom = a.bottom \/ m.bottom = b.bottom
        /\ m.top = a.top \/ m.top = b.top
    BY <1>3 DEF Lower, Higher
  <2>2. QED
    BY <2>1 DEF BoxOf
<1>9. QED
  BY <1>2, <1>3, <1>7, <1>8 DEF BoxOf

\* There is one box of a set of rectangles.
LEMMA OneBox ==
  ASSUME NEW S, \A x \in S : x \in RectT, NEW a, BoxOf(a, S), NEW b, BoxOf(b, S)
  PROVE  a = b
<1>1. a \in RectT /\ b \in RectT
  BY DEF BoxOf
<1>2. /\ a.left \in Int /\ a.right \in Int /\ a.bottom \in Int /\ a.top \in Int
      /\ b.left \in Int /\ b.right \in Int /\ b.bottom \in Int /\ b.top \in Int
  BY <1>1, RectFields
<1>3. a.left <= b.left /\ b.left <= a.left
  BY DEF BoxOf, Contains
<1>4. a.right <= b.right /\ b.right <= a.right
  BY DEF BoxOf, Contains
<1>5. a.bottom <= b.bottom /\ b.bottom <= a.bottom
  BY DEF BoxOf, Contains
<1>6. a.top <= b.top /\ b.top <= a.top
  BY DEF BoxOf, Contains
<1>7. a.left = b.left /\ a.right = b.right /\ a.bottom = b.bottom /\ a.top = b.top
  BY <1>2, <1>3, <1>4, <1>5, <1>6
<1>8. QED
  BY <1>1, <1>7, SameRect

\* The box of one rectangle.
LEMMA BoxOfOne ==
  ASSUME NEW a \in RectT
  PROVE  BoxOf(a, {a})
<1>1. a.left \in Int /\ a.right \in Int /\ a.bottom \in Int /\ a.top \in Int
  BY RectFields
<1>2. QED
  BY <1>1 DEF BoxOf, Contains

\* A finite set of integers has a least and a greatest number: Min and Max.
LEMMA ExtremeOf ==
  ASSUME NEW S, S \subseteq Int, IsFiniteSet(S), S # {}
  PROVE  /\ Min(S) \in S /\ \A x \in S : Min(S) <= x
         /\ Max(S) \in S /\ \A x \in S : x <= Max(S)
<1>1. PICK U : U = {p \in S \X S : p[1] < p[2]}
  OBVIOUS
<1>2. PICK D : D = {p \in S \X S : p[2] < p[1]}
  OBVIOUS
<1>3. /\ \A x, y \in S : <<x, y>> \in U <=> x < y
      /\ \A x, y \in S : <<x, y>> \in D <=> y < x
  BY <1>1, <1>2
<1>4. Orders(U, S)
  BY <1>3 DEF Orders
<1>5. Orders(D, S)
  BY <1>3 DEF Orders
<1>6. PICK l \in S : \A x \in S : l = x \/ <<l, x>> \in U
  BY <1>4, FirstOf
<1>7. PICK h \in S : \A x \in S : h = x \/ <<h, x>> \in D
  BY <1>5, FirstOf
<1>8. (\A x \in S : l <= x) /\ \A x \in S : h >= x
  <2>1. \A x \in S : l = x \/ l < x
    BY <1>3, <1>6
  <2>2. \A x \in S : h = x \/ x < h
    BY <1>3, <1>7
  <2>3. \A x \in S : x \in Int /\ l \in Int /\ h \in Int
    OBVIOUS
  <2>4. QED
    BY <2>1, <2>2, <2>3
<1>9. Min(S) \in S /\ \A x \in S : Min(S) <= x
  BY <1>8 DEF Min
<1>10. Max(S) \in S /\ \A x \in S : Max(S) >= x
  BY <1>8 DEF Max
<1>11. QED
  BY <1>9, <1>10

\* What a function has on a finite set is finite.
LEMMA FiniteImage ==
  ASSUME NEW S, IsFiniteSet(S), NEW f
  PROVE  IsFiniteSet({f[x] : x \in S})
<1>1. PICK T : T = {f[x] : x \in S}
  OBVIOUS
<1>2. PICK g : g = [x \in S |-> f[x]]
  OBVIOUS
<1>3. g \in [S -> T] /\ \A t \in T : \E x \in S : g[x] = t
  BY <1>1, <1>2
<1>4. g \in Surjection(S, T)
  BY <1>3 DEF Surjection
<1>5. QED
  BY <1>1, <1>4, FS_Surjection

\* The rectangles of ids.
BoxesOf(R, X) == {R[x] : x \in X}

\* MergeRange gives the box of the rectangles of a row.
LEMMA MergeRangeBox ==
  ASSUME NEW e, Ids(e), e # <<>>, NEW R, \A x \in ASet(e) : R[x] \in RectT
  PROVE  BoxOf(MergeRange(R, e), BoxesOf(R, ASet(e)))
<1>1. e \in Seq(Nat) /\ Len(e) \in Nat /\ DOMAIN e = 1..Len(e) /\ IsFiniteSet(DOMAIN e)
  BY SetOf DEF Ids
<1>2. PICK of : of = {R[e[i]] : i \in DOMAIN e}
  OBVIOUS
<1>3. of = BoxesOf(R, ASet(e))
  BY <1>2 DEF BoxesOf, ASet
<1>4. \A a \in of : a \in RectT
  BY <1>3 DEF BoxesOf
<1>5. of # {} /\ IsFiniteSet(of)
  <2>1. Len(e) # 0
    BY <1>1, EmptySeq
  <2>2. 1 \in DOMAIN e
    BY <1>1, <2>1
  <2>3. PICK f : f = [i \in DOMAIN e |-> R[e[i]]]
    OBVIOUS
  <2>4. of = {f[i] : i \in DOMAIN e}
    BY <1>2, <2>3
  <2>5. IsFiniteSet(of)
    BY <1>1, <2>4, FiniteImage
  <2>6. R[e[1]] \in of
    BY <1>2, <2>2
  <2>7. QED
    BY <2>5, <2>6
<1>6. PICK ls : ls = {a.left : a \in of}
  OBVIOUS
<1>7. PICK rs : rs = {a.right : a \in of}
  OBVIOUS
<1>8. PICK bs : bs = {a.bottom : a \in of}
  OBVIOUS
<1>9. PICK ts : ts = {a.top : a \in of}
  OBVIOUS
<1>10. IsFiniteSet(ls) /\ IsFiniteSet(rs) /\ IsFiniteSet(bs) /\ IsFiniteSet(ts)
  <2>1. PICK fl : fl = [a \in of |-> a.left]
    OBVIOUS
  <2>2. PICK fr : fr = [a \in of |-> a.right]
    OBVIOUS
  <2>3. PICK fb : fb = [a \in of |-> a.bottom]
    OBVIOUS
  <2>4. PICK ft : ft = [a \in of |-> a.top]
    OBVIOUS
  <2>5. ls = {fl[a] : a \in of}
    BY <1>6, <2>1
  <2>6. rs = {fr[a] : a \in of}
    BY <1>7, <2>2
  <2>7. bs = {fb[a] : a \in of}
    BY <1>8, <2>3
  <2>8. ts = {ft[a] : a \in of}
    BY <1>9, <2>4
  <2>9. QED
    BY <1>5, <2>5, <2>6, <2>7, <2>8, FiniteImage
<1>11. ls \subseteq Int /\ rs \subseteq Int /\ bs \subseteq Int /\ ts \subseteq Int
  BY <1>4, <1>6, <1>7, <1>8, <1>9, RectFields
<1>12. ls # {} /\ rs # {} /\ bs # {} /\ ts # {}
  BY <1>5, <1>6, <1>7, <1>8, <1>9
<1>13. Min(ls) \in ls /\ \A x \in ls : Min(ls) <= x
  BY <1>10, <1>11, <1>12, ExtremeOf
<1>14. Max(rs) \in rs /\ \A x \in rs : x <= Max(rs)
  BY <1>10, <1>11, <1>12, ExtremeOf
<1>15. Min(bs) \in bs /\ \A x \in bs : Min(bs) <= x
  BY <1>10, <1>11, <1>12, ExtremeOf
<1>16. Max(ts) \in ts /\ \A x \in ts : x <= Max(ts)
  BY <1>10, <1>11, <1>12, ExtremeOf
<1>17. PICK m : m = MergeRange(R, e)
  OBVIOUS
<1>18. m = Rect(Min(ls), Max(rs), Min(bs), Max(ts))
  BY <1>2, <1>6, <1>7, <1>8, <1>9, <1>17 DEF MergeRange
<1>19. Min(ls) \in Int /\ Max(rs) \in Int /\ Min(bs) \in Int /\ Max(ts) \in Int
  BY <1>11, <1>13, <1>14, <1>15, <1>16
<1>20. /\ m \in RectT /\ m.left = Min(ls) /\ m.right = Max(rs)
       /\ m.bottom = Min(bs) /\ m.top = Max(ts)
  BY <1>18, <1>19, RectIs
<1>21. \A a \in of : Contains(m, a)
  <2>1. \A a \in of : a.left \in ls /\ a.right \in rs /\ a.bottom \in bs /\ a.top \in ts
    BY <1>6, <1>7, <1>8, <1>9
  <2>2. QED
    BY <1>13, <1>14, <1>15, <1>16, <1>20, <2>1 DEF Contains
<1>22. /\ \E a \in of : a.left = m.left
       /\ \E a \in of : a.right = m.right
       /\ \E a \in of : a.bottom = m.bottom
       /\ \E a \in of : a.top = m.top
  BY <1>6, <1>7, <1>8, <1>9, <1>13, <1>14, <1>15, <1>16, <1>20
<1>23. BoxOf(m, of)
  BY <1>20, <1>21, <1>22 DEF BoxOf
<1>24. QED
  BY <1>3, <1>17, <1>23

-------------------------------------------------------------------------------
\* Fan-outs for which a node that overflows can be cut.
FanOuts ==
  /\ maximum_entry \in Nat /\ minimum_entry \in Nat
  /\ minimum_entry >= 2 /\ 2 * minimum_entry <= maximum_entry + 1

\* Rearranged rows are rows of the same ids.
Rearranges(t, e) == Ids(t) /\ Len(t) = Len(e) /\ ASet(t) = ASet(e)

Orders4 == {"left", "right", "bottom", "top"}

\* The four orders score a rectangle by four integers.
LEMMA KeyScores ==
  ASSUME NEW a \in RectT, NEW order \in Orders4
  PROVE  Key(order, a) \in Tuples(4)
BY DEF Orders4, Key, SortedByBottom, SortedByLeft, SortedByRight, SortedByTop, RectT, Tuples

\* Ordering a row by scores that end in its ids rearranges it.
LEMMA OrderedRearranges ==
  ASSUME NEW n \in Nat \ {0}, NEW e, Ids(e),
         NEW score, DOMAIN score = DOMAIN e,
         \A i \in DOMAIN e : score[i] \in Tuples(n) /\ score[i][n] = e[i]
  PROVE  Rearranges(Ordered(e, score), e)
<1>1. e \in Seq(Nat) /\ Len(e) \in Nat /\ DOMAIN e = 1..Len(e)
  BY SetOf DEF Ids
<1>2. PICK key : key = [i \in DOMAIN e |-> score[i]]
  OBVIOUS
<1>3. key \in [1..Len(e) -> Tuples(n)]
  BY <1>1, <1>2
<1>4. Injective(key)
  BY <1>1, <1>2 DEF Injective, Ids
<1>5. Permutes(Ordered(e, key), e)
  BY <1>1, <1>3, <1>4, OrderedPermutes DEF Ids
<1>6. Ordered(e, score) = Ordered(e, key)
  <2>1. \A i, j \in DOMAIN e : Less(score[j], score[i]) <=> Less(key[j], key[i])
    BY <1>2
  <2>2. \A i \in DOMAIN e : {j \in DOMAIN e : Less(score[j], score[i])} = {j \in DOMAIN e : Less(key[j], key[i])}
    BY <2>1
  <2>3. Ranked(e, score) = Ranked(e, key)
    BY <2>2 DEF Ranked
  <2>4. QED
    BY <2>3 DEF Ordered
<1>7. PICK t : t = Ordered(e, key)
  OBVIOUS
<1>8. DOMAIN t = 1..Len(e) /\ ASet(t) = ASet(e) /\ Injective(t)
  BY <1>1, <1>5, <1>7 DEF Permutes
<1>9. t = [k \in 1..Len(e) |-> t[k]]
  BY <1>1, <1>7 DEF Ordered
<1>10. \A k \in 1..Len(e) : t[k] \in Nat
  <2>1. \A k \in 1..Len(e) : t[k] \in ASet(t)
    BY <1>8 DEF ASet
  <2>2. ASet(e) \subseteq Nat
    BY <1>1, SetOf
  <2>3. QED
    BY <1>8, <2>1, <2>2
<1>11. t \in [1..Len(e) -> Nat]
  BY <1>9, <1>10
<1>12. t \in Seq(Nat)
  BY <1>1, <1>11, SeqDef
<1>13. Len(t) = Len(e)
  BY <1>1, <1>8, <1>12
<1>14. QED
  BY <1>6, <1>7, <1>8, <1>12, <1>13 DEF Rearranges, Ids

\* The four orders rearrange a row.
LEMMA SortedRearranges ==
  ASSUME NEW e, Ids(e), NEW R, \A x \in ASet(e) : R[x] \in RectT, NEW order \in Orders4
  PROVE  Rearranges(Sorted(R, e, order), e)
<1>1. PICK score : score = [i \in DOMAIN e |-> Key(order, R[e[i]]) \o <<e[i]>>]
  OBVIOUS
<1>2. ASSUME NEW i \in DOMAIN e PROVE score[i] \in Tuples(5) /\ score[i][5] = e[i]
  <2>1. R[e[i]] \in RectT /\ e[i] \in Int
    BY SetOf DEF Ids, ASet
  <2>2. PICK v : v = Key(order, R[e[i]])
    OBVIOUS
  <2>3. v \in Tuples(4)
    BY <2>1, <2>2, KeyScores
  <2>4. v \o <<e[i]>> \in Tuples(4 + 1) /\ (v \o <<e[i]>>)[4 + 1] = e[i]
    BY <2>1, <2>3, OneMoreScore
  <2>5. score[i] = v \o <<e[i]>>
    BY <1>1, <2>2
  <2>6. 4 + 1 = 5
    OBVIOUS
  <2>7. QED
    BY <2>4, <2>5, <2>6
<1>3. DOMAIN score = DOMAIN e
  BY <1>1
<1>4. Rearranges(Ordered(e, score), e)
  BY <1>2, <1>3, OrderedRearranges
<1>5. QED
  BY <1>1, <1>4 DEF Sorted

-------------------------------------------------------------------------------
\* What a split has to be: it divides the row e in two rows with the boxes of
\* their entries, neither of them too small.
Shares(d, e) ==
  /\ Ids(d.low) /\ Ids(d.high)
  /\ ASet(d.low) \cup ASet(d.high) = ASet(e) /\ ASet(d.low) \cap ASet(d.high) = {}
  /\ Len(d.low) + Len(d.high) = Len(e)
Boxed(d, R) ==
  /\ BoxOf(d.box1, BoxesOf(R, ASet(d.low)))
  /\ BoxOf(d.box2, BoxesOf(R, ASet(d.high)))
Divides(d, R, e) ==
  /\ Shares(d, e) /\ Boxed(d, R)
  /\ Len(d.low) >= minimum_entry /\ Len(d.high) >= minimum_entry

\* The box of a piece of a row.
LEMMA PieceBox ==
  ASSUME NEW s, Ids(s), NEW R, \A x \in ASet(s) : R[x] \in RectT,
         NEW i \in Nat \ {0}, NEW j \in Nat, i <= j, j <= Len(s)
  PROVE  BoxOf(MergeRange(R, SubSeq(s, i, j)), BoxesOf(R, Piece(s, i, j)))
<1>1. PICK t : t = SubSeq(s, i, j)
  OBVIOUS
<1>2. Ids(t) /\ Len(t) = j - i + 1 /\ ASet(t) = Piece(s, i, j)
  BY <1>1, PieceOf
<1>3. t # <<>>
  <2>1. Len(t) # 0
    BY <1>2
  <2>2. QED
    BY <2>1, EmptySeq
<1>4. ASet(t) \subseteq ASet(s)
  <2>1. ASet(s) = Piece(s, 1, Len(s)) /\ Len(s) \in Nat
    BY SetOf DEF Ids
  <2>2. i..j \subseteq 1..Len(s)
    BY <2>1
  <2>3. QED
    BY <1>2, <2>1, <2>2 DEF Piece
<1>5. BoxOf(MergeRange(R, t), BoxesOf(R, ASet(t)))
  BY <1>2, <1>3, <1>4, MergeRangeBox
<1>6. QED
  BY <1>1, <1>2, <1>5

\* The boxes of two sets make the box of both.
LEMMA BoxesJoin ==
  ASSUME NEW R, NEW X, NEW Y
  PROVE  BoxesOf(R, X \cup Y) = BoxesOf(R, X) \cup BoxesOf(R, Y)
BY DEF BoxesOf

\* The boxes of two pieces that follow one another make the box of both.
LEMMA PiecesBox ==
  ASSUME NEW s, Ids(s), NEW R, \A x \in ASet(s) : R[x] \in RectT,
         NEW i \in Nat \ {0}, NEW k \in Nat, NEW j \in Nat, i <= k, k < j, j <= Len(s),
         NEW a, BoxOf(a, BoxesOf(R, Piece(s, i, k))),
         NEW b, BoxOf(b, BoxesOf(R, Piece(s, k + 1, j)))
  PROVE  BoxOf(Merge(a, b), BoxesOf(R, Piece(s, i, j)))
<1>1. Piece(s, i, j) = Piece(s, i, k) \cup Piece(s, k + 1, j)
  BY PiecesJoin
<1>2. Piece(s, i, j) \subseteq ASet(s)
  <2>1. ASet(s) = Piece(s, 1, Len(s)) /\ Len(s) \in Nat
    BY SetOf DEF Ids
  <2>2. i..j \subseteq 1..Len(s)
    BY <2>1
  <2>3. QED
    BY <2>1, <2>2 DEF Piece
<1>3. PICK S : S = BoxesOf(R, Piece(s, i, k))
  OBVIOUS
<1>4. PICK T : T = BoxesOf(R, Piece(s, k + 1, j))
  OBVIOUS
<1>5. \A x \in S \cup T : x \in RectT
  BY <1>1, <1>2, <1>3, <1>4 DEF BoxesOf
<1>6. BoxOf(Merge(a, b), S \cup T)
  BY <1>3, <1>4, <1>5, BoxOfBoth
<1>7. BoxesOf(R, Piece(s, i, j)) = S \cup T
  BY <1>1, <1>3, <1>4, BoxesJoin
<1>8. QED
  BY <1>6, <1>7

\* A cut of a row shares it out.
CutIs(d, e, s, k) ==
  /\ Shares(d, e) /\ Len(d.low) = k /\ Len(d.high) = Len(e) - k
  /\ ASet(d.low) = Piece(s, 1, k) /\ ASet(d.high) = Piece(s, k + 1, Len(s))

\* A cut that leaves both sides something shares the row.
LEMMA CutShares ==
  ASSUME NEW e, NEW s, Rearranges(s, e), NEW k \in Nat, k <= Len(e),
         NEW d, d.low = SubSeq(s, 1, k), d.high = SubSeq(s, k + 1, Len(s))
  PROVE  CutIs(d, e, s, k)
<1>1. Ids(s) /\ Len(s) = Len(e) /\ ASet(s) = ASet(e) /\ Len(s) \in Nat
  <2>1. Ids(s) /\ Len(s) = Len(e) /\ ASet(s) = ASet(e)
    BY DEF Rearranges
  <2>2. Len(s) \in Nat
    BY <2>1, SetOf DEF Ids
  <2>3. QED
    BY <2>1, <2>2
<1>2. Ids(d.low) /\ Len(d.low) = k - 1 + 1 /\ ASet(d.low) = Piece(s, 1, k)
  BY <1>1, PieceOf
<1>3. /\ Ids(d.high) /\ Len(d.high) = Len(s) - (k + 1) + 1
      /\ ASet(d.high) = Piece(s, k + 1, Len(s))
  BY <1>1, PieceOf
<1>4. ASet(s) = Piece(s, 1, k) \cup Piece(s, k + 1, Len(s))
  BY <1>1, SetOf, PiecesJoin DEF Ids
<1>5. Piece(s, 1, k) \cap Piece(s, k + 1, Len(s)) = {}
  BY <1>1, PiecesApart
<1>6. Len(d.low) = k /\ Len(d.high) = Len(e) - k
  BY <1>1, <1>2, <1>3
<1>7. Len(d.low) + Len(d.high) = Len(e)
  <2>1. PICK n : n = Len(e)
    OBVIOUS
  <2>2. PICK a : a = Len(d.low)
    OBVIOUS
  <2>3. PICK b : b = Len(d.high)
    OBVIOUS
  <2>4. n \in Int /\ a = k /\ b = n - k
    BY <1>1, <1>6, <2>1, <2>2, <2>3
  <2>5. a + b = n
    BY <2>4
  <2>6. QED
    BY <2>1, <2>2, <2>3, <2>5
<1>8. QED
  BY <1>1, <1>2, <1>3, <1>4, <1>5, <1>6, <1>7 DEF Shares, CutIs

-------------------------------------------------------------------------------
\* The cuts of a sorted row.
Overfull(e) == Ids(e) /\ Len(e) = maximum_entry + 1

\* A cut of CutsPerOrder leaves both sides enough.
LEMMA CutAtDivides ==
  ASSUME FanOuts, NEW e, Overfull(e), NEW R, \A x \in ASet(e) : R[x] \in RectT,
         NEW s, Rearranges(s, e), NEW c \in 1..CutsPerOrder
  PROVE  Divides(CutAt(R, s, c), R, e)
<1>1. PICK k : k = minimum_entry - 1 + c
  OBVIOUS
<1>2. Ids(s) /\ Len(s) = maximum_entry + 1 /\ ASet(s) = ASet(e) /\ Len(s) = Len(e)
  BY DEF Rearranges, Overfull
<1>3. k \in Nat /\ k >= minimum_entry /\ k + minimum_entry <= maximum_entry + 1
  BY <1>1 DEF FanOuts, CutsPerOrder
<1>4. PICK d : d = CutAt(R, s, c)
  OBVIOUS
<1>5. /\ d.low = SubSeq(s, 1, k) /\ d.high = SubSeq(s, k + 1, Len(s))
      /\ d.box1 = MergeRange(R, SubSeq(s, 1, k)) /\ d.box2 = MergeRange(R, SubSeq(s, k + 1, Len(s)))
  BY <1>1, <1>4 DEF CutAt
<1>6. k <= Len(e)
  BY <1>2, <1>3 DEF FanOuts
<1>7. /\ Shares(d, e) /\ Len(d.low) = k /\ Len(d.high) = Len(e) - k
      /\ ASet(d.low) = Piece(s, 1, k) /\ ASet(d.high) = Piece(s, k + 1, Len(s))
  <2>1. /\ Rearranges(s, e) /\ k \in Nat /\ k <= Len(e)
        /\ d.low = SubSeq(s, 1, k) /\ d.high = SubSeq(s, k + 1, Len(s))
    BY <1>3, <1>5, <1>6
  <2>2. CutIs(d, e, s, k)
    BY <2>1, CutShares
  <2>3. QED
    BY <2>2 DEF CutIs
<1>8. Len(d.low) >= minimum_entry /\ Len(d.high) >= minimum_entry
  BY <1>2, <1>3, <1>7 DEF FanOuts
<1>9. BoxOf(d.box1, BoxesOf(R, Piece(s, 1, k)))
  <2>1. 1 \in Nat \ {0} /\ 1 <= k /\ k <= Len(s)
    BY <1>2, <1>3 DEF FanOuts
  <2>2. QED
    BY <1>2, <1>3, <1>5, <2>1, PieceBox
<1>10. BoxOf(d.box2, BoxesOf(R, Piece(s, k + 1, Len(s))))
  <2>1. k + 1 \in Nat \ {0} /\ Len(s) \in Nat /\ k + 1 <= Len(s) /\ Len(s) <= Len(s)
    BY <1>2, <1>3 DEF FanOuts
  <2>2. QED
    BY <1>2, <1>5, <2>1, PieceBox
<1>11. Boxed(d, R)
  BY <1>7, <1>9, <1>10 DEF Boxed
<1>12. QED
  BY <1>4, <1>7, <1>8, <1>11 DEF Divides

\* The sweep gives the two sides of every cut their boxes.
LEMMA SweepBoxes ==
  ASSUME FanOuts, NEW s, Overfull(s), NEW R, \A x \in ASet(s) : R[x] \in RectT,
         NEW c \in 1..CutsPerOrder, NEW k, k = minimum_entry - 1 + c
  PROVE  /\ BoxOf(Sweep(R, s)[c][1], BoxesOf(R, Piece(s, 1, k)))
         /\ BoxOf(Sweep(R, s)[c][2], BoxesOf(R, Piece(s, k + 1, Len(s))))
<1>0. Ids(s) /\ Len(s) = maximum_entry + 1
  BY DEF Overfull
<1>1. /\ k \in Nat /\ k >= minimum_entry /\ k + minimum_entry <= maximum_entry + 1
      /\ k + 1 = minimum_entry + c /\ c \in Nat /\ c >= 1
  BY DEF FanOuts, CutsPerOrder
<1>2. PICK prefix : prefix = MergeRange(R, SubSeq(s, 1, minimum_entry - 1))
  OBVIOUS
<1>3. PICK suffix : suffix = MergeRange(R, SubSeq(s, maximum_entry - minimum_entry + 2, Len(s)))
  OBVIOUS
<1>4. PICK low : low = MergeRange(R, SubSeq(s, minimum_entry, k))
  OBVIOUS
<1>5. PICK high : high = MergeRange(R, SubSeq(s, k + 1, maximum_entry - minimum_entry + 1))
  OBVIOUS
<1>6. Sweep(R, s)[c][1] = Merge(prefix, low)
  <2>1. Sweep(R, s)[c][1] =
          IF minimum_entry > minimum_entry - 1 + c THEN prefix
          ELSE Merge(prefix, MergeRange(R, SubSeq(s, minimum_entry, minimum_entry - 1 + c)))
    BY <1>2 DEF Sweep
  <2>2. ~(minimum_entry > minimum_entry - 1 + c)
    BY <1>1 DEF FanOuts
  <2>3. QED
    BY <1>4, <2>1, <2>2
<1>7. Sweep(R, s)[c][2] = IF k + 1 > maximum_entry - minimum_entry + 1 THEN suffix ELSE Merge(suffix, high)
  <2>1. Sweep(R, s)[c][2] =
          IF minimum_entry + c > maximum_entry - minimum_entry + 1 THEN suffix
          ELSE Merge(suffix, MergeRange(R, SubSeq(s, minimum_entry + c, maximum_entry - minimum_entry + 1)))
    BY <1>3 DEF Sweep
  <2>2. QED
    BY <1>1, <1>5, <2>1
<1>8. BoxOf(prefix, BoxesOf(R, Piece(s, 1, minimum_entry - 1)))
  <2>1. minimum_entry - 1 \in Nat /\ 1 <= minimum_entry - 1 /\ minimum_entry - 1 <= Len(s)
    BY <1>0, <1>1 DEF FanOuts
  <2>2. QED
    BY <1>0, <1>2, <2>1, PieceBox
<1>9. BoxOf(low, BoxesOf(R, Piece(s, minimum_entry, k)))
  <2>1. minimum_entry \in Nat \ {0} /\ minimum_entry <= k /\ k <= Len(s)
    BY <1>0, <1>1 DEF FanOuts
  <2>2. QED
    BY <1>0, <1>1, <1>4, <2>1, PieceBox
<1>10. BoxOf(Merge(prefix, low), BoxesOf(R, Piece(s, 1, k)))
  <2>1. PICK m : m = minimum_entry - 1
    OBVIOUS
  <2>2. m \in Nat /\ 1 <= m /\ m < k /\ m + 1 = minimum_entry /\ k <= Len(s)
    BY <1>0, <1>1, <2>1 DEF FanOuts
  <2>3. BoxOf(low, BoxesOf(R, Piece(s, m + 1, k)))
    BY <1>9, <2>2
  <2>4. BoxOf(prefix, BoxesOf(R, Piece(s, 1, m)))
    BY <1>8, <2>1
  <2>5. 1 \in Nat \ {0} /\ k \in Nat
    BY <1>1
  <2>6. QED
    BY <1>0, <2>2, <2>3, <2>4, <2>5, PiecesBox
<1>11. PICK u : u = maximum_entry - minimum_entry + 1
  OBVIOUS
<1>12. u \in Nat /\ u >= k /\ u + 1 <= Len(s) /\ u + 1 = maximum_entry - minimum_entry + 2 /\ Len(s) \in Nat
  BY <1>0, <1>1, <1>11 DEF FanOuts
<1>13. BoxOf(suffix, BoxesOf(R, Piece(s, u + 1, Len(s))))
  <2>1. u + 1 \in Nat \ {0} /\ Len(s) <= Len(s)
    BY <1>12
  <2>2. QED
    BY <1>0, <1>3, <1>12, <2>1, PieceBox
<1>14. CASE k + 1 > u
  <2>1. k = u
    BY <1>1, <1>12, <1>14
  <2>2. Sweep(R, s)[c][2] = suffix
    BY <1>7, <1>11, <1>14
  <2>3. QED
    BY <1>6, <1>10, <1>13, <2>1, <2>2
<1>15. CASE ~(k + 1 > u)
  <2>1. Sweep(R, s)[c][2] = Merge(suffix, high)
    BY <1>7, <1>11, <1>15
  <2>2. k + 1 \in Nat \ {0} /\ k + 1 <= u /\ u <= Len(s) /\ u < Len(s)
    BY <1>1, <1>12, <1>15
  <2>3. BoxOf(high, BoxesOf(R, Piece(s, k + 1, u)))
    BY <1>0, <1>5, <1>11, <1>12, <2>2, PieceBox
  <2>4. BoxOf(Merge(high, suffix), BoxesOf(R, Piece(s, k + 1, Len(s))))
    BY <1>0, <1>12, <1>13, <2>2, <2>3, PiecesBox
  <2>5. Merge(high, suffix) = Merge(suffix, high)
    <3>1. high \in RectT /\ suffix \in RectT
      BY <1>13, <2>3 DEF BoxOf
    <3>2. QED
      BY <3>1, MergeTurned
  <2>6. QED
    BY <1>6, <1>10, <2>1, <2>4, <2>5
<1>16. QED
  BY <1>14, <1>15

\* A cut that is given the boxes of the sweep divides the row.
LEMMA SweptCutDivides ==
  ASSUME FanOuts, NEW e, Overfull(e), NEW R, \A x \in ASet(e) : R[x] \in RectT,
         NEW s, Rearranges(s, e), NEW c \in 1..CutsPerOrder
  PROVE  Divides(SweptCut(R, s, c), R, e)
<1>1. PICK k : k = minimum_entry - 1 + c
  OBVIOUS
<1>2. Ids(s) /\ Len(s) = maximum_entry + 1 /\ ASet(s) = ASet(e) /\ Len(s) = Len(e)
  BY DEF Rearranges, Overfull
<1>3. k \in Nat /\ k >= minimum_entry /\ k + minimum_entry <= maximum_entry + 1
  BY <1>1 DEF FanOuts, CutsPerOrder
<1>4. PICK d : d = SweptCut(R, s, c)
  OBVIOUS
<1>5. /\ d.low = SubSeq(s, 1, k) /\ d.high = SubSeq(s, k + 1, Len(s))
      /\ d.box1 = Sweep(R, s)[c][1] /\ d.box2 = Sweep(R, s)[c][2]
  BY <1>1, <1>4 DEF SweptCut
<1>6. k <= Len(e)
  BY <1>2, <1>3 DEF FanOuts
<1>7. CutIs(d, e, s, k)
  BY <1>3, <1>5, <1>6, CutShares
<1>8. Len(d.low) >= minimum_entry /\ Len(d.high) >= minimum_entry
  <2>1. Len(d.low) = k /\ Len(d.high) = Len(e) - k
    BY <1>7 DEF CutIs
  <2>2. QED
    BY <1>2, <1>3, <2>1 DEF FanOuts
<1>9. /\ BoxOf(d.box1, BoxesOf(R, Piece(s, 1, k)))
      /\ BoxOf(d.box2, BoxesOf(R, Piece(s, k + 1, Len(s))))
  <2>1. Overfull(s) /\ \A x \in ASet(s) : R[x] \in RectT
    BY <1>2 DEF Overfull
  <2>2. QED
    BY <1>1, <1>5, <2>1, SweepBoxes
<1>10. Boxed(d, R) /\ Shares(d, e)
  BY <1>7, <1>9 DEF Boxed, CutIs
<1>11. QED
  BY <1>4, <1>8, <1>10 DEF Divides

\* Scores are integers.
LEMMA MeasuresAreInt ==
  ASSUME NEW a \in RectT
  PROVE  Area(a) \in Int /\ Perimeter(a) \in Int
<1>1. PICK w : w = a.right - a.left
  OBVIOUS
<1>2. PICK h : h = a.top - a.bottom
  OBVIOUS
<1>3. w \in Int /\ h \in Int
  BY <1>1, <1>2, RectFields
<1>4. h * w \in Int
  BY <1>3
<1>5. Area(a) = h * w
  BY <1>1, <1>2 DEF Area
<1>6. Perimeter(a) \in Int
  BY RectFields DEF Perimeter
<1>7. QED
  BY <1>4, <1>5, <1>6

\* What two rectangles share has integer sides.
LEMMA OverlapIsRect ==
  ASSUME NEW a \in RectT, NEW b \in RectT
  PROVE  Overlap(a, b) \in RectT
<1>1. /\ Higher(a.left, b.left) \in Int /\ Lower(a.right, b.right) \in Int
      /\ Higher(a.bottom, b.bottom) \in Int /\ Lower(a.top, b.top) \in Int
  BY RectFields DEF Lower, Higher
<1>2. QED
  BY <1>1, RectIs DEF Overlap

Measures == {"SplitArea", "SplitPerimeter", "SplitOverlap"}

\* So a candidate cut has an integer score.
LEMMA ScoresAreInt ==
  ASSUME NEW a \in RectT, NEW b \in RectT, NEW by \in Measures
  PROVE  Score(by, a, b) \in Int
<1>1. Area(a) \in Int /\ Area(b) \in Int /\ Perimeter(a) \in Int /\ Perimeter(b) \in Int
  BY MeasuresAreInt
<1>2. Area(Overlap(a, b)) \in Int
  BY OverlapIsRect, MeasuresAreInt
<1>3. SplitArea(a, b) \in Int /\ SplitPerimeter(a, b) \in Int /\ SplitOverlap(a, b) \in Int
  BY <1>1, <1>2 DEF SplitArea, SplitPerimeter, SplitOverlap
<1>4. CASE by = "SplitArea"
  BY <1>3, <1>4 DEF Score
<1>5. CASE by = "SplitPerimeter"
  BY <1>3, <1>5 DEF Score
<1>6. CASE by = "SplitOverlap"
  BY <1>3, <1>6 DEF Score
<1>7. QED
  BY <1>4, <1>5, <1>6 DEF Measures

\* Least picks one of the entries that are scored: a tuple of two scores and
\* two positions of which S holds one for every member of I.
LEMMA LeastPicks ==
  ASSUME NEW I, IsFiniteSet(I), I # {}, NEW n \in Nat, NEW f, \A p \in I : f[p] \in Tuples(n)
  PROVE  \E p \in I : Least({f[q] : q \in I}) = f[p]
<1>1. PICK S : S = {f[q] : q \in I}
  OBVIOUS
<1>2. S \subseteq Tuples(n) /\ S # {} /\ IsFiniteSet(S)
  BY <1>1, FiniteImage
<1>3. Least(S) \in S
  BY <1>2, LeastOf
<1>4. QED
  BY <1>1, <1>3

-------------------------------------------------------------------------------
\* FindMinimumSplit takes a cut of one of the orders, with its boxes.
LEMMA CutsPositive ==
  ASSUME FanOuts
  PROVE  CutsPerOrder \in Nat /\ CutsPerOrder >= 1
BY DEF FanOuts, CutsPerOrder

\* The sweep gives rectangles.
LEMMA SweepRects ==
  ASSUME FanOuts, NEW s, Overfull(s), NEW R, \A x \in ASet(s) : R[x] \in RectT,
         NEW c \in 1..CutsPerOrder
  PROVE  Sweep(R, s)[c][1] \in RectT /\ Sweep(R, s)[c][2] \in RectT
<1>1. PICK k : k = minimum_entry - 1 + c
  OBVIOUS
<1>2. QED
  BY <1>1, SweepBoxes DEF BoxOf

\* A cut along one of the orders, none of which has one with a lower score.
BestOf(d, R, e, orders, by) ==
  \E o \in DOMAIN orders, c \in 1..CutsPerOrder :
     /\ d = SweptCut(R, Sorted(R, e, orders[o]), c)
     /\ \A q \in DOMAIN orders, k \in 1..CutsPerOrder :
           Score(by, d.box1, d.box2) <= Score(by, Sweep(R, Sorted(R, e, orders[q]))[k][1],
                                                  Sweep(R, Sorted(R, e, orders[q]))[k][2])

\* The search takes the best cut.
LEMMA FindMinimumSplitIsBest ==
  ASSUME FanOuts, NEW e, Overfull(e), NEW R, \A x \in ASet(e) : R[x] \in RectT,
         NEW n \in Nat \ {0}, NEW orders \in [1..n -> Orders4],
         NEW score1 \in Measures, NEW score2 \in Measures
  PROVE  BestOf(FindMinimumSplit(R, e, orders, score1, score2), R, e, orders, score1)
<1>1. PICK s : s = [o \in DOMAIN orders |-> Sorted(R, e, orders[o])]
  OBVIOUS
<1>2. PICK boxes : boxes = [o \in DOMAIN orders |-> Sweep(R, s[o])]
  OBVIOUS
<1>3. \A o \in 1..n : Rearranges(s[o], e)
  BY <1>1, SortedRearranges DEF Overfull
<1>4. \A o \in 1..n : Overfull(s[o]) /\ \A x \in ASet(s[o]) : R[x] \in RectT
  BY <1>3 DEF Rearranges, Overfull
<1>5. PICK I : I = (1..n) \X (1..CutsPerOrder)
  OBVIOUS
<1>6. PICK f : f = Scored(boxes, score1, score2)
  OBVIOUS
<1>7. IsFiniteSet(I) /\ I # {}
  <2>1. IsFiniteSet(1..n) /\ IsFiniteSet(1..CutsPerOrder)
    BY CutsPositive, FS_Interval
  <2>2. <<1, 1>> \in I
    BY <1>5, CutsPositive
  <2>3. QED
    BY <1>5, <2>1, <2>2, FS_Product
<1>8. ASSUME NEW p \in I
      PROVE  /\ f[p] \in Tuples(4)
             /\ f[p][1] = Score(score1, Sweep(R, s[p[1]])[p[2]][1], Sweep(R, s[p[1]])[p[2]][2])
  <2>1. p[1] \in 1..n /\ p[2] \in 1..CutsPerOrder
    BY <1>5
  <2>2. PICK b : b = Sweep(R, s[p[1]])[p[2]]
    OBVIOUS
  <2>3. b[1] \in RectT /\ b[2] \in RectT
    BY <1>4, <2>1, <2>2, SweepRects
  <2>4. boxes[p[1]][p[2]] = b
    BY <1>2, <2>1, <2>2
  <2>5. PICK x : x = Score(score1, b[1], b[2])
    OBVIOUS
  <2>6. PICK y : y = Score(score2, b[1], b[2])
    OBVIOUS
  <2>7. x \in Int /\ y \in Int
    BY <2>3, <2>5, <2>6, ScoresAreInt
  <2>8. f[p] = <<x, y, p[1], p[2]>>
    BY <1>2, <1>5, <1>6, <2>4, <2>5, <2>6 DEF Scored
  <2>9. p[1] \in Int /\ p[2] \in Int
    BY <2>1, CutsPositive
  <2>10. QED
    BY <2>2, <2>5, <2>7, <2>8, <2>9 DEF Tuples
<1>9. PICK p \in I : Least({f[q] : q \in I}) = f[p]
  <2>1. 4 \in Nat /\ \A q \in I : f[q] \in Tuples(4)
    BY <1>8
  <2>2. QED
    BY <1>7, <2>1, LeastPicks
<1>10. DOMAIN f = I
  BY <1>2, <1>5, <1>6 DEF Scored
<1>11. PICK best : best = f[p]
  OBVIOUS
<1>12. FindMinimumSplit(R, e, orders, score1, score2) = SweptCut(R, s[best[3]], best[4])
  BY <1>1, <1>2, <1>6, <1>9, <1>10, <1>11 DEF FindMinimumSplit
<1>13. best[3] = p[1] /\ best[4] = p[2] /\ p[1] \in 1..n /\ p[2] \in 1..CutsPerOrder
  BY <1>2, <1>5, <1>6, <1>11 DEF Scored
<1>14. PICK t : t = s[p[1]] /\ t = Sorted(R, e, orders[p[1]])
  BY <1>1, <1>13
<1>15. PICK d : d = FindMinimumSplit(R, e, orders, score1, score2) /\ d = SweptCut(R, t, p[2])
  BY <1>12, <1>13, <1>14
<1>16. d.box1 = Sweep(R, t)[p[2]][1] /\ d.box2 = Sweep(R, t)[p[2]][2]
  BY <1>15 DEF SweptCut
<1>17. ASSUME NEW q \in 1..n, NEW k \in 1..CutsPerOrder
       PROVE  Score(score1, d.box1, d.box2) <= Score(score1, Sweep(R, Sorted(R, e, orders[q]))[k][1],
                                                             Sweep(R, Sorted(R, e, orders[q]))[k][2])
  <2>1. PICK S : S = {f[j] : j \in I}
    OBVIOUS
  <2>2. S \subseteq Tuples(4) /\ IsFiniteSet(S) /\ S # {}
    BY <1>7, <1>8, <2>1, FiniteImage
  <2>3. \A w \in S : f[p] = w \/ Less(f[p], w)
    <3>1. 4 \in Nat /\ Least(S) = f[p]
      BY <1>9, <2>1
    <3>2. QED
      BY <2>2, <3>1, LeastOf
  <2>4. PICK j \in I : j[1] = q /\ j[2] = k
    <3>1. <<q, k>> \in I /\ <<q, k>>[1] = q /\ <<q, k>>[2] = k
      BY <1>5
    <3>2. QED
      BY <3>1
  <2>5. f[p] \in Tuples(4) /\ f[j] \in Tuples(4) /\ (f[p] = f[j] \/ Less(f[p], f[j]))
    BY <1>8, <2>1, <2>3, <2>4
  <2>6. f[p][1] <= f[j][1]
    <3>1. 4 \in Nat \ {0}
      OBVIOUS
    <3>2. QED
      BY <2>5, <3>1, LessBegins
  <2>7. s[q] = Sorted(R, e, orders[q])
    BY <1>1
  <2>8. f[j][1] = Score(score1, Sweep(R, s[q])[k][1], Sweep(R, s[q])[k][2])
    BY <1>8, <2>4
  <2>9. f[p][1] = Score(score1, d.box1, d.box2)
    BY <1>8, <1>14, <1>16
  <2>10. QED
    BY <2>6, <2>7, <2>8, <2>9
<1>18. DOMAIN orders = 1..n
  OBVIOUS
<1>19. QED
  BY <1>13, <1>14, <1>15, <1>17, <1>18 DEF BestOf

\* FindMinimumSplit divides, whatever it scores the cuts by.
LEMMA FindMinimumSplitDivides ==
  ASSUME FanOuts, NEW e, Overfull(e), NEW R, \A x \in ASet(e) : R[x] \in RectT,
         NEW n \in Nat \ {0}, NEW orders \in [1..n -> Orders4],
         NEW score1 \in Measures, NEW score2 \in Measures
  PROVE  Divides(FindMinimumSplit(R, e, orders, score1, score2), R, e)
<1>1. PICK o \in 1..n, c \in 1..CutsPerOrder :
        FindMinimumSplit(R, e, orders, score1, score2) = SweptCut(R, Sorted(R, e, orders[o]), c)
  BY FindMinimumSplitIsBest DEF BestOf
<1>2. Rearranges(Sorted(R, e, orders[o]), e)
  BY SortedRearranges DEF Overfull
<1>3. QED
  BY <1>1, <1>2, SweptCutDivides

\* The three strategies that take the best cut divide.
LEMMA MinimumSplitsDivide ==
  ASSUME FanOuts, NEW e, Overfull(e), NEW R, \A x \in ASet(e) : R[x] \in RectT
  PROVE  Divides(MinArea(R, e), R, e) /\ Divides(MinMargin(R, e), R, e) /\ Divides(MinOverlap(R, e), R, e)
<1>1. AllOrders \in [1..4 -> Orders4] /\ TwoOrders \in [1..2 -> Orders4]
  BY DEF AllOrders, TwoOrders, Orders4
<1>2. "SplitArea" \in Measures /\ "SplitPerimeter" \in Measures /\ "SplitOverlap" \in Measures
  BY DEF Measures
<1>3. 4 \in Nat \ {0} /\ 2 \in Nat \ {0}
  OBVIOUS
<1>4. QED
  BY <1>1, <1>2, <1>3, FindMinimumSplitDivides DEF MinArea, MinMargin, MinOverlap

\* RRSplit takes a cut of one order.
LEMMA RRCutsDivide ==
  ASSUME FanOuts, NEW e, Overfull(e), NEW R, \A x \in ASet(e) : R[x] \in RectT,
         NEW node, NEW leaf, NEW d \in RRCuts(R, e, node, leaf)
  PROVE  Divides(d, R, e)
<1>1. PICK order \in RROrders(R, e, leaf), c \in 1..CutsPerOrder : d = SweptCut(R, Sorted(R, e, order), c)
  BY DEF RRCuts
<1>2. order \in Orders4
  BY DEF RROrders, Orders4
<1>3. Rearranges(Sorted(R, e, order), e)
  BY <1>2, SortedRearranges DEF Overfull
<1>4. QED
  BY <1>1, <1>3, SweptCutDivides

-------------------------------------------------------------------------------
\* Rows put together from rows without a common id.
Joined(c, a, b) == Ids(c) /\ Len(c) = Len(a) + Len(b) /\ ASet(c) = ASet(a) \cup ASet(b)

\* Appending a row to a row it shares nothing with.
LEMMA RowsJoin ==
  ASSUME NEW a, Ids(a), NEW b, Ids(b), ASet(a) \cap ASet(b) = {}
  PROVE  Joined(a \o b, a, b)
<1>1. PICK n : n = Len(a)
  OBVIOUS
<1>2. PICK m : m = Len(b)
  OBVIOUS
<1>3. a \in Seq(Nat) /\ b \in Seq(Nat) /\ n \in Nat /\ m \in Nat /\ DOMAIN a = 1..n /\ DOMAIN b = 1..m
  BY <1>1, <1>2, SetOf DEF Ids
<1>4. PICK c : c = a \o b
  OBVIOUS
<1>5. /\ c \in Seq(Nat) /\ Len(c) = n + m
      /\ \A i \in 1..n + m : c[i] = IF i <= n THEN a[i] ELSE b[i - n]
  BY <1>1, <1>2, <1>3, <1>4, ConcatProperties
<1>6. DOMAIN c = 1..n + m
  BY <1>5, LenProperties
<1>7. /\ \A i \in 1..n : i \in 1..n + m /\ c[i] = a[i]
      /\ \A i \in n + 1..n + m : i \in 1..n + m /\ i - n \in 1..m /\ c[i] = b[i - n]
  BY <1>3, <1>5
<1>8. 1..n + m = (1..n) \cup (n + 1..n + m)
  BY <1>3
<1>9. \A i \in 1..m : i + n \in n + 1..n + m /\ c[i + n] = b[i]
  <2>1. \A i \in 1..m : i + n \in n + 1..n + m /\ (i + n) - n = i
    BY <1>3
  <2>2. QED
    BY <1>7, <2>1
<1>10. ASet(c) = ASet(a) \cup ASet(b)
  <2>1. ASSUME NEW i \in 1..n + m PROVE c[i] \in ASet(a) \cup ASet(b)
    <3>1. CASE i \in 1..n
      BY <1>3, <1>7, <3>1 DEF ASet
    <3>2. CASE i \in n + 1..n + m
      BY <1>3, <1>7, <3>2 DEF ASet
    <3>3. QED
      BY <1>8, <3>1, <3>2
  <2>2. ASSUME NEW x \in ASet(a) PROVE \E i \in 1..n + m : c[i] = x
    BY <1>3, <1>7 DEF ASet
  <2>3. ASSUME NEW x \in ASet(b) PROVE \E i \in 1..n + m : c[i] = x
    <3>1. PICK i \in 1..m : b[i] = x
      BY <1>3 DEF ASet
    <3>2. i + n \in 1..n + m /\ c[i + n] = x
      BY <1>8, <1>9, <3>1
    <3>3. QED
      BY <3>2
  <2>4. \A x \in ASet(a) \cup ASet(b) : x \in ASet(c)
    BY <1>6, <2>2, <2>3 DEF ASet
  <2>5. \A x \in ASet(c) : x \in ASet(a) \cup ASet(b)
    BY <1>6, <2>1 DEF ASet
  <2>6. QED
    BY <2>4, <2>5
<1>11. Injective(c)
  <2>1. SUFFICES ASSUME NEW i \in 1..n + m, NEW j \in 1..n + m, c[i] = c[j] PROVE i = j
    BY <1>6 DEF Injective
  <2>2. CASE i \in 1..n /\ j \in 1..n
    <3>1. a[i] = a[j]
      BY <1>7, <2>1, <2>2
    <3>2. QED
      BY <1>3, <2>2, <3>1 DEF Ids, Injective
  <2>3. CASE i \in n + 1..n + m /\ j \in n + 1..n + m
    <3>1. i - n \in 1..m /\ j - n \in 1..m /\ b[i - n] = b[j - n]
      BY <1>7, <2>1, <2>3
    <3>2. i - n = j - n
      BY <1>3, <3>1 DEF Ids, Injective
    <3>3. QED
      BY <1>3, <3>2
  <2>4. ASSUME NEW k \in 1..n, NEW l \in n + 1..n + m PROVE c[k] # c[l]
    <3>1. c[k] \in ASet(a)
      BY <1>3, <1>7 DEF ASet
    <3>2. c[l] \in ASet(b)
      BY <1>3, <1>7 DEF ASet
    <3>3. QED
      BY <3>1, <3>2
  <2>5. CASE i \in 1..n /\ j \in n + 1..n + m
    BY <2>1, <2>4, <2>5
  <2>6. CASE j \in 1..n /\ i \in n + 1..n + m
    BY <2>1, <2>4, <2>6
  <2>7. QED
    BY <1>8, <2>2, <2>3, <2>5, <2>6
<1>12. QED
  BY <1>1, <1>2, <1>4, <1>5, <1>10, <1>11 DEF Joined, Ids

\* A row of one id.
LEMMA OneId ==
  ASSUME NEW x \in Nat
  PROVE  Ids(<<x>>) /\ Len(<<x>>) = 1 /\ ASet(<<x>>) = {x}
<1>1. <<x>> \in Seq(Nat) /\ Len(<<x>>) = 1 /\ DOMAIN <<x>> = {1}
  OBVIOUS
<1>2. \A i \in DOMAIN <<x>> : <<x>>[i] = x
  BY <1>1
<1>3. QED
  BY <1>1, <1>2 DEF Ids, Injective, ASet

\* Appending one id that is new.
LEMMA RowAppends ==
  ASSUME NEW a, Ids(a), NEW x \in Nat, x \notin ASet(a)
  PROVE  Joined(Append(a, x), a, <<x>>)
<1>1. Append(a, x) = a \o <<x>>
  BY AppendIsConcat DEF Ids
<1>2. PICK b : b = <<x>>
  OBVIOUS
<1>3. Ids(b) /\ ASet(a) \cap ASet(b) = {}
  BY <1>2, OneId
<1>4. Joined(a \o b, a, b)
  BY <1>3, RowsJoin
<1>5. QED
  BY <1>1, <1>2, <1>4

\* The empty row.
LEMMA NoIds ==
  ASSUME NEW a, Ids(a)
  PROVE  Len(a) = 0 <=> ASet(a) = {}
<1>1. Len(a) \in Nat /\ DOMAIN a = 1..Len(a)
  BY SetOf DEF Ids
<1>2. QED
  BY <1>1 DEF ASet

\* A row without one of its ids.
Loses(t, s, x) == Ids(t) /\ Len(t) = Len(s) - 1 /\ ASet(t) = ASet(s) \ {x}

\* RemoveAt takes out the id at its position.
LEMMA WithoutLoses ==
  ASSUME NEW s, Ids(s), NEW i \in 1..Len(s)
  PROVE  Loses(Without(s, i), s, s[i])
<1>1. PICK n : n = Len(s)
  OBVIOUS
<1>2. n \in Nat /\ DOMAIN s = 1..n /\ i \in 1..n /\ ASet(s) = Piece(s, 1, n)
  BY <1>1, SetOf DEF Ids
<1>3. PICK a : a = SubSeq(s, 1, i - 1)
  OBVIOUS
<1>4. PICK b : b = SubSeq(s, i + 1, n)
  OBVIOUS
<1>5. Ids(a) /\ Len(a) = i - 1 /\ ASet(a) = Piece(s, 1, i - 1)
  <2>1. 1 \in Nat \ {0} /\ i - 1 \in Nat /\ i - 1 <= Len(s) /\ 1 <= (i - 1) + 1 /\ (i - 1) - 1 + 1 = i - 1
    BY <1>1, <1>2
  <2>2. QED
    BY <1>3, <2>1, PieceOf
<1>6. Ids(b) /\ Len(b) = n - i /\ ASet(b) = Piece(s, i + 1, n)
  <2>1. i + 1 \in Nat \ {0} /\ n <= Len(s) /\ i + 1 <= n + 1 /\ n - (i + 1) + 1 = n - i
    BY <1>1, <1>2
  <2>2. QED
    BY <1>2, <1>4, <2>1, PieceOf
<1>7. \A j \in 1..n, k \in 1..n : s[j] = s[k] => j = k
  BY <1>2 DEF Ids, Injective
<1>8. ASet(a) \cap ASet(b) = {}
  <2>1. \A j \in 1..i - 1, k \in i + 1..n : s[j] # s[k]
    BY <1>2, <1>7
  <2>2. QED
    BY <1>5, <1>6, <2>1 DEF Piece
<1>9. Joined(a \o b, a, b)
  BY <1>5, <1>6, <1>8, RowsJoin
<1>10. ASet(a) \cup ASet(b) = ASet(s) \ {s[i]}
  <2>1. 1..n = (1..i - 1) \cup {i} \cup (i + 1..n)
    BY <1>2
  <2>2. \A j \in (1..i - 1) \cup (i + 1..n) : j \in 1..n /\ s[j] # s[i]
    BY <1>2, <1>7
  <2>3. QED
    BY <1>2, <1>5, <1>6, <2>1, <2>2 DEF Piece
<1>11. Len(a) + Len(b) = n - 1
  BY <1>2, <1>5, <1>6
<1>12. Without(s, i) = a \o b
  BY <1>1, <1>3, <1>4 DEF Without
<1>13. QED
  BY <1>1, <1>9, <1>10, <1>11, <1>12 DEF Loses, Joined

-------------------------------------------------------------------------------
\* A split under way: the rows of the two sides and the row u that is left
\* divide the ids of e, and the sides have their boxes.
Partly(d, R, e, u) ==
  /\ d = [low |-> d.low, high |-> d.high, box1 |-> d.box1, box2 |-> d.box2]
  /\ Ids(d.low) /\ Ids(d.high) /\ Ids(u)
  /\ ASet(d.low) \cup ASet(d.high) \cup ASet(u) = ASet(e)
  /\ ASet(d.low) \cap ASet(d.high) = {} /\ ASet(d.low) \cap ASet(u) = {} /\ ASet(d.high) \cap ASet(u) = {}
  /\ Len(d.low) + Len(d.high) + Len(u) = Len(e)
  /\ Boxed(d, R)

\* A side takes more: d1 is d whose low side takes the row w from u, v is
\* what is then left.
TakesLow(d1, d, R, w) ==
  /\ d1 = [low |-> d1.low, high |-> d.high, box1 |-> d1.box1, box2 |-> d.box2]
  /\ Joined(d1.low, d.low, w)
  /\ BoxOf(d1.box1, BoxesOf(R, ASet(d.low)) \cup BoxesOf(R, ASet(w)))
TakesHigh(d1, d, R, w) ==
  /\ d1 = [low |-> d.low, high |-> d1.high, box1 |-> d.box1, box2 |-> d1.box2]
  /\ Joined(d1.high, d.high, w)
  /\ BoxOf(d1.box2, BoxesOf(R, ASet(d.high)) \cup BoxesOf(R, ASet(w)))
Gives(v, u, w) ==
  /\ Ids(v) /\ Ids(w) /\ ASet(v) = ASet(u) \ ASet(w) /\ ASet(w) \subseteq ASet(u)
  /\ Len(v) + Len(w) = Len(u)

LowTook(d1, d, R, e, v, w) ==
  Partly(d1, R, e, v) /\ Len(d1.low) = Len(d.low) + Len(w) /\ d1.high = d.high
HighTook(d1, d, R, e, v, w) ==
  Partly(d1, R, e, v) /\ Len(d1.high) = Len(d.high) + Len(w) /\ d1.low = d.low

\* Ids that were left join the low side.
LEMMA LowTakes ==
  ASSUME NEW e, NEW R, NEW d, NEW u, Partly(d, R, e, u), NEW w, NEW v, Gives(v, u, w),
         NEW d1, TakesLow(d1, d, R, w)
  PROVE  LowTook(d1, d, R, e, v, w)
<1>1. d1.high = d.high /\ d1.box2 = d.box2
  BY DEF TakesLow
<1>2. Ids(d1.low) /\ Len(d1.low) = Len(d.low) + Len(w) /\ ASet(d1.low) = ASet(d.low) \cup ASet(w)
  BY DEF TakesLow, Joined
<1>3. Boxed(d1, R)
  <2>1. BoxesOf(R, ASet(d1.low)) = BoxesOf(R, ASet(d.low)) \cup BoxesOf(R, ASet(w))
    BY <1>2, BoxesJoin
  <2>2. QED
    BY <1>1, <2>1 DEF Boxed, TakesLow, Partly
<1>4. Len(d1.low) + Len(d1.high) + Len(v) = Len(e)
  <2>1. Len(d.low) \in Nat /\ Len(d.high) \in Nat /\ Len(u) \in Nat /\ Len(v) \in Nat /\ Len(w) \in Nat
    BY SetOf DEF Partly, Gives, Ids
  <2>2. Len(d.low) + Len(d.high) + Len(u) = Len(e) /\ Len(v) + Len(w) = Len(u)
    BY DEF Partly, Gives
  <2>3. PICK a, b, c, x, y \in Nat : a = Len(d.low) /\ b = Len(d.high) /\ c = Len(u) /\ x = Len(v) /\ y = Len(w)
    BY <2>1
  <2>4. PICK n : n = Len(e)
    OBVIOUS
  <2>5. a + b + c = n /\ x + y = c
    BY <2>2, <2>3, <2>4
  <2>6. (a + y) + b + x = n
    BY <2>5
  <2>7. QED
    BY <1>1, <1>2, <2>3, <2>4, <2>6
<1>5. /\ ASet(d1.low) \cup ASet(d1.high) \cup ASet(v) = ASet(e)
      /\ ASet(d1.low) \cap ASet(d1.high) = {} /\ ASet(d1.low) \cap ASet(v) = {} /\ ASet(d1.high) \cap ASet(v) = {}
  BY <1>1, <1>2 DEF Partly, Gives
<1>6. d1 = [low |-> d1.low, high |-> d1.high, box1 |-> d1.box1, box2 |-> d1.box2]
  BY <1>1 DEF TakesLow
<1>7. Ids(d1.high) /\ Ids(v)
  BY <1>1 DEF Partly, Gives
<1>8. QED
  BY <1>1, <1>2, <1>3, <1>4, <1>5, <1>6, <1>7 DEF Partly, LowTook

\* Ids that were left join the high side.
LEMMA HighTakes ==
  ASSUME NEW e, NEW R, NEW d, NEW u, Partly(d, R, e, u), NEW w, NEW v, Gives(v, u, w),
         NEW d1, TakesHigh(d1, d, R, w)
  PROVE  HighTook(d1, d, R, e, v, w)
<1>1. d1.low = d.low /\ d1.box1 = d.box1
  BY DEF TakesHigh
<1>2. Ids(d1.high) /\ Len(d1.high) = Len(d.high) + Len(w) /\ ASet(d1.high) = ASet(d.high) \cup ASet(w)
  BY DEF TakesHigh, Joined
<1>3. Boxed(d1, R)
  <2>1. BoxesOf(R, ASet(d1.high)) = BoxesOf(R, ASet(d.high)) \cup BoxesOf(R, ASet(w))
    BY <1>2, BoxesJoin
  <2>2. QED
    BY <1>1, <2>1 DEF Boxed, TakesHigh, Partly
<1>4. Len(d1.low) + Len(d1.high) + Len(v) = Len(e)
  <2>1. Len(d.low) \in Nat /\ Len(d.high) \in Nat /\ Len(u) \in Nat /\ Len(v) \in Nat /\ Len(w) \in Nat
    BY SetOf DEF Partly, Gives, Ids
  <2>2. Len(d.low) + Len(d.high) + Len(u) = Len(e) /\ Len(v) + Len(w) = Len(u)
    BY DEF Partly, Gives
  <2>3. PICK a, b, c, x, y \in Nat : a = Len(d.low) /\ b = Len(d.high) /\ c = Len(u) /\ x = Len(v) /\ y = Len(w)
    BY <2>1
  <2>4. PICK n : n = Len(e)
    OBVIOUS
  <2>5. a + b + c = n /\ x + y = c
    BY <2>2, <2>3, <2>4
  <2>6. a + (b + y) + x = n
    BY <2>5
  <2>7. QED
    BY <1>1, <1>2, <2>3, <2>4, <2>6
<1>5. /\ ASet(d1.low) \cup ASet(d1.high) \cup ASet(v) = ASet(e)
      /\ ASet(d1.low) \cap ASet(d1.high) = {} /\ ASet(d1.low) \cap ASet(v) = {} /\ ASet(d1.high) \cap ASet(v) = {}
  BY <1>1, <1>2 DEF Partly, Gives
<1>6. d1 = [low |-> d1.low, high |-> d1.high, box1 |-> d1.box1, box2 |-> d1.box2]
  BY <1>1 DEF TakesHigh
<1>7. Ids(d1.low) /\ Ids(v)
  BY <1>1 DEF Partly, Gives
<1>8. QED
  BY <1>1, <1>2, <1>3, <1>4, <1>5, <1>6, <1>7 DEF Partly, HighTook

\* One id of u joins a side.
LEMMA OneLeaves ==
  ASSUME NEW u, Ids(u), NEW i \in 1..Len(u)
  PROVE  Gives(Without(u, i), u, <<u[i]>>)
<1>1. PICK x : x = u[i]
  OBVIOUS
<1>2. x \in Nat /\ x \in ASet(u) /\ Len(u) \in Nat
  BY <1>1, SetOf DEF Ids, ASet
<1>3. Loses(Without(u, i), u, x)
  BY <1>1, WithoutLoses
<1>4. Ids(<<x>>) /\ Len(<<x>>) = 1 /\ ASet(<<x>>) = {x}
  BY <1>2, OneId
<1>5. PICK v : v = Without(u, i)
  OBVIOUS
<1>6. Ids(v) /\ Len(v) = Len(u) - 1 /\ ASet(v) = ASet(u) \ {x}
  BY <1>3, <1>5 DEF Loses
<1>7. Len(v) + 1 = Len(u)
  <2>1. PICK n : n = Len(u)
    OBVIOUS
  <2>2. PICK m : m = Len(v)
    OBVIOUS
  <2>3. n \in Nat /\ m = n - 1
    BY <1>2, <1>6, <2>1, <2>2
  <2>4. m + 1 = n
    BY <2>3
  <2>5. QED
    BY <2>1, <2>2, <2>4
<1>8. PICK w : w = <<x>>
  OBVIOUS
<1>9. Gives(v, u, w)
  BY <1>2, <1>4, <1>6, <1>7, <1>8 DEF Gives
<1>10. QED
  BY <1>1, <1>5, <1>8, <1>9

\* The next of the ids left joins either side.
LEMMA OneJoins ==
  ASSUME NEW e, NEW R, \A x \in ASet(e) : R[x] \in RectT, NEW d, NEW u, Partly(d, R, e, u),
         NEW i \in 1..Len(u)
  PROVE  /\ TakesLow([d EXCEPT !.low = Append(@, u[i]), !.box1 = Merge(@, R[u[i]])], d, R, <<u[i]>>)
         /\ TakesHigh([d EXCEPT !.high = Append(@, u[i]), !.box2 = Merge(@, R[u[i]])], d, R, <<u[i]>>)
<1>1. PICK x : x = u[i]
  OBVIOUS
<1>2. x \in Nat /\ x \in ASet(u)
  BY <1>1, SetOf DEF Ids, ASet, Partly
<1>3. x \in ASet(e) /\ x \notin ASet(d.low) /\ x \notin ASet(d.high)
  BY <1>2 DEF Partly
<1>4. Joined(Append(d.low, x), d.low, <<x>>) /\ Joined(Append(d.high, x), d.high, <<x>>)
  BY <1>2, <1>3, RowAppends DEF Partly
<1>5. R[x] \in RectT /\ BoxOf(R[x], {R[x]}) /\ BoxesOf(R, ASet(<<x>>)) = {R[x]}
  <2>1. R[x] \in RectT
    BY <1>3
  <2>2. ASet(<<x>>) = {x}
    BY <1>2, OneId
  <2>3. QED
    BY <2>1, <2>2, BoxOfOne DEF BoxesOf
<1>6. PICK T : T = BoxesOf(R, ASet(<<x>>))
  OBVIOUS
<1>7. PICK S1 : S1 = BoxesOf(R, ASet(d.low))
  OBVIOUS
<1>8. PICK S2 : S2 = BoxesOf(R, ASet(d.high))
  OBVIOUS
<1>9. \A y \in S1 \cup S2 \cup T : y \in RectT
  BY <1>5, <1>6, <1>7, <1>8 DEF Partly, BoxesOf
<1>10. BoxOf(d.box1, S1) /\ BoxOf(d.box2, S2) /\ BoxOf(R[x], T)
  BY <1>5, <1>6, <1>7, <1>8 DEF Partly, Boxed
<1>11. BoxOf(Merge(d.box1, R[x]), S1 \cup T)
  BY <1>9, <1>10, BoxOfBoth
<1>12. BoxOf(Merge(d.box2, R[x]), S2 \cup T)
  BY <1>9, <1>10, BoxOfBoth
<1>13. d = [low |-> d.low, high |-> d.high, box1 |-> d.box1, box2 |-> d.box2]
  BY DEF Partly
<1>14. TakesLow([d EXCEPT !.low = Append(@, x), !.box1 = Merge(@, R[x])], d, R, <<x>>)
  <2>1. PICK a : a = [d EXCEPT !.low = Append(@, x), !.box1 = Merge(@, R[x])]
    OBVIOUS
  <2>2. a = [low |-> Append(d.low, x), high |-> d.high, box1 |-> Merge(d.box1, R[x]), box2 |-> d.box2]
    BY <1>13, <2>1
  <2>3. TakesLow(a, d, R, <<x>>)
    BY <1>4, <1>6, <1>7, <1>11, <2>2 DEF TakesLow
  <2>4. QED
    BY <2>1, <2>3
<1>15. TakesHigh([d EXCEPT !.high = Append(@, x), !.box2 = Merge(@, R[x])], d, R, <<x>>)
  <2>1. PICK a : a = [d EXCEPT !.high = Append(@, x), !.box2 = Merge(@, R[x])]
    OBVIOUS
  <2>2. a = [low |-> d.low, high |-> Append(d.high, x), box1 |-> d.box1, box2 |-> Merge(d.box2, R[x])]
    BY <1>13, <2>1
  <2>3. TakesHigh(a, d, R, <<x>>)
    BY <1>4, <1>6, <1>8, <1>12, <2>2 DEF TakesHigh
  <2>4. QED
    BY <2>1, <2>3
<1>16. QED
  BY <1>1, <1>14, <1>15

\* All that is left joins a side.
LEMMA AllJoin ==
  ASSUME NEW e, NEW R, \A x \in ASet(e) : R[x] \in RectT, NEW d, NEW u, Partly(d, R, e, u),
         u # <<>>
  PROVE  /\ TakesLow([d EXCEPT !.low = @ \o u, !.box1 = Merge(@, MergeRange(R, u))], d, R, u)
         /\ TakesHigh([d EXCEPT !.high = @ \o u, !.box2 = Merge(@, MergeRange(R, u))], d, R, u)
         /\ Gives(<<>>, u, u)
<1>1. Ids(u) /\ Ids(d.low) /\ Ids(d.high) /\ ASet(u) \subseteq ASet(e) /\ Len(u) \in Nat
  BY SetOf DEF Partly, Ids
<1>2. Joined(d.low \o u, d.low, u) /\ Joined(d.high \o u, d.high, u)
  BY <1>1, RowsJoin DEF Partly
<1>3. PICK T : T = BoxesOf(R, ASet(u))
  OBVIOUS
<1>4. PICK S1 : S1 = BoxesOf(R, ASet(d.low))
  OBVIOUS
<1>5. PICK S2 : S2 = BoxesOf(R, ASet(d.high))
  OBVIOUS
<1>6. PICK m : m = MergeRange(R, u)
  OBVIOUS
<1>7. \A y \in S1 \cup S2 \cup T : y \in RectT
  BY <1>3, <1>4, <1>5 DEF Partly, BoxesOf
<1>8. BoxOf(d.box1, S1) /\ BoxOf(d.box2, S2) /\ BoxOf(m, T)
  <2>1. BoxOf(m, T)
    BY <1>1, <1>3, <1>6, MergeRangeBox
  <2>2. QED
    BY <1>4, <1>5, <2>1 DEF Partly, Boxed
<1>9. BoxOf(Merge(d.box1, m), S1 \cup T)
  BY <1>7, <1>8, BoxOfBoth
<1>10. BoxOf(Merge(d.box2, m), S2 \cup T)
  BY <1>7, <1>8, BoxOfBoth
<1>11. d = [low |-> d.low, high |-> d.high, box1 |-> d.box1, box2 |-> d.box2]
  BY DEF Partly
<1>12. TakesLow([d EXCEPT !.low = @ \o u, !.box1 = Merge(@, m)], d, R, u)
  <2>1. PICK a : a = [d EXCEPT !.low = @ \o u, !.box1 = Merge(@, m)]
    OBVIOUS
  <2>2. a = [low |-> d.low \o u, high |-> d.high, box1 |-> Merge(d.box1, m), box2 |-> d.box2]
    BY <1>11, <2>1
  <2>3. TakesLow(a, d, R, u)
    BY <1>2, <1>3, <1>4, <1>9, <2>2 DEF TakesLow
  <2>4. QED
    BY <2>1, <2>3
<1>13. TakesHigh([d EXCEPT !.high = @ \o u, !.box2 = Merge(@, m)], d, R, u)
  <2>1. PICK a : a = [d EXCEPT !.high = @ \o u, !.box2 = Merge(@, m)]
    OBVIOUS
  <2>2. a = [low |-> d.low, high |-> d.high \o u, box1 |-> d.box1, box2 |-> Merge(d.box2, m)]
    BY <1>11, <2>1
  <2>3. TakesHigh(a, d, R, u)
    BY <1>2, <1>3, <1>5, <1>10, <2>2 DEF TakesHigh
  <2>4. QED
    BY <2>1, <2>3
<1>14. Gives(<<>>, u, u)
  <2>1. Ids(<<>>) /\ Len(<<>>) = 0 /\ ASet(<<>>) = {}
    BY DEF Ids, Injective, ASet
  <2>2. QED
    BY <1>1, <2>1 DEF Gives
<1>15. QED
  BY <1>6, <1>12, <1>13, <1>14

\* With nothing left the sides divide the row.
LEMMA NothingLeft ==
  ASSUME NEW e, NEW R, NEW d, NEW u, Partly(d, R, e, u), Len(u) = 0,
         Len(d.low) >= minimum_entry, Len(d.high) >= minimum_entry
  PROVE  Divides(d, R, e)
<1>1. ASet(u) = {}
  BY NoIds DEF Partly
<1>2. Len(d.low) + Len(d.high) = Len(e)
  <2>1. PICK a, b \in Nat : a = Len(d.low) /\ b = Len(d.high)
    BY SetOf DEF Partly, Ids
  <2>2. PICK n : n = Len(e)
    OBVIOUS
  <2>3. a + b + 0 = n
    BY <2>1, <2>2 DEF Partly
  <2>4. a + b = n
    BY <2>3
  <2>5. QED
    BY <2>1, <2>2, <2>4
<1>3. QED
  BY <1>1, <1>2 DEF Partly, Divides, Shares

-------------------------------------------------------------------------------
\* Greene: a row in two halves, the second turned.
IsTurned(t, s, n, h) == Ids(t) /\ Len(t) = h /\ ASet(t) = Piece(s, n - h + 1, n)

LEMMA TurnedPiece ==
  ASSUME NEW s, Ids(s), NEW h \in Nat, h <= Len(s)
  PROVE  IsTurned(FromEnd(s, h), s, Len(s), h)
<1>1. PICK n : n = Len(s)
  OBVIOUS
<1> DEFINE t == FromEnd(s, h)
<1>2. t = [i \in 1..h |-> s[n + 1 - i]]
  BY <1>1 DEF FromEnd
<1> HIDE DEF t
<1>3. n \in Nat /\ DOMAIN s = 1..n /\ s \in Seq(Nat) /\ h <= n
  BY <1>1, SetOf DEF Ids
<1>4. \A i \in 1..h : n + 1 - i \in 1..n /\ n + 1 - i \in n - h + 1..n
  BY <1>3
<1>5. t \in Seq(Nat) /\ Len(t) = h /\ DOMAIN t = 1..h
  <2>1. \A i \in 1..h : s[n + 1 - i] \in Nat
    BY <1>3, <1>4
  <2>2. t \in [1..h -> Nat]
    BY <1>2, <2>1
  <2>3. t \in Seq(Nat)
    BY <2>2, SeqDef
  <2>4. QED
    BY <2>2, <2>3
<1>6. Injective(t)
  <2>1. SUFFICES ASSUME NEW i \in 1..h, NEW j \in 1..h, t[i] = t[j] PROVE i = j
    BY <1>5 DEF Injective
  <2>2. s[n + 1 - i] = s[n + 1 - j]
    BY <1>2, <2>1
  <2>3. n + 1 - i = n + 1 - j
    BY <1>3, <1>4, <2>2 DEF Ids, Injective
  <2>4. QED
    BY <1>3, <2>3
<1>7. ASet(t) = Piece(s, n - h + 1, n)
  <2>1. \A i \in 1..h : t[i] \in Piece(s, n - h + 1, n)
    BY <1>2, <1>4 DEF Piece
  <2>2. ASSUME NEW k \in n - h + 1..n PROVE \E i \in 1..h : t[i] = s[k]
    <3>1. n + 1 - k \in 1..h /\ n + 1 - (n + 1 - k) = k
      BY <1>3
    <3>2. t[n + 1 - k] = s[k]
      BY <1>2, <3>1
    <3>3. QED
      BY <3>1, <3>2
  <2>3. \A x \in ASet(t) : x \in Piece(s, n - h + 1, n)
    BY <1>5, <2>1 DEF ASet
  <2>4. ASSUME NEW x \in Piece(s, n - h + 1, n) PROVE x \in ASet(t)
    <3>1. PICK k \in n - h + 1..n : x = s[k]
      BY DEF Piece
    <3>2. PICK i \in 1..h : t[i] = x
      BY <2>2, <3>1
    <3>3. QED
      BY <1>5, <3>2 DEF ASet
  <2>5. QED
    BY <2>3, <2>4
<1>8. IsTurned(t, s, n, h)
  BY <1>5, <1>6, <1>7 DEF Ids, IsTurned
<1>9. QED
  BY <1>1, <1>8 DEF t

\* The two halves of a row divide it.
LEMMA InHalvesDivides ==
  ASSUME FanOuts, NEW e, Overfull(e), NEW R, \A x \in ASet(e) : R[x] \in RectT,
         NEW s, Rearranges(s, e)
  PROVE  Divides(InHalves(R, s), R, e)
<1>1. Ids(s) /\ Len(s) = maximum_entry + 1 /\ ASet(s) = ASet(e) /\ Len(s) = Len(e)
  BY DEF Rearranges, Overfull
<1>2. PICK n : n = Len(s)
  OBVIOUS
<1>3. PICK h : h = n \div 2
  OBVIOUS
<1>4. /\ n \in Nat /\ h \in Nat /\ h >= minimum_entry /\ h >= 1 /\ h <= n
      /\ n % 2 = 0 => n = h + h
      /\ n % 2 # 0 => n = h + h + 1
  <2>1. n \in Nat /\ minimum_entry \in Nat /\ minimum_entry >= 2 /\ 2 * minimum_entry <= n
    BY <1>1, <1>2 DEF FanOuts
  <2>2. h \in Nat /\ n = 2 * h + (n % 2) /\ n % 2 \in {0, 1}
    BY <1>3, <2>1
  <2>3. PICK r \in {0, 1} : r = n % 2
    BY <2>2
  <2>4. n = 2 * h + r
    BY <2>2, <2>3
  <2>5. h >= minimum_entry /\ h >= 1 /\ h <= n
    BY <2>1, <2>2, <2>4
  <2>6. QED
    BY <2>1, <2>2, <2>3, <2>4, <2>5
<1>5. PICK low : low = SubSeq(s, 1, h)
  OBVIOUS
<1>6. PICK high : high = FromEnd(s, h)
  OBVIOUS
<1>7. Ids(low) /\ Len(low) = h /\ ASet(low) = Piece(s, 1, h)
  <2>1. 1 \in Nat \ {0} /\ h <= Len(s) /\ 1 <= h + 1 /\ h - 1 + 1 = h
    BY <1>2, <1>4
  <2>2. QED
    BY <1>1, <1>4, <1>5, <2>1, PieceOf
<1>8. Ids(high) /\ Len(high) = h /\ ASet(high) = Piece(s, n - h + 1, n)
  <2>1. IsTurned(high, s, n, h)
    BY <1>1, <1>2, <1>4, <1>6, TurnedPiece
  <2>2. QED
    BY <2>1 DEF IsTurned
<1>9. PICK d : d = Halves(R, low, high)
  OBVIOUS
<1>10. d = [low |-> low, high |-> high, box1 |-> MergeRange(R, low), box2 |-> MergeRange(R, high)]
  BY <1>9 DEF Halves
<1>11. ASet(s) = Piece(s, 1, n) /\ DOMAIN s = 1..n
  BY <1>1, <1>2, SetOf DEF Ids
<1>12. \A i \in 1..n, j \in 1..n : s[i] = s[j] => i = j
  BY <1>1, <1>11 DEF Ids, Injective
<1>13. ASet(low) \subseteq ASet(e) /\ ASet(high) \subseteq ASet(e) /\ ASet(low) \cap ASet(high) = {}
  <2>1. (1..h) \subseteq 1..n /\ (n - h + 1..n) \subseteq 1..n
    BY <1>4
  <2>2. \A i \in 1..h, j \in n - h + 1..n : i # j
    BY <1>4
  <2>3. \A i \in 1..h, j \in n - h + 1..n : s[i] # s[j]
    BY <1>12, <2>1, <2>2
  <2>4. QED
    BY <1>1, <1>7, <1>8, <1>11, <2>1, <2>3 DEF Piece
<1>14. Boxed(d, R)
  <2>1. low # <<>> /\ high # <<>>
    <3>1. Len(low) # 0 /\ Len(high) # 0
      BY <1>4, <1>7, <1>8
    <3>2. QED
      BY <3>1, EmptySeq
  <2>2. BoxOf(MergeRange(R, low), BoxesOf(R, ASet(low)))
    BY <1>7, <1>13, <2>1, MergeRangeBox
  <2>3. BoxOf(MergeRange(R, high), BoxesOf(R, ASet(high)))
    BY <1>8, <1>13, <2>1, MergeRangeBox
  <2>4. QED
    BY <1>10, <2>2, <2>3 DEF Boxed
<1>15. CASE n % 2 = 0
  <2>1. InHalves(R, s) = d
    BY <1>2, <1>3, <1>5, <1>6, <1>9, <1>15 DEF InHalves
  <2>2. ASet(low) \cup ASet(high) = ASet(e)
    <3>1. 1..n = (1..h) \cup (n - h + 1..n)
      BY <1>4, <1>15
    <3>2. QED
      BY <1>1, <1>7, <1>8, <1>11, <3>1 DEF Piece
  <2>3. Len(low) + Len(high) = Len(e)
    <3>1. n = h + h
      BY <1>4, <1>15
    <3>2. QED
      BY <1>1, <1>2, <1>7, <1>8, <3>1
  <2>4. Len(low) >= minimum_entry /\ Len(high) >= minimum_entry
    BY <1>4, <1>7, <1>8
  <2>5. QED
    BY <1>7, <1>8, <1>10, <1>13, <1>14, <2>1, <2>2, <2>3, <2>4 DEF Divides, Shares
<1>16. CASE n % 2 # 0
  <2>1. PICK x : x = s[h + 1]
    OBVIOUS
  <2>2. InHalves(R, s) = WithOdd(d, x, R[x])
    <3>1. Len(s) % 2 # 0 /\ h = Len(s) \div 2
      BY <1>2, <1>3, <1>16
    <3>2. InHalves(R, s) = WithOdd(Halves(R, SubSeq(s, 1, h), FromEnd(s, h)), s[h + 1], R[s[h + 1]])
      BY <3>1, Zenon DEF InHalves
    <3>3. QED
      BY <1>5, <1>6, <1>9, <2>1, <3>2
  <2>3. n = h + h + 1 /\ h + 1 \in 1..n
    BY <1>4, <1>16
  <2>4. x \in Nat /\ x \in ASet(e)
    <3>1. x \in ASet(s)
      BY <1>11, <2>1, <2>3 DEF ASet
    <3>2. ASet(s) \subseteq Nat
      BY <1>1, SetOf DEF Ids
    <3>3. QED
      BY <1>1, <3>1, <3>2
  <2>5. PICK u : u = <<x>>
    OBVIOUS
  <2>6. Ids(u) /\ Len(u) = 1 /\ ASet(u) = {x} /\ u[1] = x
    BY <2>4, <2>5, OneId
  <2>7. Partly(d, R, e, u)
    <3>1. ASet(low) \cup ASet(high) \cup ASet(u) = ASet(e)
      <4>1. 1..n = (1..h) \cup (n - h + 1..n) \cup {h + 1}
        BY <1>4, <2>3
      <4>2. QED
        BY <1>1, <1>7, <1>8, <1>11, <2>1, <2>6, <4>1 DEF Piece
    <3>2. x \notin ASet(low) /\ x \notin ASet(high)
      <4>1. \A i \in (1..h) \cup (n - h + 1..n) : i \in 1..n /\ i # h + 1
        BY <1>4, <2>3
      <4>2. \A i \in (1..h) \cup (n - h + 1..n) : s[i] # x
        BY <1>12, <2>1, <2>3, <4>1
      <4>3. QED
        BY <1>7, <1>8, <4>2 DEF Piece
    <3>3. Len(low) + Len(high) + Len(u) = Len(e)
      BY <1>1, <1>2, <1>7, <1>8, <2>3, <2>6
    <3>4. ASet(low) \cap ASet(u) = {} /\ ASet(high) \cap ASet(u) = {}
      BY <2>6, <3>2
    <3>5. QED
      BY <1>7, <1>8, <1>10, <1>13, <1>14, <2>6, <3>1, <3>3, <3>4 DEF Partly
  <2>8. PICK v : v = Without(u, 1)
    OBVIOUS
  <2>9. Gives(v, u, <<u[1]>>) /\ 1 \in 1..Len(u)
    BY <2>6, <2>8, OneLeaves
  <2>10. Len(v) = 0
    <3>1. Len(v) \in Nat /\ Len(v) + Len(<<u[1]>>) = Len(u) /\ Len(<<u[1]>>) = 1
      BY <2>9, SetOf DEF Gives, Ids
    <3>2. QED
      BY <2>6, <3>1
  <2>11. PICK d1 : d1 = [d EXCEPT !.low = Append(@, u[1]), !.box1 = Merge(@, R[u[1]])]
    OBVIOUS
  <2>12. PICK d2 : d2 = [d EXCEPT !.high = Append(@, u[1]), !.box2 = Merge(@, R[u[1]])]
    OBVIOUS
  <2>13. TakesLow(d1, d, R, <<u[1]>>) /\ TakesHigh(d2, d, R, <<u[1]>>)
    BY <2>7, <2>9, <2>11, <2>12, OneJoins
  <2>14. PICK w : w = <<u[1]>>
    OBVIOUS
  <2>15. Gives(v, u, w) /\ TakesLow(d1, d, R, w) /\ TakesHigh(d2, d, R, w) /\ Len(w) = 1
    BY <2>9, <2>13, <2>14
  <2>16. Partly(d1, R, e, v) /\ Len(d1.low) = Len(d.low) + Len(w) /\ d1.high = d.high
    <3>1. LowTook(d1, d, R, e, v, w)
      BY <2>7, <2>15, LowTakes
    <3>2. QED
      BY <3>1 DEF LowTook
  <2>17. Partly(d2, R, e, v) /\ Len(d2.high) = Len(d.high) + Len(w) /\ d2.low = d.low
    <3>1. HighTook(d2, d, R, e, v, w)
      BY <2>7, <2>15, HighTakes
    <3>2. QED
      BY <3>1 DEF HighTook
  <2>18. Len(d.low) = h /\ Len(d.high) = h
    BY <1>7, <1>8, <1>10
  <2>19. minimum_entry \in Nat /\ h >= minimum_entry /\ h + 1 >= minimum_entry
    BY <1>4 DEF FanOuts
  <2>20. Divides(d1, R, e)
    <3>1. Len(d1.low) = h + 1 /\ Len(d1.high) = h
      BY <2>15, <2>16, <2>18
    <3>2. Len(d1.low) >= minimum_entry /\ Len(d1.high) >= minimum_entry
      BY <2>19, <3>1
    <3>3. QED
      BY <2>10, <2>16, <3>2, NothingLeft
  <2>21. Divides(d2, R, e)
    <3>1. Len(d2.high) = h + 1 /\ Len(d2.low) = h
      BY <2>15, <2>17, <2>18
    <3>2. Len(d2.low) >= minimum_entry /\ Len(d2.high) >= minimum_entry
      BY <2>19, <3>1
    <3>3. QED
      BY <2>10, <2>17, <3>2, NothingLeft
  <2>22. WithOdd(d, x, R[x]) = d1 \/ WithOdd(d, x, R[x]) = d2
    <3>1. d1 = [d EXCEPT !.low = Append(@, x), !.box1 = Merge(d.box1, R[x])]
      BY <1>10, <2>6, <2>11
    <3>2. d2 = [d EXCEPT !.high = Append(@, x), !.box2 = Merge(d.box2, R[x])]
      BY <1>10, <2>6, <2>12
    <3>3. QED
      BY <3>1, <3>2 DEF WithOdd
  <2>23. QED
    BY <2>2, <2>20, <2>21, <2>22
<1>17. QED
  BY <1>15, <1>16

\* So Greene's split divides.
LEMMA GreeneDivides ==
  ASSUME FanOuts, NEW e, Overfull(e), NEW R, \A x \in ASet(e) : R[x] \in RectT, NEW node
  PROVE  Divides(Greene(R, e, node), R, e)
<1>1. PICK order : order = GreeneOrder(R, e, node)
  OBVIOUS
<1>2. order \in Orders4
  BY <1>1 DEF GreeneOrder, Orders4
<1>3. Rearranges(Sorted(R, e, order), e)
  BY <1>2, SortedRearranges DEF Overfull
<1>4. QED
  BY <1>1, <1>3, InHalvesDivides DEF Greene

-------------------------------------------------------------------------------
\* Quadratic: a stage of the distribution, at which what is left suffices for
\* either side.
SplitT == [low : Seq(Nat), high : Seq(Nat), box1 : RectT, box2 : RectT]
StageT == [split : SplitT, left : Seq(Nat)]
Suffices(a, R, e) ==
  /\ Partly(a.split, R, e, a.left)
  /\ Len(a.left) + Len(a.split.low) >= minimum_entry
  /\ Len(a.left) + Len(a.split.high) >= minimum_entry

\* A split of rows and boxes.
LEMMA SplitIsT ==
  ASSUME NEW d, NEW R, NEW e, NEW u, Partly(d, R, e, u)
  PROVE  [split |-> d, left |-> u] \in StageT
<1>1. d.low \in Seq(Nat) /\ d.high \in Seq(Nat) /\ u \in Seq(Nat) /\ d.box1 \in RectT /\ d.box2 \in RectT
  BY DEF Partly, Ids, Boxed, BoxOf
<1>2. d \in SplitT
  <2>1. d = [low |-> d.low, high |-> d.high, box1 |-> d.box1, box2 |-> d.box2]
    BY DEF Partly
  <2>2. QED
    BY <1>1, <2>1 DEF SplitT
<1>3. QED
  BY <1>1, <1>2 DEF StageT

\* The next entry to be assigned is one of those left.
LEMMA NextIsLeft ==
  ASSUME NEW R, NEW u, Ids(u), u # <<>>, \A x \in ASet(u) : R[x] \in RectT,
         NEW a \in RectT, NEW b \in RectT
  PROVE  PickNext(R, a, b, u) \in 1..Len(u)
<1>1. PICK I : I = DOMAIN u
  OBVIOUS
<1>2. Len(u) \in Nat /\ I = 1..Len(u) /\ IsFiniteSet(I)
  BY <1>1, SetOf DEF Ids
<1>3. I # {}
  <2>1. Len(u) # 0
    BY EmptySeq DEF Ids
  <2>2. QED
    BY <1>2, <2>1
<1>4. PICK f : f = [i \in I |-> <<-Gap(Area(Merge(a, R[u[i]])), Area(Merge(b, R[u[i]]))), i>>]
  OBVIOUS
<1>5. ASSUME NEW i \in I PROVE f[i] \in Tuples(2)
  <2>1. R[u[i]] \in RectT
    BY <1>1 DEF ASet
  <2>2. Merge(a, R[u[i]]) \in RectT /\ Merge(b, R[u[i]]) \in RectT
    BY <2>1, MergeIs
  <2>3. Area(Merge(a, R[u[i]])) \in Int /\ Area(Merge(b, R[u[i]])) \in Int
    BY <2>2, MeasuresAreInt
  <2>4. PICK g : g = -Gap(Area(Merge(a, R[u[i]])), Area(Merge(b, R[u[i]])))
    OBVIOUS
  <2>5. g \in Int
    BY <2>3, <2>4 DEF Gap
  <2>6. f[i] = <<g, i>> /\ i \in Int
    BY <1>2, <1>4, <2>4
  <2>7. QED
    BY <2>5, <2>6 DEF Tuples
<1>6. 2 \in Nat
  OBVIOUS
<1>7. PICK p \in I : Least({f[q] : q \in I}) = f[p]
  BY <1>2, <1>3, <1>5, <1>6, LeastPicks
<1>8. PickNext(R, a, b, u) = Least({f[q] : q \in I})[2]
  <2>1. {f[q] : q \in I} = {<<-Gap(Area(Merge(a, R[u[i]])), Area(Merge(b, R[u[i]]))), i>> : i \in I}
    BY <1>4
  <2>2. QED
    BY <1>1, <2>1 DEF PickNext
<1>9. f[p][2] = p
  BY <1>4
<1>10. QED
  BY <1>2, <1>7, <1>8, <1>9

\* A round of the loop: a stage gives a stage, with less left.
Advances(b, a, R, e) ==
  /\ b \in StageT /\ Suffices(b, R, e)
  /\ IF a.left = <<>> THEN b = a ELSE Len(b.left) < Len(a.left)

\* A step of the distribution assigns an entry, as long as one is left, and
\* leaves enough for both sides.
LEMMA AssignedAdvances ==
  ASSUME FanOuts, NEW e, Overfull(e), NEW R, \A x \in ASet(e) : R[x] \in RectT,
         NEW a \in StageT, Suffices(a, R, e)
  PROVE  Advances(Assigned(R, a), a, R, e)
<1>1. PICK d : d = a.split
  OBVIOUS
<1>2. PICK u : u = a.left
  OBVIOUS
<1>3. Partly(d, R, e, u) /\ u \in Seq(Nat)
  BY <1>1, <1>2 DEF Suffices, StageT
<1>4. PICK i : i = PickNext(R, d.box1, d.box2, u)
  OBVIOUS
<1>5. PICK n, l, h, m \in Nat : n = Len(u) /\ l = Len(d.low) /\ h = Len(d.high) /\ m = minimum_entry
  BY <1>3, SetOf DEF Partly, Ids, FanOuts
<1>6. l + h + n = maximum_entry + 1 /\ n + l >= m /\ n + h >= m /\ 2 * m <= l + h + n
  BY <1>1, <1>2, <1>3, <1>5 DEF Partly, Overfull, Suffices, FanOuts
<1>7. CASE u = <<>>
  <2>1. Assigned(R, a) = a
    BY <1>2, <1>7 DEF Assigned
  <2>2. QED
    BY <1>2, <1>7, <2>1 DEF Advances
<1>8. CASE u # <<>>
  <2>1. n >= 1
    BY <1>3, <1>5, <1>8, EmptySeq
  <2>2. ASet(u) \subseteq ASet(e) /\ Ids(u) /\ d.box1 \in RectT /\ d.box2 \in RectT
    BY <1>3 DEF Partly, Boxed, BoxOf
  <2>3. i \in 1..Len(u)
    BY <1>4, <1>8, <2>2, NextIsLeft
  <2>4. PICK all1 : all1 = [d EXCEPT !.low = @ \o u, !.box1 = Merge(@, MergeRange(R, u))]
    OBVIOUS
  <2>5. PICK all2 : all2 = [d EXCEPT !.high = @ \o u, !.box2 = Merge(@, MergeRange(R, u))]
    OBVIOUS
  <2>6. PICK one1 : one1 = [d EXCEPT !.low = Append(@, u[i]), !.box1 = Merge(@, R[u[i]])]
    OBVIOUS
  <2>7. PICK one2 : one2 = [d EXCEPT !.high = Append(@, u[i]), !.box2 = Merge(@, R[u[i]])]
    OBVIOUS
  <2>8. PICK v : v = Without(u, i)
    OBVIOUS
  <2>9. PICK w : w = <<u[i]>>
    OBVIOUS
  <2>10. TakesLow(all1, d, R, u) /\ TakesHigh(all2, d, R, u) /\ Gives(<<>>, u, u)
    BY <1>3, <1>8, <2>4, <2>5, AllJoin
  <2>11. TakesLow(one1, d, R, w) /\ TakesHigh(one2, d, R, w)
    BY <1>3, <2>3, <2>6, <2>7, <2>9, OneJoins
  <2>12. Gives(v, u, w)
    BY <2>2, <2>3, <2>8, <2>9, OneLeaves
  <2>13. Len(w) = 1 /\ Len(v) = n - 1 /\ Len(<<>>) = 0
    <3>1. Len(w) = 1
      BY <2>9
    <3>2. PICK k \in Nat : k = Len(v)
      BY <2>12, SetOf DEF Gives, Ids
    <3>3. k + 1 = n
      BY <1>5, <2>12, <3>1, <3>2 DEF Gives
    <3>4. QED
      BY <3>1, <3>2, <3>3
  <2>14. LowTook(all1, d, R, e, <<>>, u)
    BY <1>3, <2>10, LowTakes
  <2>15. HighTook(all2, d, R, e, <<>>, u)
    BY <1>3, <2>10, HighTakes
  <2>16. LowTook(one1, d, R, e, v, w)
    BY <1>3, <2>11, <2>12, LowTakes
  <2>17. HighTook(one2, d, R, e, v, w)
    BY <1>3, <2>11, <2>12, HighTakes
  <2>18. CASE n + l = m
    <3>1. Assigned(R, a) = [split |-> all1, left |-> <<>>]
      BY <1>1, <1>2, <1>5, <1>8, <2>4, <2>18 DEF Assigned
    <3>2. Partly(all1, R, e, <<>>) /\ Len(all1.low) = l + n /\ Len(all1.high) = h
      BY <1>5, <2>14 DEF LowTook
    <3>3. 0 + (l + n) >= m /\ 0 + h >= m /\ 0 < n
      BY <1>6, <2>1, <2>18
    <3>4. PICK b : b = [split |-> all1, left |-> <<>>]
      OBVIOUS
    <3>5. b.split = all1 /\ b.left = <<>> /\ b \in StageT
      BY <3>2, <3>4, SplitIsT
    <3>6. Suffices(b, R, e)
      BY <1>5, <2>13, <3>2, <3>3, <3>5 DEF Suffices
    <3>7. QED
      BY <1>2, <1>5, <1>8, <2>13, <3>1, <3>3, <3>4, <3>5, <3>6 DEF Advances
  <2>19. CASE n + l # m /\ n + h = m
    <3>1. Assigned(R, a) = [split |-> all2, left |-> <<>>]
      BY <1>1, <1>2, <1>5, <1>8, <2>5, <2>19 DEF Assigned
    <3>2. Partly(all2, R, e, <<>>) /\ Len(all2.high) = h + n /\ Len(all2.low) = l
      BY <1>5, <2>15 DEF HighTook
    <3>3. 0 + (h + n) >= m /\ 0 + l >= m /\ 0 < n
      BY <1>6, <2>1, <2>19
    <3>4. PICK b : b = [split |-> all2, left |-> <<>>]
      OBVIOUS
    <3>5. b.split = all2 /\ b.left = <<>> /\ b \in StageT
      BY <3>2, <3>4, SplitIsT
    <3>6. Suffices(b, R, e)
      BY <1>5, <2>13, <3>2, <3>3, <3>5 DEF Suffices
    <3>7. QED
      BY <1>2, <1>5, <1>8, <2>13, <3>1, <3>3, <3>4, <3>5, <3>6 DEF Advances
  <2>20. CASE n + l # m /\ n + h # m
    <3>1. \/ Assigned(R, a) = [split |-> one1, left |-> v]
          \/ Assigned(R, a) = [split |-> one2, left |-> v]
      BY <1>1, <1>2, <1>4, <1>5, <1>8, <2>6, <2>7, <2>8, <2>20 DEF Assigned
    <3>2. Partly(one1, R, e, v) /\ Len(one1.low) = l + 1 /\ Len(one1.high) = h
      BY <1>5, <2>13, <2>16 DEF LowTook
    <3>3. Partly(one2, R, e, v) /\ Len(one2.high) = h + 1 /\ Len(one2.low) = l
      BY <1>5, <2>13, <2>17 DEF HighTook
    <3>4. /\ (n - 1) + (l + 1) >= m /\ (n - 1) + h >= m
          /\ (n - 1) + (h + 1) >= m /\ (n - 1) + l >= m /\ n - 1 < n
      BY <1>6, <2>1, <2>20
    <3>5. PICK b1 : b1 = [split |-> one1, left |-> v]
      OBVIOUS
    <3>6. PICK b2 : b2 = [split |-> one2, left |-> v]
      OBVIOUS
    <3>7. b1.split = one1 /\ b1.left = v /\ b1 \in StageT /\ b2.split = one2 /\ b2.left = v /\ b2 \in StageT
      BY <3>2, <3>3, <3>5, <3>6, SplitIsT
    <3>8. Suffices(b1, R, e)
      BY <1>5, <2>13, <3>2, <3>4, <3>7 DEF Suffices
    <3>9. Suffices(b2, R, e)
      BY <1>5, <2>13, <3>3, <3>4, <3>7 DEF Suffices
    <3>10. QED
      BY <1>2, <1>5, <1>8, <2>13, <3>1, <3>4, <3>5, <3>6, <3>7, <3>8, <3>9 DEF Advances
  <2>21. QED
    BY <2>18, <2>19, <2>20
<1>9. QED
  BY <1>7, <1>8

\* The stages of a distribution, of which the last leaves nothing.
StagesOf(f, R, e, d, s) ==
  /\ f[0] = [split |-> d, left |-> s] /\ \A k \in 1..Len(s) : f[k] = Assigned(R, f[k - 1])
  /\ \A k \in 0..Len(s) : f[k] \in StageT /\ Suffices(f[k], R, e)
  /\ Distribute(R, d, s) = f[Len(s)].split /\ f[Len(s)].left = <<>>

LEMMA DistributeRuns ==
  ASSUME FanOuts, NEW e, Overfull(e), NEW R, \A x \in ASet(e) : R[x] \in RectT,
         NEW d, NEW s, Suffices([split |-> d, left |-> s], R, e)
  PROVE  \E f : StagesOf(f, R, e, d, s)
<1> DEFINE first == [split |-> d, left |-> s]
           N == Len(s)
           V == {a \in StageT : Suffices(a, R, e)}
<1>1. Partly(d, R, e, s) /\ N \in Nat
  <2>1. Partly(d, R, e, s)
    BY DEF Suffices
  <2>2. QED
    BY <2>1, SetOf DEF Partly, Ids
<1>2. first \in V
  BY <1>1, SplitIsT
<1>3. \A a \in V : Assigned(R, a) \in V
  BY AssignedAdvances DEF Advances
<1>4. \A a \in V : a.left = <<>> \/ Len(Assigned(R, a).left) < Len(a.left)
  BY AssignedAdvances DEF Advances
<1>5. \A a \in V : a.left = <<>> => Assigned(R, a) = a
  BY AssignedAdvances DEF Advances
<1>6. \A a \in V : Len(a.left) \in Nat /\ (Len(a.left) = 0 <=> a.left = <<>>)
  BY EmptySeq, LenProperties DEF StageT
<1>7. first.left = s
  OBVIOUS
<1> HIDE DEF V, first, N
<1>8. PICK G : G = [p \in (1..N) \X V |-> Assigned(R, p[2])]
  OBVIOUS
<1>9. /\ G \in [(1..N) \X V -> V]
      /\ \A k \in 1..N : \A a \in V : G[<<k, a>>] = Assigned(R, a)
  BY <1>3, <1>8
<1>10. PICK g \in [0..N -> V] : g[0] = first /\ \A k \in 1..N : g[k] = G[<<k, g[k - 1]>>]
  <2>1. LoopRuns(N, V, first, G)
    BY <1>1, <1>2, <1>9, Loop
  <2>2. QED
    BY <2>1 DEF LoopRuns
<1> DEFINE E(f, k) == IF k = 0 THEN first ELSE Assigned(R, f[k - 1])
<1>11. g = [k \in 0..N |-> E(g, k)]
  <2>1. \A k \in 0..N : g[k] = E(g, k)
    <3>1. \A k \in 0..N : k # 0 => k \in 1..N /\ k - 1 \in 0..N
      BY <1>1
    <3>2. QED
      BY <1>9, <1>10, <3>1
  <2> HIDE DEF E
  <2>2. QED
    BY <1>10, <2>1
<1>12. PICK f : f = CHOOSE after : after = [k \in 0..N |-> E(after, k)]
  OBVIOUS
<1>13. f = [k \in 0..N |-> E(f, k)]
  <2> HIDE DEF E
  <2>1. QED
    BY <1>11, <1>12, Zenon
<1>14. f[0] = first /\ \A k \in 1..N : f[k] = Assigned(R, f[k - 1])
  <2>1. \A k \in 0..N : f[k] = E(f, k)
    <3> HIDE DEF E
    <3>1. QED
      BY <1>13
  <2>2. 0 \in 0..N /\ \A k \in 1..N : k \in 0..N /\ k # 0
    BY <1>1
  <2>3. QED
    BY <2>1, <2>2
<1>15. Distribute(R, d, s) = f[N].split
  BY <1>12, Zenon DEF Distribute, first, N
<1>16. \A k \in 0..N : f[k] \in V
  <2>1. f[0] \in V
    BY <1>2, <1>14
  <2>2. \A k \in 1..N : f[k - 1] \in V => f[k] = G[<<k, f[k - 1]>>]
    BY <1>9, <1>14
  <2>3. QED
    BY <1>1, <1>9, <2>1, <2>2, LoopStays
<1>17. \A k \in 0..N : Len(f[k].left) <= N - k
  <2> DEFINE off == {k \in 0..N : ~(Len(f[k].left) <= N - k)}
  <2> SUFFICES ASSUME off # {} PROVE FALSE
    OBVIOUS
  <2>1. PICK k \in off : \A i \in off : k <= i
    <3> off \subseteq Nat
      OBVIOUS
    <3> HIDE DEF off
    <3>1. QED
      BY LeastNumber
  <2>2. Len(f[0].left) = N
    BY <1>7, <1>14 DEF N
  <2>3. k \in 1..N /\ k - 1 \in 0..N /\ ~(k <= k - 1)
    BY <1>1, <2>2
  <2>4. Len(f[k - 1].left) <= N - (k - 1)
    BY <2>1, <2>3
  <2>5. PICK a \in V : a = f[k - 1]
    BY <1>16, <2>3
  <2>6. f[k] = Assigned(R, a) /\ Assigned(R, a) \in V
    BY <1>3, <1>14, <2>3, <2>5
  <2>7. PICK x, y \in Nat : x = Len(a.left) /\ y = Len(Assigned(R, a).left)
    BY <1>6, <2>6
  <2>8. y < x \/ (x = 0 /\ y = 0)
    BY <1>4, <1>5, <1>6, <2>7
  <2>9. y <= N - k
    BY <1>1, <2>3, <2>4, <2>5, <2>7, <2>8
  <2>10. QED
    BY <2>6, <2>7, <2>9
<1>18. f[N] \in V
  BY <1>1, <1>16
<1>19. f[N].left = <<>>
  <2>1. N \in 0..N /\ N - N = 0
    BY <1>1
  <2>2. Len(f[N].left) <= N - N
    BY <1>17, <2>1
  <2>3. QED
    BY <1>6, <1>18, <2>1, <2>2
<1>20. \A k \in 0..N : f[k] \in StageT /\ Suffices(f[k], R, e)
  BY <1>16 DEF V
<1>21. QED
  BY <1>14, <1>15, <1>19, <1>20 DEF StagesOf, N, first

\* The distribution ends with nothing left and the row divided.
LEMMA DistributeDivides ==
  ASSUME FanOuts, NEW e, Overfull(e), NEW R, \A x \in ASet(e) : R[x] \in RectT,
         NEW d, NEW s, Suffices([split |-> d, left |-> s], R, e)
  PROVE  Divides(Distribute(R, d, s), R, e)
<1>1. PICK f : StagesOf(f, R, e, d, s)
  BY DistributeRuns
<1>2. Len(s) \in Nat
  BY SetOf DEF Suffices, Partly, Ids
<1>3. PICK a : a = f[Len(s)] /\ Suffices(a, R, e) /\ a.left = <<>> /\ Distribute(R, d, s) = a.split
  BY <1>1, <1>2 DEF StagesOf
<1>4. Partly(a.split, R, e, <<>>) /\ Len(a.left) = 0
  BY <1>3 DEF Suffices
<1>5. Len(a.split.low) >= minimum_entry /\ Len(a.split.high) >= minimum_entry
  <2>1. PICK l, h \in Nat : l = Len(a.split.low) /\ h = Len(a.split.high)
    BY <1>4, SetOf DEF Partly, Ids
  <2>2. 0 + l >= minimum_entry /\ 0 + h >= minimum_entry
    BY <1>3, <1>4, <2>1 DEF Suffices
  <2>3. QED
    BY <2>1, <2>2
<1>6. Divides(a.split, R, e)
  BY <1>4, <1>5, NothingLeft
<1>7. QED
  BY <1>3, <1>6

\* The seeds are two positions of the row.
LEMMA SeedsDiffer ==
  ASSUME NEW e, Ids(e), Len(e) >= 2, NEW R, \A x \in ASet(e) : R[x] \in RectT
  PROVE  \E i, j \in 1..Len(e) : i < j /\ Seeds(R, e) = <<i, j>>
<1>1. PICK I : I = {q \in (DOMAIN e) \X (DOMAIN e) : q[1] < q[2]}
  OBVIOUS
<1>2. Len(e) \in Nat /\ DOMAIN e = 1..Len(e) /\ IsFiniteSet(DOMAIN e)
  BY SetOf DEF Ids
<1>3. IsFiniteSet(I) /\ I # {}
  <2>1. IsFiniteSet((DOMAIN e) \X (DOMAIN e))
    BY <1>2, FS_Product
  <2>2. IsFiniteSet(I)
    BY <1>1, <2>1, FS_Subset
  <2>3. <<1, 2>> \in I
    BY <1>1, <1>2
  <2>4. QED
    BY <2>2, <2>3
<1>4. PICK f : f = [p \in I |-> <<-Waste(R[e[p[1]]], R[e[p[2]]]), p[1], p[2]>>]
  OBVIOUS
<1>5. ASSUME NEW p \in I PROVE f[p] \in Tuples(3)
  <2>1. p[1] \in 1..Len(e) /\ p[2] \in 1..Len(e)
    BY <1>1, <1>2
  <2>2. PICK a \in RectT : a = R[e[p[1]]]
    BY <1>2, <2>1 DEF ASet
  <2>3. PICK b \in RectT : b = R[e[p[2]]]
    BY <1>2, <2>1 DEF ASet
  <2>4. Merge(a, b) \in RectT
    BY MergeIs
  <2>5. Area(a) \in Int /\ Area(b) \in Int /\ Area(Merge(a, b)) \in Int
    BY <2>4, MeasuresAreInt
  <2>6. PICK x \in Int : x = -Waste(a, b)
    BY <2>5 DEF Waste
  <2>7. f[p] = <<x, p[1], p[2]>>
    BY <1>4, <2>2, <2>3, <2>6
  <2>8. p[1] \in Int /\ p[2] \in Int
    BY <2>1
  <2>9. QED
    BY <2>7, <2>8 DEF Tuples
<1>6. 3 \in Nat
  OBVIOUS
<1>7. PICK p \in I : Least({f[q] : q \in I}) = f[p]
  BY <1>3, <1>5, <1>6, LeastPicks
<1>8. {f[q] : q \in I} = {<<-Waste(R[e[q[1]]], R[e[q[2]]]), q[1], q[2]>> : q \in I}
  BY <1>4
<1>9. Seeds(R, e) = <<f[p][2], f[p][3]>>
  BY <1>1, <1>7, <1>8 DEF Seeds
<1>10. f[p][2] = p[1] /\ f[p][3] = p[2]
  BY <1>4
<1>11. QED
  BY <1>1, <1>2, <1>9, <1>10

\* Where the distribution starts: each side has its seed, the others are left.
StartsWith(d, s, R, e) ==
  /\ d = [low |-> <<e[Seeds(R, e)[1]]>>, high |-> <<e[Seeds(R, e)[2]]>>,
          box1 |-> R[e[Seeds(R, e)[1]]], box2 |-> R[e[Seeds(R, e)[2]]]]
  /\ s = Without(Without(e, Seeds(R, e)[2]), Seeds(R, e)[1]) /\ Len(s) = Len(e) - 2 /\ Len(e) \in Nat
  /\ Suffices([split |-> d, left |-> s], R, e)

LEMMA QuadraticStarts ==
  ASSUME FanOuts, NEW e, Overfull(e), NEW R, \A x \in ASet(e) : R[x] \in RectT
  PROVE  \E d, s : StartsWith(d, s, R, e)
<1>1. /\ Ids(e) /\ Len(e) \in Nat /\ Len(e) = maximum_entry + 1 /\ Len(e) >= 2
      /\ DOMAIN e = 1..Len(e)
  BY SetOf DEF Overfull, FanOuts, Ids
<1>2. PICK i, j \in 1..Len(e) : i < j /\ Seeds(R, e) = <<i, j>>
  BY <1>1, SeedsDiffer
<1>3. PICK x, y : x = e[i] /\ y = e[j]
  OBVIOUS
<1>4. x \in Nat /\ y \in Nat /\ x \in ASet(e) /\ y \in ASet(e) /\ x # y /\ i # j
  <2>1. x \in ASet(e) /\ y \in ASet(e)
    BY <1>1, <1>3 DEF ASet
  <2>2. ASet(e) \subseteq Nat
    BY <1>1, SetOf DEF Ids
  <2>3. i # j
    BY <1>1, <1>2
  <2>4. x # y
    BY <1>1, <1>3, <2>3 DEF Ids, Injective
  <2>5. QED
    BY <2>1, <2>2, <2>3, <2>4
<1>5. PICK u : u = Without(e, j)
  OBVIOUS
<1>6. Ids(u) /\ Len(u) = Len(e) - 1 /\ ASet(u) = ASet(e) \ {y}
  <2>1. Loses(u, e, y)
    BY <1>1, <1>3, <1>5, WithoutLoses
  <2>2. QED
    BY <2>1 DEF Loses
<1>7. i \in 1..Len(u) /\ u[i] = x
  <2>1. i \in 1..Len(u) /\ i \in 1..j - 1
    BY <1>1, <1>2, <1>6
  <2>2. PICK a : a = SubSeq(e, 1, j - 1)
    OBVIOUS
  <2>3. PICK b : b = SubSeq(e, j + 1, Len(e))
    OBVIOUS
  <2>4. a \in Seq(Nat) /\ b \in Seq(Nat) /\ Len(a) = j - 1 /\ a[i] = e[i]
    <3>1. /\ 1 \in Nat \ {0} /\ j - 1 \in Nat /\ j - 1 <= Len(e) /\ 1 <= (j - 1) + 1
          /\ (j - 1) - 1 + 1 = j - 1 /\ 1 + i - 1 = i
      BY <1>1, <2>1
    <3>2. Ids(a) /\ Len(a) = j - 1 /\ \A k \in 1..j - 1 : a[k] = e[1 + k - 1]
      BY <1>1, <2>2, <3>1, PieceOf
    <3>3. a[i] = e[i]
      BY <2>1, <3>1, <3>2
    <3>4. j + 1 \in Nat \ {0} /\ Len(e) <= Len(e) /\ j + 1 <= Len(e) + 1
      BY <1>1
    <3>5. Ids(b)
      BY <1>1, <2>3, <3>4, PieceOf
    <3>6. QED
      BY <3>2, <3>3, <3>5 DEF Ids
  <2>5. (a \o b)[i] = a[i]
    BY <2>1, <2>4, ConcatProperties
  <2>6. QED
    BY <1>3, <1>5, <2>1, <2>2, <2>3, <2>4, <2>5 DEF Without
<1>8. PICK s : s = Without(u, i)
  OBVIOUS
<1>9. Ids(s) /\ Len(s) = Len(u) - 1 /\ ASet(s) = ASet(u) \ {x}
  <2>1. Loses(s, u, x)
    BY <1>6, <1>7, <1>8, WithoutLoses
  <2>2. QED
    BY <2>1 DEF Loses
<1>10. PICK d : d = [low |-> <<x>>, high |-> <<y>>, box1 |-> R[x], box2 |-> R[y]]
  OBVIOUS
<1>11. /\ Ids(d.low) /\ Ids(d.high) /\ Len(d.low) = 1 /\ Len(d.high) = 1
       /\ ASet(d.low) = {x} /\ ASet(d.high) = {y}
  BY <1>4, <1>10, OneId
<1>12. Boxed(d, R)
  <2>1. BoxOf(R[x], {R[x]}) /\ BoxOf(R[y], {R[y]})
    BY <1>4, BoxOfOne
  <2>2. BoxesOf(R, ASet(d.low)) = {R[x]} /\ BoxesOf(R, ASet(d.high)) = {R[y]}
    BY <1>11 DEF BoxesOf
  <2>3. QED
    BY <1>10, <2>1, <2>2 DEF Boxed
<1>13. Partly(d, R, e, s)
  <2>1. ASet(d.low) \cup ASet(d.high) \cup ASet(s) = ASet(e)
    BY <1>4, <1>6, <1>9, <1>11
  <2>2. /\ ASet(d.low) \cap ASet(d.high) = {} /\ ASet(d.low) \cap ASet(s) = {}
        /\ ASet(d.high) \cap ASet(s) = {}
    BY <1>4, <1>6, <1>9, <1>11
  <2>3. Len(d.low) + Len(d.high) + Len(s) = Len(e)
    BY <1>1, <1>6, <1>9, <1>11
  <2>4. QED
    BY <1>9, <1>10, <1>11, <1>12, <2>1, <2>2, <2>3 DEF Partly
<1>14. Suffices([split |-> d, left |-> s], R, e)
  <2>1. PICK a : a = [split |-> d, left |-> s]
    OBVIOUS
  <2>2. a.split = d /\ a.left = s
    BY <2>1
  <2>3. Len(s) + 1 >= minimum_entry
    BY <1>1, <1>6, <1>9 DEF FanOuts
  <2>4. Suffices(a, R, e)
    BY <1>11, <1>13, <2>2, <2>3 DEF Suffices
  <2>5. QED
    BY <2>1, <2>4
<1>15. Len(s) = Len(e) - 2
  BY <1>1, <1>6, <1>9
<1>16. StartsWith(d, s, R, e)
  BY <1>1, <1>2, <1>3, <1>5, <1>8, <1>10, <1>14, <1>15 DEF StartsWith
<1>17. QED
  BY <1>16

\* So the quadratic split divides.
LEMMA QuadraticDivides ==
  ASSUME FanOuts, NEW e, Overfull(e), NEW R, \A x \in ASet(e) : R[x] \in RectT
  PROVE  Divides(Quadratic(R, e), R, e)
<1>1. PICK d, s : StartsWith(d, s, R, e)
  BY QuadraticStarts
<1>2. Quadratic(R, e) = Distribute(R, d, s) /\ Suffices([split |-> d, left |-> s], R, e)
  BY <1>1 DEF Quadratic, StartsWith
<1>3. QED
  BY <1>2, DistributeDivides

-------------------------------------------------------------------------------
\* Every strategy divides a node that overflows by one entry: both sides get
\* at least the minimum, no entry is lost and each side its box.
LEMMA SplitByDivides ==
  ASSUME FanOuts, NEW e, Overfull(e), NEW R, \A x \in ASet(e) : R[x] \in RectT, NEW node,
         NEW strategy \in SplitStrategies
  PROVE  Divides(SplitBy(strategy, R, e, node), R, e)
<1>1. CASE strategy = "SPL_MIN_AREA"
  BY <1>1, MinimumSplitsDivide DEF SplitBy
<1>2. CASE strategy = "SPL_MIN_MARGIN"
  BY <1>2, MinimumSplitsDivide DEF SplitBy
<1>3. CASE strategy = "SPL_MIN_OVERLAP"
  BY <1>3, MinimumSplitsDivide DEF SplitBy
<1>4. CASE strategy = "SPL_QUADRATIC"
  BY <1>4, QuadraticDivides DEF SplitBy
<1>5. CASE strategy = "SPL_GREENE"
  BY <1>5, GreeneDivides DEF SplitBy
<1>6. QED
  BY <1>1, <1>2, <1>3, <1>4, <1>5 DEF SplitStrategies

-------------------------------------------------------------------------------
\* The tree as links.  Levels are counted from the leaves up to the root.
Kids(T, n) == ASet(T[n].kids)
Levels(T, r, h, lev) ==
  /\ lev \in [DOMAIN T -> 1..h] /\ lev[r] = h
  /\ \A n \in DOMAIN T : T[n].leaf <=> lev[n] = 1
  /\ \A m \in DOMAIN T : ~T[m].leaf => \A c \in Kids(T, m) : lev[c] = lev[m] - 1
Skeleton(T, r, h) ==
  /\ h \in Nat /\ DOMAIN T \subseteq Nat
  /\ r \in DOMAIN T /\ T[r].father = -1
  /\ \A n \in DOMAIN T \ {r} : /\ T[n].father \in DOMAIN T /\ ~T[T[n].father].leaf
                               /\ n \in Kids(T, T[n].father)
  /\ \A m \in DOMAIN T : ~T[m].leaf => /\ Kids(T, m) \subseteq DOMAIN T
                                       /\ \A c \in Kids(T, m) : T[c].father = m
  /\ \E lev : Levels(T, r, h, lev)

\* The objects of two leaves are apart.
LeavesOf(T) == {n \in DOMAIN T : T[n].leaf}
Apart(T) == \A m, n \in LeavesOf(T) : m # n => Kids(T, m) \cap Kids(T, n) = {}
PlacedIn(T) == UNION {Kids(T, n) : n \in LeavesOf(T)}

\* Only boxes, and what leaves hold, are other.
SameLinks(T, T2) ==
  /\ DOMAIN T2 = DOMAIN T
  /\ \A n \in DOMAIN T : /\ T2[n].leaf = T[n].leaf /\ T2[n].father = T[n].father
                         /\ ~T[n].leaf => T2[n].kids = T[n].kids

LEMMA LinksStay ==
  ASSUME NEW T, NEW r, NEW h, Skeleton(T, r, h), NEW T2, SameLinks(T, T2)
  PROVE  Skeleton(T2, r, h)
<1>1. PICK lev : Levels(T, r, h, lev)
  BY DEF Skeleton
<1>2. DOMAIN T2 = DOMAIN T /\ \A n \in DOMAIN T : T2[n].leaf = T[n].leaf /\ T2[n].father = T[n].father
  BY DEF SameLinks
<1>3. \A n \in DOMAIN T : ~T[n].leaf => Kids(T2, n) = Kids(T, n)
  BY DEF SameLinks, Kids
<1>4. Levels(T2, r, h, lev)
  <2>1. lev \in [DOMAIN T -> 1..h] /\ lev[r] = h
    BY <1>1 DEF Levels
  <2>2. \A n \in DOMAIN T : T[n].leaf <=> lev[n] = 1
    BY <1>1 DEF Levels
  <2>3. \A m \in DOMAIN T : ~T[m].leaf => \A c \in Kids(T, m) : lev[c] = lev[m] - 1
    BY <1>1 DEF Levels
  <2>4. \A m \in DOMAIN T : ~T2[m].leaf => \A c \in Kids(T2, m) : lev[c] = lev[m] - 1
    BY <1>2, <1>3, <2>3
  <2>5. QED
    BY <1>2, <2>1, <2>2, <2>4 DEF Levels
<1>5. r \in DOMAIN T2 /\ T2[r].father = -1
  BY <1>2 DEF Skeleton
<1>6. ASSUME NEW n \in DOMAIN T2 \ {r}
      PROVE  T2[n].father \in DOMAIN T2 /\ ~T2[T2[n].father].leaf /\ n \in Kids(T2, T2[n].father)
  <2>1. PICK f \in DOMAIN T : f = T[n].father /\ ~T[f].leaf /\ n \in Kids(T, f)
    BY <1>2, <1>6 DEF Skeleton
  <2>2. T2[n].father = f /\ ~T2[f].leaf /\ Kids(T2, f) = Kids(T, f)
    BY <1>2, <1>3, <1>6, <2>1
  <2>3. QED
    BY <1>2, <2>1, <2>2
<1>7. ASSUME NEW m \in DOMAIN T2, ~T2[m].leaf
      PROVE  Kids(T2, m) \subseteq DOMAIN T2 /\ \A c \in Kids(T2, m) : T2[c].father = m
  <2>1. m \in DOMAIN T /\ ~T[m].leaf /\ Kids(T2, m) = Kids(T, m)
    BY <1>2, <1>3, <1>7
  <2>2. Kids(T, m) \subseteq DOMAIN T /\ \A c \in Kids(T, m) : T[c].father = m
    BY <2>1 DEF Skeleton
  <2>3. QED
    BY <1>2, <2>1, <2>2
<1>8. h \in Nat /\ DOMAIN T2 \subseteq Nat
  BY <1>2 DEF Skeleton
<1>9. QED
  BY <1>4, <1>5, <1>6, <1>7, <1>8 DEF Skeleton

\* The root gets a new root above it.
GrowsTo(T, T2, r, f) ==
  /\ f \notin DOMAIN T /\ f \in Nat /\ DOMAIN T2 = DOMAIN T \cup {f}
  /\ \A n \in DOMAIN T : T2[n].leaf = T[n].leaf /\ T2[n].kids = T[n].kids
  /\ \A n \in DOMAIN T \ {r} : T2[n].father = T[n].father
  /\ T2[r].father = f /\ T2[f].father = -1 /\ ~T2[f].leaf /\ Kids(T2, f) = {r}

LEMMA GrownSkeleton ==
  ASSUME NEW T, NEW r, NEW h, Skeleton(T, r, h), NEW T2, NEW f, GrowsTo(T, T2, r, f)
  PROVE  Skeleton(T2, f, h + 1)
<1>1. PICK lev : Levels(T, r, h, lev)
  BY DEF Skeleton
<1>2. PICK lev2 : lev2 = [n \in DOMAIN T2 |-> IF n = f THEN h + 1 ELSE lev[n]]
  OBVIOUS
<1>3. /\ DOMAIN T2 = DOMAIN T \cup {f} /\ f \notin DOMAIN T /\ r \in DOMAIN T /\ h \in Nat /\ f \in Nat
      /\ DOMAIN T \subseteq Nat
  BY DEF GrowsTo, Skeleton
<1>4. \A n \in DOMAIN T : Kids(T2, n) = Kids(T, n)
  BY DEF GrowsTo, Kids
<1>5. Levels(T2, f, h + 1, lev2)
  <2>1. \A n \in DOMAIN T : lev[n] \in 1..h /\ lev2[n] = lev[n] /\ T2[n].leaf = T[n].leaf
    BY <1>1, <1>2, <1>3 DEF Levels, GrowsTo
  <2>2. lev[r] = h /\ h >= 1 /\ lev2[f] = h + 1
    BY <1>1, <1>2, <1>3, <2>1 DEF Levels
  <2>3. lev2 \in [DOMAIN T2 -> 1..h + 1]
    BY <1>2, <1>3, <2>1, <2>2
  <2>4. \A n \in DOMAIN T2 : T2[n].leaf <=> lev2[n] = 1
    BY <1>1, <1>3, <2>1, <2>2 DEF Levels, GrowsTo
  <2>5. ASSUME NEW m \in DOMAIN T2, ~T2[m].leaf, NEW c \in Kids(T2, m)
        PROVE  lev2[c] = lev2[m] - 1
    <3>1. CASE m = f
      BY <1>2, <1>3, <2>1, <2>2, <2>5, <3>1 DEF GrowsTo
    <3>2. CASE m \in DOMAIN T
      <4>1. ~T[m].leaf /\ c \in Kids(T, m)
        BY <1>4, <2>1, <2>5, <3>2
      <4>2. c \in DOMAIN T /\ lev[c] = lev[m] - 1
        BY <1>1, <3>2, <4>1 DEF Levels, Skeleton
      <4>3. QED
        BY <2>1, <3>2, <4>2
    <3>3. QED
      BY <1>3, <3>1, <3>2
  <2>6. QED
    BY <2>2, <2>3, <2>4, <2>5 DEF Levels
<1>6. ASSUME NEW n \in DOMAIN T2 \ {f}
      PROVE  T2[n].father \in DOMAIN T2 /\ ~T2[T2[n].father].leaf /\ n \in Kids(T2, T2[n].father)
  <2>1. CASE n = r
    BY <1>3, <2>1 DEF GrowsTo
  <2>2. CASE n # r
    <3>1. n \in DOMAIN T \ {r}
      BY <1>3, <1>6, <2>2
    <3>2. T[n].father \in DOMAIN T /\ ~T[T[n].father].leaf /\ n \in Kids(T, T[n].father)
      BY <3>1 DEF Skeleton
    <3>3. QED
      BY <1>3, <1>4, <3>1, <3>2 DEF GrowsTo
  <2>3. QED
    BY <2>1, <2>2
<1>7. ASSUME NEW m \in DOMAIN T2, ~T2[m].leaf
      PROVE  Kids(T2, m) \subseteq DOMAIN T2 /\ \A c \in Kids(T2, m) : T2[c].father = m
  <2>1. CASE m = f
    BY <1>3, <2>1 DEF GrowsTo
  <2>2. CASE m \in DOMAIN T
    <3>1. ~T[m].leaf /\ Kids(T2, m) = Kids(T, m)
      BY <1>4, <1>7, <2>2 DEF GrowsTo
    <3>2. Kids(T, m) \subseteq DOMAIN T /\ \A c \in Kids(T, m) : T[c].father = m
      BY <2>2, <3>1 DEF Skeleton
    <3>3. \A c \in Kids(T, m) : c # r
      <4>1. T[r].father = -1 /\ m \in Nat
        BY <1>3, <2>2 DEF Skeleton
      <4>2. QED
        BY <3>2, <4>1
    <3>4. QED
      BY <1>3, <3>1, <3>2, <3>3 DEF GrowsTo
  <2>3. QED
    BY <1>3, <2>1, <2>2
<1>8. T2[f].father = -1
  BY DEF GrowsTo
<1>9. QED
  BY <1>3, <1>5, <1>6, <1>7, <1>8 DEF Skeleton

\* A node i with a father f is split: it keeps the children low, and a sibling
\* s under the same father gets the children high.
SplitsTo(T, T2, i, f, s, low, high) ==
  /\ i \in DOMAIN T /\ f \in DOMAIN T /\ T[i].father = f
  /\ s \notin DOMAIN T /\ s \in Nat /\ DOMAIN T2 = DOMAIN T \cup {s}
  /\ low \cup high = Kids(T, i) /\ low \cap high = {}
  /\ \A n \in DOMAIN T : T2[n].leaf = T[n].leaf
  /\ T2[s].leaf = T[i].leaf /\ T2[s].father = f
  /\ Kids(T2, i) = low /\ Kids(T2, s) = high
  /\ Kids(T2, f) = Kids(T, f) \cup {s}
  /\ \A n \in DOMAIN T \ {i, f} : Kids(T2, n) = Kids(T, n)
  /\ \A n \in DOMAIN T : T2[n].father = IF ~T[i].leaf /\ n \in high THEN s ELSE T[n].father

\* A node gives some children to a sibling that joins its father.
LEMMA SplitSkeleton ==
  ASSUME NEW T, NEW r, NEW h, Skeleton(T, r, h), NEW T2, NEW i, NEW f, NEW s, NEW low, NEW high,
         i # r, SplitsTo(T, T2, i, f, s, low, high)
  PROVE  Skeleton(T2, r, h)
<1>1. PICK lev : Levels(T, r, h, lev)
  BY DEF Skeleton
<1>2. PICK lev2 : lev2 = [n \in DOMAIN T2 |-> IF n = s THEN lev[i] ELSE lev[n]]
  OBVIOUS
<1>3. /\ DOMAIN T2 = DOMAIN T \cup {s} /\ s \notin DOMAIN T /\ s \in Nat
      /\ i \in DOMAIN T /\ f \in DOMAIN T /\ r \in DOMAIN T /\ h \in Nat /\ DOMAIN T \subseteq Nat
  BY DEF SplitsTo, Skeleton
<1>4. ~T[f].leaf /\ i \in Kids(T, f) /\ T[i].father = f
  <2>1. i \in DOMAIN T \ {r} /\ T[i].father = f
    BY <1>3 DEF SplitsTo
  <2>2. QED
    BY <2>1 DEF Skeleton
<1>5. /\ \A n \in DOMAIN T : lev[n] \in 1..h /\ (T[n].leaf <=> lev[n] = 1)
      /\ \A m \in DOMAIN T : ~T[m].leaf => \A c \in Kids(T, m) : lev[c] = lev[m] - 1
      /\ lev[r] = h
  BY <1>1 DEF Levels
<1>6. /\ \A n \in DOMAIN T : lev2[n] = lev[n] /\ T2[n].leaf = T[n].leaf
      /\ lev2[s] = lev[i] /\ T2[s].leaf = T[i].leaf
  BY <1>2, <1>3 DEF SplitsTo
<1>7. i # f
  <2>1. lev[i] = lev[f] - 1 /\ lev[i] \in Int /\ lev[f] \in Int
    BY <1>3, <1>4, <1>5
  <2>2. QED
    BY <2>1
<1>8. /\ low \cup high = Kids(T, i) /\ low \cap high = {} /\ Kids(T2, i) = low /\ Kids(T2, s) = high
      /\ Kids(T2, f) = Kids(T, f) \cup {s}
      /\ \A n \in DOMAIN T \ {i, f} : Kids(T2, n) = Kids(T, n)
  BY DEF SplitsTo
<1>9. /\ \A n \in DOMAIN T : T2[n].father = IF ~T[i].leaf /\ n \in high THEN s ELSE T[n].father
      /\ T2[s].father = f
  BY DEF SplitsTo
<1>10. /\ \A n \in DOMAIN T \ {r} : T[n].father \in DOMAIN T /\ ~T[T[n].father].leaf /\ n \in Kids(T, T[n].father)
       /\ \A m \in DOMAIN T : ~T[m].leaf => Kids(T, m) \subseteq DOMAIN T /\ \A c \in Kids(T, m) : T[c].father = m
       /\ T[r].father = -1
  BY DEF Skeleton
<1>11. Levels(T2, r, h, lev2)
  <2>1. lev2 \in [DOMAIN T2 -> 1..h]
    BY <1>2, <1>3, <1>5, <1>6
  <2>2. lev2[r] = h
    BY <1>3, <1>5, <1>6
  <2>3. \A n \in DOMAIN T2 : T2[n].leaf <=> lev2[n] = 1
    BY <1>3, <1>5, <1>6
  <2>4. ASSUME NEW m \in DOMAIN T2, ~T2[m].leaf, NEW c \in Kids(T2, m)
        PROVE  lev2[c] = lev2[m] - 1
    <3>1. CASE m = s
      <4>1. ~T[i].leaf /\ c \in Kids(T, i)
        BY <1>6, <1>8, <2>4, <3>1
      <4>2. c \in DOMAIN T /\ lev[c] = lev[i] - 1
        BY <1>3, <1>5, <1>10, <4>1
      <4>3. QED
        BY <1>6, <3>1, <4>2
    <3>2. CASE m = i
      <4>1. ~T[i].leaf /\ c \in Kids(T, i)
        BY <1>3, <1>6, <1>8, <2>4, <3>2
      <4>2. c \in DOMAIN T /\ lev[c] = lev[i] - 1
        BY <1>3, <1>5, <1>10, <4>1
      <4>3. QED
        BY <1>3, <1>6, <3>2, <4>2
    <3>3. CASE m = f /\ c = s
      BY <1>3, <1>4, <1>5, <1>6, <3>3
    <3>4. CASE m \in DOMAIN T /\ m # i /\ ~(m = f /\ c = s)
      <4>1. ~T[m].leaf /\ c \in Kids(T, m)
        BY <1>6, <1>8, <2>4, <3>4
      <4>2. c \in DOMAIN T /\ lev[c] = lev[m] - 1
        BY <1>5, <1>10, <3>4, <4>1
      <4>3. QED
        BY <1>6, <3>4, <4>2
    <3>5. QED
      BY <1>3, <3>1, <3>2, <3>3, <3>4
  <2>5. QED
    BY <2>1, <2>2, <2>3, <2>4 DEF Levels
<1>12. ASSUME NEW n \in DOMAIN T2 \ {r}
       PROVE  T2[n].father \in DOMAIN T2 /\ ~T2[T2[n].father].leaf /\ n \in Kids(T2, T2[n].father)
  <2>1. CASE n = s
    BY <1>3, <1>4, <1>6, <1>8, <1>9, <2>1
  <2>2. CASE n \in DOMAIN T /\ ~T[i].leaf /\ n \in high
    BY <1>3, <1>6, <1>8, <1>9, <2>2
  <2>3. CASE n \in DOMAIN T /\ (T[i].leaf \/ n \notin high)
    <3>1. PICK m \in DOMAIN T : m = T[n].father /\ ~T[m].leaf /\ n \in Kids(T, m)
      BY <1>10, <1>12, <2>3
    <3>2. T2[n].father = m /\ ~T2[m].leaf
      BY <1>6, <1>9, <2>3, <3>1
    <3>3. n \in Kids(T2, m)
      BY <1>7, <1>8, <2>3, <3>1
    <3>4. QED
      BY <1>3, <3>1, <3>2, <3>3
  <2>4. QED
    BY <1>3, <2>1, <2>2, <2>3
<1>13. ASSUME NEW m \in DOMAIN T2, ~T2[m].leaf
       PROVE  Kids(T2, m) \subseteq DOMAIN T2 /\ \A c \in Kids(T2, m) : T2[c].father = m
  <2>1. CASE m = s
    <3>1. ~T[i].leaf /\ Kids(T2, m) = high /\ high \subseteq Kids(T, i)
      BY <1>6, <1>8, <1>13, <2>1
    <3>2. high \subseteq DOMAIN T
      BY <1>3, <1>10, <3>1
    <3>3. QED
      BY <1>3, <1>9, <2>1, <3>1, <3>2
  <2>2. CASE m = i
    <3>1. ~T[i].leaf /\ Kids(T2, m) = low /\ low \subseteq Kids(T, i)
      BY <1>3, <1>6, <1>8, <1>13, <2>2
    <3>2. low \subseteq DOMAIN T /\ \A c \in low : T[c].father = i
      BY <1>3, <1>10, <3>1
    <3>3. QED
      BY <1>3, <1>8, <1>9, <2>2, <3>1, <3>2
  <2>3. CASE m \in DOMAIN T /\ m # i
    <3>1. ~T[m].leaf
      BY <1>6, <1>13, <2>3
    <3>2. Kids(T, m) \subseteq DOMAIN T /\ \A c \in Kids(T, m) : T[c].father = m
      BY <1>10, <2>3, <3>1
    <3>3. ASSUME NEW c \in Kids(T, m) PROVE T2[c].father = m
      <4>1. ~T[i].leaf => c \notin high
        BY <1>3, <1>8, <1>10, <2>3, <3>2
      <4>2. QED
        BY <1>9, <3>2, <4>1
    <3>4. Kids(T2, m) = Kids(T, m) \/ (m = f /\ Kids(T2, m) = Kids(T, m) \cup {s})
      BY <1>8, <2>3
    <3>5. QED
      BY <1>3, <1>9, <3>2, <3>3, <3>4
  <2>4. QED
    BY <1>3, <2>1, <2>2, <2>3
<1>14. T2[r].father = -1
  <2>1. ~T[i].leaf => r \notin high
    <3>1. ASSUME ~T[i].leaf, r \in high PROVE FALSE
      <4>1. T[r].father = i
        BY <1>3, <1>8, <1>10, <3>1
      <4>2. QED
        BY <1>3, <1>10, <4>1
    <3>2. QED
      BY <3>1
  <2>2. QED
    BY <1>3, <1>9, <1>10, <2>1
<1>15. h \in Nat /\ DOMAIN T2 \subseteq Nat /\ r \in DOMAIN T2
  BY <1>3
<1>16. QED
  BY <1>11, <1>12, <1>13, <1>14, <1>15 DEF Skeleton

\* The leaves, and what they hold, when the tree grows a root.
LEMMA GrownLeaves ==
  ASSUME NEW T, Apart(T), NEW T2, NEW r, NEW f, GrowsTo(T, T2, r, f)
  PROVE  Apart(T2) /\ PlacedIn(T2) = PlacedIn(T)
<1>1. LeavesOf(T2) = LeavesOf(T)
  BY DEF LeavesOf, GrowsTo
<1>2. \A n \in LeavesOf(T) : Kids(T2, n) = Kids(T, n)
  BY DEF LeavesOf, GrowsTo, Kids
<1>3. QED
  BY <1>1, <1>2 DEF Apart, PlacedIn

\* When a node is split, its leaves hold what they held.
LEMMA SplitLeaves ==
  ASSUME NEW T, Apart(T), NEW T2, NEW i, NEW f, NEW s, NEW low, NEW high,
         SplitsTo(T, T2, i, f, s, low, high), ~T[f].leaf
  PROVE  Apart(T2) /\ PlacedIn(T2) = PlacedIn(T)
<1>1. /\ DOMAIN T2 = DOMAIN T \cup {s} /\ s \notin DOMAIN T /\ i \in DOMAIN T /\ f \in DOMAIN T
      /\ low \cup high = Kids(T, i) /\ low \cap high = {}
      /\ \A n \in DOMAIN T : T2[n].leaf = T[n].leaf
      /\ T2[s].leaf = T[i].leaf /\ Kids(T2, i) = low /\ Kids(T2, s) = high
      /\ \A n \in DOMAIN T \ {i, f} : Kids(T2, n) = Kids(T, n)
  BY DEF SplitsTo
<1>2. \A n \in LeavesOf(T) : n \in DOMAIN T /\ n # f /\ T[n].leaf
  BY DEF LeavesOf
<1>3. \A n \in LeavesOf(T) \ {i} : Kids(T2, n) = Kids(T, n)
  BY <1>1, <1>2
<1>4. CASE T[i].leaf
  <2>1. LeavesOf(T2) = LeavesOf(T) \cup {s} /\ i \in LeavesOf(T) /\ s \notin LeavesOf(T)
    BY <1>1, <1>4 DEF LeavesOf
  <2>2. PlacedIn(T2) = PlacedIn(T)
    <3>1. ASSUME NEW x \in PlacedIn(T2) PROVE x \in PlacedIn(T)
      <4>1. PICK n \in LeavesOf(T2) : x \in Kids(T2, n)
        BY DEF PlacedIn
      <4>2. CASE n \in {i, s}
        BY <1>1, <2>1, <4>1, <4>2 DEF PlacedIn
      <4>3. CASE n \notin {i, s}
        BY <1>3, <2>1, <4>1, <4>3 DEF PlacedIn
      <4>4. QED
        BY <4>2, <4>3
    <3>2. ASSUME NEW x \in PlacedIn(T) PROVE x \in PlacedIn(T2)
      <4>1. PICK n \in LeavesOf(T) : x \in Kids(T, n)
        BY DEF PlacedIn
      <4>2. CASE n = i
        BY <1>1, <2>1, <4>1, <4>2 DEF PlacedIn
      <4>3. CASE n # i
        BY <1>3, <2>1, <4>1, <4>3 DEF PlacedIn
      <4>4. QED
        BY <4>2, <4>3
    <3>3. QED
      BY <3>1, <3>2
  <2>3. ASSUME NEW m \in LeavesOf(T2), NEW n \in LeavesOf(T2), m # n
        PROVE  Kids(T2, m) \cap Kids(T2, n) = {}
    <3>1. \A l \in LeavesOf(T2) : l \in LeavesOf(T) \ {i} \/ l = i \/ l = s
      BY <2>1
    <3>2. \A l \in LeavesOf(T) \ {i} : Kids(T2, l) = Kids(T, l) /\ Kids(T, l) \cap Kids(T, i) = {}
      BY <1>3, <2>1 DEF Apart
    <3>3. \A k, l \in LeavesOf(T) \ {i} : k # l => Kids(T, k) \cap Kids(T, l) = {}
      BY DEF Apart
    <3>4. CASE m \in LeavesOf(T) \ {i} /\ n \in LeavesOf(T) \ {i}
      BY <2>3, <3>2, <3>3, <3>4
    <3>5. CASE m \in LeavesOf(T) \ {i} /\ n \in {i, s}
      BY <1>1, <3>2, <3>5
    <3>6. CASE m \in {i, s} /\ n \in LeavesOf(T) \ {i}
      BY <1>1, <3>2, <3>6
    <3>7. CASE m \in {i, s} /\ n \in {i, s}
      BY <1>1, <2>3, <3>7
    <3>8. QED
      BY <3>1, <3>4, <3>5, <3>6, <3>7
  <2>4. QED
    BY <2>2, <2>3 DEF Apart
<1>5. CASE ~T[i].leaf
  <2>1. LeavesOf(T2) = LeavesOf(T) /\ i \notin LeavesOf(T)
    BY <1>1, <1>5 DEF LeavesOf
  <2>2. QED
    BY <1>3, <2>1 DEF Apart, PlacedIn
<1>6. QED
  BY <1>4, <1>5

\* One leaf holds something else.
LEMMA LeafTurns ==
  ASSUME NEW T, Apart(T), NEW T2, SameLinks(T, T2), NEW i \in LeavesOf(T),
         \A n \in LeavesOf(T) \ {i} : T2[n].kids = T[n].kids,
         Kids(T2, i) \cap (PlacedIn(T) \ Kids(T, i)) = {}
  PROVE  Apart(T2) /\ PlacedIn(T2) = (PlacedIn(T) \ Kids(T, i)) \cup Kids(T2, i)
<1>1. LeavesOf(T2) = LeavesOf(T)
  BY DEF LeavesOf, SameLinks
<1>2. \A n \in LeavesOf(T) \ {i} : Kids(T2, n) = Kids(T, n) /\ Kids(T, n) \cap Kids(T, i) = {}
  BY DEF Kids, Apart
<1>3. \A n \in LeavesOf(T) \ {i} : Kids(T, n) \subseteq PlacedIn(T) \ Kids(T, i)
  BY <1>2 DEF PlacedIn
<1>4. PlacedIn(T2) = (PlacedIn(T) \ Kids(T, i)) \cup Kids(T2, i)
  <2>1. ASSUME NEW x \in PlacedIn(T2) PROVE x \in (PlacedIn(T) \ Kids(T, i)) \cup Kids(T2, i)
    <3>1. PICK n \in LeavesOf(T) : x \in Kids(T2, n)
      BY <1>1 DEF PlacedIn
    <3>2. QED
      BY <1>2, <1>3, <3>1
  <2>2. ASSUME NEW x \in PlacedIn(T) \ Kids(T, i) PROVE x \in PlacedIn(T2)
    <3>1. PICK n \in LeavesOf(T) : x \in Kids(T, n)
      BY DEF PlacedIn
    <3>2. QED
      BY <1>1, <1>2, <3>1 DEF PlacedIn
  <2>3. Kids(T2, i) \subseteq PlacedIn(T2)
    BY <1>1 DEF PlacedIn
  <2>4. QED
    BY <2>1, <2>2, <2>3
<1>5. ASSUME NEW m \in LeavesOf(T), NEW n \in LeavesOf(T), m # n
      PROVE  Kids(T2, m) \cap Kids(T2, n) = {}
  <2>1. CASE m # i /\ n # i
    BY <1>2, <1>5, <2>1 DEF Apart
  <2>2. CASE m = i
    BY <1>2, <1>3, <1>5, <2>2
  <2>3. CASE n = i
    BY <1>2, <1>3, <1>5, <2>3
  <2>4. QED
    BY <2>1, <2>2, <2>3
<1>6. QED
  BY <1>1, <1>4, <1>5 DEF Apart

-------------------------------------------------------------------------------
\* A well-formed tree T of the objects O, with root r and height h: its nodes
\* are numbered, linked to one tree with all leaves on one level, no object is
\* in two places, and every node is full enough and no more than one too full.
Numbered(S) == IsFiniteSet(S) /\ S = 0..Cardinality(S) - 1
Stored(O) == Numbered(DOMAIN O) /\ O \in [DOMAIN O -> RectT]
Typed(T) == Numbered(DOMAIN T) /\ \A n \in DOMAIN T : T[n] \in NodeT /\ Injective(T[n].kids)
Roomy(T, r, lo, hi) ==
  \A n \in DOMAIN T :
      /\ T[n].overflow <=> Len(T[n].kids) > hi
      /\ Len(T[n].kids) <= hi + 1
      /\ n # r => Len(T[n].kids) >= lo
      /\ n = r /\ ~T[n].leaf => Len(T[n].kids) >= 2
Whole(T, O, r, h, lo, hi) ==
  /\ Typed(T) /\ Skeleton(T, r, h) /\ Apart(T)
  /\ PlacedIn(T) \subseteq DOMAIN O
  /\ Roomy(T, r, lo, hi)
Calm(T) == \A n \in DOMAIN T : ~T[n].overflow

-------------------------------------------------------------------------------
\* The inductive invariant, part by part.
Splittings == {"split", "sorted", "candidates", "action", "weighted"}
Inserting == pc \in {"try", "insert"}

Settings == setup \in DOMAIN Setups /\ maximum_entry = conf.max /\ minimum_entry = conf.min

\* The tree is well-formed; only the node the driver is about to split is too full.
TreeOK ==
  /\ Stored(objects)
  /\ Whole(tree_nodes, objects, root, height, minimum_entry, maximum_entry)
  /\ iter \in DOMAIN tree_nodes
  /\ \A n \in DOMAIN tree_nodes :
         tree_nodes[n].overflow => n = iter /\ pc \in Splittings \cup {"undefined"}

\* What the driver is about to do, it can do: the cuts it chooses from are
\* there, and only a leaf is asked to give up objects.
DriverOK ==
  /\ pc \in {"idle", "try", "insert", "undefined"} \cup Splittings
  /\ pc \in Splittings \ {"split"} => tree_nodes[iter].overflow
  /\ pc = "sorted" => SplitMode = "sorted" /\ sorted_split_loc # <<>>
  /\ pc \in {"candidates", "action", "weighted"} => SplitMode = "candidate" /\ split_locations # <<>>
  /\ pc \in {"action", "weighted"} => candidate_split_action # <<>>
  /\ pc = "split" /\ SplitMode = "reinsert" => tree_nodes[iter].leaf

\* Every object is in a leaf, is to be inserted again, or is being inserted.
PlacesOK ==
  /\ rec \in Nat /\ Ids(pending)
  /\ PlacedIn(tree_nodes) \cup ASet(pending) \cup {k \in {rec} : Inserting} = DOMAIN objects
  /\ Inserting => rec \notin PlacedIn(tree_nodes)
  /\ Inserting /\ pending = <<>> => rec = ObjectCount - 1
  /\ pc \in {"idle", "try"} => pending = <<>>
  /\ pending # <<>> => rec = pending[1] /\ (~Inserting => rec \in PlacedIn(tree_nodes))
  /\ \A i \in 2..Len(pending) : pending[i] \notin PlacedIn(tree_nodes)

\* What earlier calls have listed is still about the tree as it is.
SortedOK ==
  tmp_sorted_children # <<>> =>
      /\ pc = "insert" /\ InsertMode = "sorted" /\ ~tree_nodes[iter].leaf
      /\ tmp_sorted_children \in Seq(Nat) /\ ASet(tmp_sorted_children) \subseteq Kids(tree_nodes, iter)
IsLocation(at) == \E o \in {1, 2}, c \in 1..CutsPerOrder : at = <<o, c>>
ListedOK ==
  /\ sorted_split_loc # <<>> =>
         /\ DOMAIN sorted_split_loc = Locations /\ Len(sorted_split_loc) = 2 * CutsPerOrder
         /\ \A i \in Locations : IsLocation(<<2 - sorted_split_loc[i][2], sorted_split_loc[i][3]>>)
  /\ split_locations # <<>> =>
         /\ DOMAIN split_locations = Locations
         /\ \A i \in Locations : /\ IsLocation(split_locations[i].at)
                                 /\ split_locations[i].perimeter1 \in Int /\ split_locations[i].overlap \in Int
  /\ candidate_split_action # <<>> => candidate_split_action \in [1..2 -> Locations]

\* The copy is a whole tree too.
CopyIs(c, lo, hi) ==
  /\ DOMAIN c = {"tree_nodes", "objects", "root", "height"}
  /\ Stored(c.objects) /\ Whole(c.tree_nodes, c.objects, c.root, c.height, lo, hi)
  /\ Calm(c.tree_nodes) /\ PlacedIn(c.tree_nodes) = DOMAIN c.objects
CopyOK ==
  /\ IsFiniteSet(copy) /\ Cardinality(copy) <= 1
  /\ \A c \in copy : CopyIs(c, minimum_entry, maximum_entry)

IInv == Settings /\ TreeOK /\ DriverOK /\ PlacesOK /\ SortedOK /\ ListedOK /\ CopyOK

-------------------------------------------------------------------------------
\* What the code does to one node.
IsNode(n, box, kids, overflow, leaf, father) ==
  /\ n \in NodeT
  /\ n.box = box /\ n.kids = kids /\ n.overflow = overflow /\ n.leaf = leaf /\ n.father = father

\* A node given by its fields.
LEMMA NodeIs ==
  ASSUME NEW box \in RectT, NEW kids \in Seq(Nat), NEW overflow \in BOOLEAN, NEW leaf \in BOOLEAN,
         NEW father \in Nat \cup {-1}
  PROVE  IsNode([box |-> box, kids |-> kids, overflow |-> overflow, leaf |-> leaf, father |-> father],
                box, kids, overflow, leaf, father)
BY DEF IsNode, NodeT

\* The fields of a node.
LEMMA NodeFields ==
  ASSUME NEW n \in NodeT
  PROVE  /\ n.box \in RectT /\ n.kids \in Seq(Nat) /\ n.overflow \in BOOLEAN /\ n.leaf \in BOOLEAN
         /\ n.father \in Nat \cup {-1}
         /\ n = [box |-> n.box, kids |-> n.kids, overflow |-> n.overflow, leaf |-> n.leaf, father |-> n.father]
BY DEF NodeT

\* The box of the empty node counts as a rectangle.
LEMMA EmptyBoxIsRect == NoRectangle \in RectT
<1>1. 1 \in Int /\ -1 \in Int
  OBVIOUS
<1>2. QED
  BY <1>1, RectIs DEF NoRectangle

\* TreeNode makes an empty node.
LEMMA NewNode ==
  ASSUME NEW leaf \in BOOLEAN
  PROVE  IsNode(TreeNode(leaf), NoRectangle, <<>>, FALSE, leaf, -1)
<1>1. <<>> \in Seq(Nat) /\ FALSE \in BOOLEAN /\ -1 \in Nat \cup {-1}
  OBVIOUS
<1>2. QED
  BY <1>1, EmptyBoxIsRect, NodeIs DEF TreeNode

\* The box that Include gives a node.
Included(n, r) == IF n.kids = <<>> THEN r ELSE Merge(n.box, r)

\* Include changes the box alone.
LEMMA NodeIncludes ==
  ASSUME NEW n \in NodeT, NEW r \in RectT
  PROVE  IsNode(Include(n, r), Included(n, r), n.kids, n.overflow, n.leaf, n.father)
<1>1. Included(n, r) \in RectT
  BY NodeFields, MergeIs DEF Included
<1>2. Include(n, r) = [box |-> Included(n, r), kids |-> n.kids, overflow |-> n.overflow,
                       leaf |-> n.leaf, father |-> n.father]
  BY NodeFields DEF Include, Included
<1>3. QED
  BY <1>1, <1>2, NodeFields, NodeIs

\* AddChildren changes the entries, and flags one too many.
LEMMA NodeAdds ==
  ASSUME NEW n \in NodeT, NEW id \in Nat
  PROVE  IsNode(AddChildren(n, id), n.box, Append(n.kids, id),
                n.overflow \/ Len(n.kids) + 1 > maximum_entry, n.leaf, n.father)
<1>1. PICK kids : kids = Append(n.kids, id)
  OBVIOUS
<1>2. PICK over : over = (n.overflow \/ Len(n.kids) + 1 > maximum_entry)
  OBVIOUS
<1>3. kids \in Seq(Nat) /\ over \in BOOLEAN
  <2>1. n.kids \in Seq(Nat) /\ n.overflow \in BOOLEAN
    BY NodeFields
  <2>2. kids \in Seq(Nat)
    BY <1>1, <2>1, AppendProperties
  <2>3. over \in BOOLEAN
    BY <1>2, <2>1
  <2>4. QED
    BY <2>2, <2>3
<1>4. PICK m : m = [n EXCEPT !.kids = kids, !.overflow = over]
  OBVIOUS
<1>5. IsNode(m, n.box, kids, over, n.leaf, n.father)
  <2>1. m \in NodeT
    BY <1>3, <1>4 DEF NodeT
  <2>2. m.box = n.box /\ m.kids = kids /\ m.leaf = n.leaf /\ m.father = n.father
    BY <1>4 DEF NodeT
  <2>3. m.overflow = over
    BY <1>4 DEF NodeT
  <2>4. QED
    BY <2>1, <2>2, <2>3 DEF IsNode
<1>6. AddChildren(n, id) = m
  BY ONLY <1>1, <1>2, <1>4, Zenon DEF AddChildren
<1>7. QED
  BY <1>1, <1>2, <1>5, <1>6

\* A row with one more id.
LEMMA RowGrows ==
  ASSUME NEW a, Ids(a), NEW x \in Nat
  PROVE  /\ Append(a, x) \in Seq(Nat) /\ Len(Append(a, x)) = Len(a) + 1
         /\ ASet(Append(a, x)) = ASet(a) \cup {x}
         /\ x \notin ASet(a) => Ids(Append(a, x))
<1>1. PICK b : b = Append(a, x)
  OBVIOUS
<1>2. PICK n \in Nat : n = Len(a)
  BY SetOf DEF Ids
<1>3. /\ b \in Seq(Nat) /\ Len(b) = n + 1 /\ b[n + 1] = x
      /\ \A i \in 1..n : b[i] = a[i]
  BY <1>1, <1>2, AppendProperties DEF Ids
<1>4. DOMAIN a = 1..n /\ DOMAIN b = 1..n + 1
  BY <1>2, <1>3, LenProperties DEF Ids
<1>5. 1..n + 1 = (1..n) \cup {n + 1}
  OBVIOUS
<1>6. ASet(b) = ASet(a) \cup {x}
  <2>1. \A i \in 1..n + 1 : b[i] \in ASet(a) \cup {x}
    BY <1>3, <1>4, <1>5 DEF ASet
  <2>2. ASSUME NEW y \in ASet(a) PROVE \E i \in 1..n + 1 : b[i] = y
    BY <1>3, <1>4, <1>5 DEF ASet
  <2>3. \A y \in ASet(a) \cup {x} : y \in ASet(b)
    BY <1>3, <1>4, <1>5, <2>2 DEF ASet
  <2>4. \A y \in ASet(b) : y \in ASet(a) \cup {x}
    BY <1>4, <2>1 DEF ASet
  <2>5. QED
    BY <2>3, <2>4
<1>7. x \notin ASet(a) => Ids(b)
  <2>1. ASSUME x \notin ASet(a) PROVE Joined(b, a, <<x>>)
    BY <1>1, <2>1, RowAppends
  <2>2. QED
    BY <2>1 DEF Joined
<1>8. QED
  BY <1>1, <1>2, <1>3, <1>6, <1>7

-------------------------------------------------------------------------------
\* Numbers.
LEMMA NumberedNext ==
  ASSUME NEW S, Numbered(S), NEW n, n = Cardinality(S)
  PROVE  /\ n \in Nat /\ n \notin S /\ S = 0..n - 1
         /\ S \cup {n} = 0..n /\ Numbered(S \cup {n}) /\ Cardinality(S \cup {n}) = n + 1
<1>1. n \in Nat /\ S = 0..n - 1 /\ IsFiniteSet(S)
  BY FS_CardinalityType DEF Numbered
<1>2. n \notin S /\ S \cup {n} = 0..n
  <2>1. n \notin 0..n - 1 /\ (0..n - 1) \cup {n} = 0..n
    BY <1>1
  <2>2. QED
    BY <1>1, <2>1
<1>3. IsFiniteSet(S \cup {n}) /\ Cardinality(S \cup {n}) = n + 1
  BY <1>1, <1>2, FS_AddElement
<1>4. 0..n = 0..(n + 1) - 1
  BY <1>1
<1>5. QED
  BY <1>1, <1>2, <1>3, <1>4 DEF Numbered

\* The invariant bounds the fan-outs as the splits need it.
LEMMA FanOutsOf ==
  ASSUME Settings
  PROVE  FanOuts /\ conf \in SetupT /\ conf.max = maximum_entry /\ conf.min = minimum_entry
<1>1. conf \in SetupT /\ conf.min >= 2 /\ 2 * conf.min <= conf.max + 1
  BY SetupAssumption DEF Settings, conf
<1>2. conf.max \in Nat /\ conf.min \in Nat
  BY <1>1 DEF SetupT
<1>3. QED
  BY <1>1, <1>2 DEF Settings, FanOuts

-------------------------------------------------------------------------------
\* What a call does to the tree, in three kinds.  First: only boxes change.
WholeWith(T, O, r, h, lo, hi, placed) == Whole(T, O, r, h, lo, hi) /\ PlacedIn(T) = placed
SameNode(a, b) == a.kids = b.kids /\ a.overflow = b.overflow /\ a.leaf = b.leaf /\ a.father = b.father
OnlyBoxes(T, T2) == DOMAIN T2 = DOMAIN T /\ \A n \in DOMAIN T : T2[n] \in NodeT /\ SameNode(T2[n], T[n])

LEMMA BoxesChange ==
  ASSUME NEW T, NEW O, NEW r, NEW h, NEW lo, NEW hi, Whole(T, O, r, h, lo, hi), NEW T2, OnlyBoxes(T, T2)
  PROVE  Whole(T2, O, r, h, lo, hi) /\ PlacedIn(T2) = PlacedIn(T)
<1>1. DOMAIN T2 = DOMAIN T /\ \A n \in DOMAIN T : T2[n] \in NodeT
  BY DEF OnlyBoxes
<1>2. \A n \in DOMAIN T : /\ T2[n].kids = T[n].kids /\ T2[n].overflow = T[n].overflow
                          /\ T2[n].leaf = T[n].leaf /\ T2[n].father = T[n].father
  BY DEF OnlyBoxes, SameNode
<1>3. LeavesOf(T2) = LeavesOf(T) /\ \A n \in DOMAIN T : Kids(T2, n) = Kids(T, n)
  BY <1>1, <1>2 DEF LeavesOf, Kids
<1>4. PlacedIn(T2) = PlacedIn(T) /\ (Apart(T) => Apart(T2))
  BY <1>1, <1>3 DEF PlacedIn, Apart, LeavesOf
<1>5. Typed(T2)
  BY <1>1, <1>2 DEF Whole, Typed
<1>6. Skeleton(T2, r, h)
  <2>1. SameLinks(T, T2)
    BY <1>1, <1>2 DEF SameLinks
  <2>2. QED
    BY <2>1, LinksStay DEF Whole
<1>7. Roomy(T2, r, lo, hi)
  BY <1>1, <1>2 DEF Whole, Roomy
<1>8. QED
  BY <1>4, <1>5, <1>6, <1>7 DEF Whole

\* Second: one leaf holds other objects, of those that no other leaf holds.
LeafHolds(T, T2, i, kids, over) ==
  /\ DOMAIN T2 = DOMAIN T
  /\ \A n \in DOMAIN T \ {i} : T2[n] \in NodeT /\ SameNode(T2[n], T[n])
  /\ T2[i] \in NodeT /\ T2[i].kids = kids /\ T2[i].overflow = over
  /\ T2[i].leaf = T[i].leaf /\ T2[i].father = T[i].father
Fits(kids, over, isRoot, lo, hi) ==
  /\ Ids(kids) /\ (over <=> Len(kids) > hi) /\ Len(kids) <= hi + 1 /\ (~isRoot => Len(kids) >= lo)

\* Second: one leaf has other entries.
LEMMA LeafChanges ==
  ASSUME NEW T, NEW O, NEW r, NEW h, NEW lo, NEW hi, Whole(T, O, r, h, lo, hi),
         NEW T2, NEW i \in LeavesOf(T), NEW kids, NEW over, LeafHolds(T, T2, i, kids, over),
         Fits(kids, over, i = r, lo, hi), ASet(kids) \subseteq DOMAIN O,
         ASet(kids) \cap (PlacedIn(T) \ Kids(T, i)) = {}
  PROVE  WholeWith(T2, O, r, h, lo, hi, (PlacedIn(T) \ Kids(T, i)) \cup ASet(kids))
<1>1. i \in DOMAIN T /\ T[i].leaf /\ DOMAIN T2 = DOMAIN T /\ \A n \in DOMAIN T : T2[n] \in NodeT
  BY DEF LeafHolds, LeavesOf
<1>2. \A n \in DOMAIN T \ {i} : /\ T2[n].kids = T[n].kids /\ T2[n].overflow = T[n].overflow
                                /\ T2[n].leaf = T[n].leaf /\ T2[n].father = T[n].father
  BY DEF LeafHolds, SameNode
<1>3. /\ T2[i].kids = kids /\ T2[i].overflow = over /\ Kids(T2, i) = ASet(kids)
      /\ T2[i].leaf = T[i].leaf /\ T2[i].father = T[i].father
  BY DEF LeafHolds, Kids
<1>4. SameLinks(T, T2)
  BY <1>1, <1>2, <1>3 DEF SameLinks
<1>5. Skeleton(T2, r, h)
  BY <1>4, LinksStay DEF Whole
<1>6. Apart(T2) /\ PlacedIn(T2) = (PlacedIn(T) \ Kids(T, i)) \cup Kids(T2, i)
  <2>1. \A n \in LeavesOf(T) \ {i} : T2[n].kids = T[n].kids
    BY <1>2 DEF LeavesOf
  <2>2. QED
    BY <1>3, <1>4, <2>1, LeafTurns DEF Whole
<1>7. Typed(T2)
  BY <1>1, <1>2, <1>3 DEF Whole, Typed, Fits, Ids
<1>8. Roomy(T2, r, lo, hi)
  <2>1. \A n \in DOMAIN T \ {i} : /\ T2[n].overflow <=> Len(T2[n].kids) > hi
                                  /\ Len(T2[n].kids) <= hi + 1
                                  /\ n # r => Len(T2[n].kids) >= lo
                                  /\ n = r /\ ~T2[n].leaf => Len(T2[n].kids) >= 2
    BY <1>2 DEF Whole, Roomy
  <2>2. /\ T2[i].overflow <=> Len(T2[i].kids) > hi
        /\ Len(T2[i].kids) <= hi + 1
        /\ i # r => Len(T2[i].kids) >= lo
        /\ T2[i].leaf
    BY <1>1, <1>3 DEF Fits
  <2>3. QED
    BY <1>1, <2>1, <2>2 DEF Roomy
<1>9. PlacedIn(T2) \subseteq DOMAIN O
  BY <1>3, <1>6 DEF Whole
<1>10. QED
  BY <1>3, <1>5, <1>6, <1>7, <1>8, <1>9 DEF Whole, WholeWith

\* Third: a node i is split.  It keeps d.low, its new sibling s gets d.high, and
\* the father f of both, top until then, gets s as a child.
Torn(T, T2, i, s, f, d, top, hi) ==
  /\ DOMAIN T2 = DOMAIN T \cup {s, f}
  /\ IsNode(T2[i], d.box1, d.low, FALSE, T[i].leaf, f)
  /\ IsNode(T2[s], d.box2, d.high, FALSE, T[i].leaf, f)
  /\ T2[f] \in NodeT /\ T2[f].kids = Append(top.kids, s) /\ ~T2[f].leaf /\ T2[f].father = top.father
  /\ T2[f].overflow <=> (top.overflow \/ Len(top.kids) + 1 > hi)
  /\ \A n \in DOMAIN T \ {i, f} :
         IsNode(T2[n], T[n].box, T[n].kids, T[n].overflow, T[n].leaf,
                IF ~T[i].leaf /\ n \in ASet(d.high) THEN s ELSE T[n].father)
\* What it is split into.
Halved(d, kids, lo, hi) == Shares(d, kids) /\ Len(d.low) \in lo..hi /\ Len(d.high) \in lo..hi

\* No node is its own child or grandchild.
LEMMA LevelsApart ==
  ASSUME NEW T, NEW r, NEW h, Skeleton(T, r, h), NEW i \in DOMAIN T, ~T[i].leaf
  PROVE  /\ i \notin Kids(T, i)
         /\ \A f \in Kids(T, i) : T[f].leaf \/ i \notin Kids(T, f)
<1>1. PICK lev : Levels(T, r, h, lev)
  BY DEF Skeleton
<1>2. h \in Nat /\ Kids(T, i) \subseteq DOMAIN T /\ \A n \in DOMAIN T : lev[n] \in 1..h
  BY <1>1 DEF Skeleton, Levels
<1>3. \A m \in DOMAIN T : ~T[m].leaf => \A c \in Kids(T, m) : lev[c] = lev[m] - 1
  BY <1>1 DEF Levels
<1>4. lev[i] \in Nat /\ lev[i] # lev[i] - 1 /\ lev[i] # (lev[i] - 1) - 1
  <2>1. lev[i] \in 1..h
    BY <1>2
  <2>2. QED
    BY <1>2, <2>1
<1>5. i \notin Kids(T, i)
  BY <1>3, <1>4
<1>6. ASSUME NEW f \in Kids(T, i), ~T[f].leaf, i \in Kids(T, f) PROVE FALSE
  <2>1. lev[f] = lev[i] - 1
    BY <1>3
  <2>2. f \in DOMAIN T
    BY <1>2
  <2>3. lev[i] = lev[f] - 1
    BY <1>3, <1>6, <2>2
  <2>4. QED
    BY <1>4, <2>1, <2>3
<1>7. QED
  BY <1>5, <1>6

FullOnly(T, i) == \A n \in DOMAIN T : T[n].overflow => n = i

TornBelow(T, T2, i, s, f, d, lo, hi) ==
  /\ f = T[i].father /\ s = Cardinality(DOMAIN T) /\ Halved(d, T[i].kids, lo, hi)
  /\ Torn(T, T2, i, s, f, d, T[f], hi)

\* Third: a node is divided, below a father.
LEMMA SplitBelow ==
  ASSUME NEW T, NEW O, NEW r, NEW h, NEW lo \in Nat, NEW hi \in Nat, Whole(T, O, r, h, lo, hi),
         NEW i \in DOMAIN T, i # r, FullOnly(T, i),
         NEW f, NEW s, NEW d, NEW T2, TornBelow(T, T2, i, s, f, d, lo, hi)
  PROVE  /\ Whole(T2, O, r, h, lo, hi) /\ PlacedIn(T2) = PlacedIn(T) /\ f \in DOMAIN T2
         /\ FullOnly(T2, f)
<1>0. /\ f = T[i].father /\ s = Cardinality(DOMAIN T) /\ Halved(d, T[i].kids, lo, hi)
      /\ Torn(T, T2, i, s, f, d, T[f], hi)
  BY DEF TornBelow
<1> USE <1>0
<1>1. Typed(T) /\ Skeleton(T, r, h) /\ Apart(T) /\ PlacedIn(T) \subseteq DOMAIN O /\ Roomy(T, r, lo, hi)
  BY DEF Whole
<1>2. s \in Nat /\ s \notin DOMAIN T /\ Numbered(DOMAIN T \cup {s})
  BY <1>1, NumberedNext DEF Typed
<1>3. f \in DOMAIN T /\ ~T[f].leaf /\ i \in Kids(T, f) /\ Kids(T, f) \subseteq DOMAIN T
  BY <1>1 DEF Skeleton
<1>4. i # f /\ (~T[i].leaf => f \notin Kids(T, i) /\ i \notin Kids(T, i))
  BY <1>1, <1>3, LevelsApart
<1>5. /\ Ids(d.low) /\ Ids(d.high) /\ ASet(d.low) \cup ASet(d.high) = Kids(T, i)
      /\ ASet(d.low) \cap ASet(d.high) = {}
      /\ Len(d.low) \in Nat /\ Len(d.low) >= lo /\ Len(d.low) <= hi
      /\ Len(d.high) \in Nat /\ Len(d.high) >= lo /\ Len(d.high) <= hi
  BY DEF Halved, Shares, Kids
<1>6. DOMAIN T2 = DOMAIN T \cup {s}
  BY <1>3 DEF Torn
<1>7. /\ T2[i] \in NodeT /\ T2[i].kids = d.low /\ ~T2[i].overflow /\ T2[i].leaf = T[i].leaf /\ T2[i].father = f
      /\ T2[s] \in NodeT /\ T2[s].kids = d.high /\ ~T2[s].overflow /\ T2[s].leaf = T[i].leaf /\ T2[s].father = f
  BY DEF Torn, IsNode
<1>8. Ids(T[f].kids) /\ ~T[f].overflow /\ Len(T[f].kids) \in Nat /\ Len(T[f].kids) <= hi
      /\ (f # r => Len(T[f].kids) >= lo) /\ (f = r => Len(T[f].kids) >= 2)
  <2>1. T[f] \in NodeT /\ Ids(T[f].kids)
    BY <1>1, <1>3 DEF Typed, NodeT, Ids
  <2>2. ~T[f].overflow
    BY <1>3, <1>4 DEF FullOnly
  <2>3. Len(T[f].kids) \in Nat
    BY <2>1, SetOf DEF Ids
  <2>4. QED
    BY <1>1, <1>3, <2>1, <2>2, <2>3 DEF Roomy
<1>9. /\ T2[f] \in NodeT /\ ~T2[f].leaf /\ T2[f].father = T[f].father
      /\ Ids(T2[f].kids) /\ Len(T2[f].kids) = Len(T[f].kids) + 1 /\ Kids(T2, f) = Kids(T, f) \cup {s}
      /\ T2[f].overflow <=> Len(T2[f].kids) > hi
  <2>1. T2[f].kids = Append(T[f].kids, s) /\ T2[f] \in NodeT /\ ~T2[f].leaf /\ T2[f].father = T[f].father
    BY DEF Torn
  <2>2. T2[f].overflow <=> Len(T[f].kids) + 1 > hi
    BY <1>8 DEF Torn
  <2>3. s \notin ASet(T[f].kids)
    BY <1>2, <1>3 DEF Kids
  <2>4. Ids(T2[f].kids) /\ Len(T2[f].kids) = Len(T[f].kids) + 1 /\ ASet(T2[f].kids) = ASet(T[f].kids) \cup {s}
    BY <1>2, <1>8, <2>1, <2>3, RowGrows
  <2>5. QED
    BY <2>1, <2>2, <2>4 DEF Kids
<1>10. \A n \in DOMAIN T \ {i, f} :
           /\ T2[n] \in NodeT /\ T2[n].kids = T[n].kids /\ T2[n].overflow = T[n].overflow /\ T2[n].leaf = T[n].leaf
           /\ T2[n].father = IF ~T[i].leaf /\ n \in ASet(d.high) THEN s ELSE T[n].father
  BY DEF Torn, IsNode
<1>11. SplitsTo(T, T2, i, f, s, ASet(d.low), ASet(d.high))
  <2>1. \A n \in DOMAIN T : T2[n].leaf = T[n].leaf
    <3>1. T2[f].leaf = T[f].leaf
      <4>1. T[f].leaf \in BOOLEAN /\ T2[f].leaf \in BOOLEAN
        BY <1>1, <1>3, <1>9 DEF Typed, NodeT
      <4>2. QED
        BY <1>3, <1>9, <4>1
    <3>2. QED
      BY <1>7, <1>10, <3>1
  <2>2. \A n \in DOMAIN T : T2[n].father = IF ~T[i].leaf /\ n \in ASet(d.high) THEN s ELSE T[n].father
    <3>1. ~T[i].leaf => f \notin ASet(d.high) /\ i \notin ASet(d.high)
      BY <1>4, <1>5
    <3>2. QED
      BY <1>7, <1>9, <1>10, <3>1
  <2>3. Kids(T2, i) = ASet(d.low) /\ Kids(T2, s) = ASet(d.high) /\ \A n \in DOMAIN T \ {i, f} : Kids(T2, n) = Kids(T, n)
    BY <1>7, <1>10 DEF Kids
  <2>4. QED
    BY <1>2, <1>3, <1>5, <1>6, <1>7, <1>9, <2>1, <2>2, <2>3 DEF SplitsTo
<1>12. Skeleton(T2, r, h)
  BY <1>1, <1>11, SplitSkeleton
<1>13. Apart(T2) /\ PlacedIn(T2) = PlacedIn(T)
  BY <1>1, <1>3, <1>11, SplitLeaves
<1>14. Typed(T2)
  <2>1. \A n \in DOMAIN T2 : T2[n] \in NodeT
    BY <1>6, <1>7, <1>9, <1>10
  <2>2. \A n \in DOMAIN T2 : Injective(T2[n].kids)
    BY <1>1, <1>5, <1>6, <1>7, <1>9, <1>10 DEF Typed, Ids
  <2>3. QED
    BY <1>2, <1>6, <2>1, <2>2 DEF Typed
<1>15. \A n \in DOMAIN T \ {i, f} :
           /\ T2[n].overflow <=> Len(T2[n].kids) > hi
           /\ Len(T2[n].kids) <= hi + 1
           /\ n # r => Len(T2[n].kids) >= lo
           /\ n = r /\ ~T2[n].leaf => Len(T2[n].kids) >= 2
  BY <1>1, <1>10 DEF Roomy
<1>16. Roomy(T2, r, lo, hi)
  <2>1. ~(Len(d.low) > hi) /\ ~(Len(d.high) > hi) /\ Len(d.low) <= hi + 1 /\ Len(d.high) <= hi + 1
    BY <1>5
  <2>2. /\ Len(T2[f].kids) <= hi + 1 /\ (f # r => Len(T2[f].kids) >= lo)
        /\ (f = r => Len(T2[f].kids) >= 2)
    BY <1>8, <1>9
  <2>3. s # r
    BY <1>1, <1>2 DEF Skeleton
  <2>4. QED
    BY <1>5, <1>6, <1>7, <1>9, <1>15, <2>1, <2>2, <2>3 DEF Roomy
<1>17. FullOnly(T2, f)
  BY <1>6, <1>7, <1>10 DEF FullOnly
<1>18. QED
  BY <1>1, <1>3, <1>6, <1>12, <1>13, <1>14, <1>16, <1>17 DEF Whole

\* And the root is divided, below a new one.
LEMMA SplitRoot ==
  ASSUME NEW T, NEW O, NEW r, NEW h, NEW lo \in Nat, NEW hi \in Nat, Whole(T, O, r, h, lo, hi), hi >= 2,
         NEW s, s = Cardinality(DOMAIN T), NEW f, f = s + 1,
         \A n \in DOMAIN T : T[n].overflow => n = r,
         NEW top, top \in NodeT, top.kids = <<r>>, ~top.overflow, ~top.leaf, top.father = -1,
         NEW d, Halved(d, T[r].kids, lo, hi), NEW T2, Torn(T, T2, r, s, f, d, top, hi)
  PROVE  /\ Whole(T2, O, f, h + 1, lo, hi) /\ PlacedIn(T2) = PlacedIn(T) /\ f \in DOMAIN T2
         /\ \A n \in DOMAIN T2 : T2[n].overflow => n = f
<1>1. Typed(T) /\ Skeleton(T, r, h) /\ Apart(T) /\ PlacedIn(T) \subseteq DOMAIN O /\ Roomy(T, r, lo, hi)
  BY DEF Whole
<1>2. /\ s \in Nat /\ s \notin DOMAIN T /\ Numbered(DOMAIN T \cup {s}) /\ DOMAIN T \cup {s} = 0..s
      /\ Cardinality(DOMAIN T \cup {s}) = s + 1
  BY <1>1, NumberedNext DEF Typed
<1>3. f \in Nat /\ f \notin DOMAIN T /\ f # s /\ Numbered(DOMAIN T \cup {s} \cup {f})
  <2>1. f \notin 0..s /\ f \in Nat /\ f # s
    BY <1>2
  <2>2. Numbered((DOMAIN T \cup {s}) \cup {f})
    BY <1>2, NumberedNext
  <2>3. QED
    BY <1>2, <2>1, <2>2
<1>4. r \in DOMAIN T /\ r \in Nat /\ r # f /\ r # s
  BY <1>1, <1>2, <1>3 DEF Skeleton
<1>5. ~T[r].leaf => r \notin Kids(T, r)
  BY <1>1, <1>4, LevelsApart
<1>6. /\ Ids(d.low) /\ Ids(d.high) /\ ASet(d.low) \cup ASet(d.high) = Kids(T, r)
      /\ ASet(d.low) \cap ASet(d.high) = {}
      /\ Len(d.low) \in Nat /\ Len(d.low) >= lo /\ Len(d.low) <= hi
      /\ Len(d.high) \in Nat /\ Len(d.high) >= lo /\ Len(d.high) <= hi
  BY DEF Halved, Shares, Kids
<1>7. DOMAIN T2 = (DOMAIN T \cup {f}) \cup {s}
  BY DEF Torn
<1>8. /\ T2[r] \in NodeT /\ T2[r].kids = d.low /\ ~T2[r].overflow /\ T2[r].leaf = T[r].leaf /\ T2[r].father = f
      /\ T2[s] \in NodeT /\ T2[s].kids = d.high /\ ~T2[s].overflow /\ T2[s].leaf = T[r].leaf /\ T2[s].father = f
  BY DEF Torn, IsNode
<1>9. /\ T2[f] \in NodeT /\ ~T2[f].leaf /\ T2[f].father = -1
      /\ Ids(T2[f].kids) /\ Len(T2[f].kids) = 2 /\ Kids(T2, f) = {r} \cup {s} /\ ~T2[f].overflow
  <2>1. Ids(top.kids) /\ Len(top.kids) = 1 /\ ASet(top.kids) = {r}
    BY <1>4, OneId
  <2>2. T2[f].kids = Append(top.kids, s) /\ T2[f] \in NodeT /\ ~T2[f].leaf /\ T2[f].father = -1
    BY DEF Torn
  <2>3. Ids(T2[f].kids) /\ Len(T2[f].kids) = Len(top.kids) + 1 /\ ASet(T2[f].kids) = ASet(top.kids) \cup {s}
    <3>1. s \in Nat /\ s \notin ASet(top.kids)
      BY <1>2, <1>4, <2>1
    <3>2. PICK a : a = top.kids
      OBVIOUS
    <3>3. Ids(a) /\ s \notin ASet(a)
      BY <2>1, <3>1, <3>2
    <3>4. Ids(Append(a, s)) /\ Len(Append(a, s)) = Len(a) + 1 /\ ASet(Append(a, s)) = ASet(a) \cup {s}
      BY ONLY <3>1, <3>3, RowGrows
    <3>5. QED
      BY ONLY <2>2, <3>2, <3>4
  <2>4. ~T2[f].overflow
    <3>1. ~(Len(top.kids) + 1 > hi)
      BY <2>1
    <3>2. QED
      BY <3>1 DEF Torn
  <2>5. QED
    BY <2>1, <2>2, <2>3, <2>4 DEF Kids
<1>10. \A n \in DOMAIN T \ {r} :
           /\ T2[n] \in NodeT /\ T2[n].kids = T[n].kids /\ T2[n].overflow = T[n].overflow /\ T2[n].leaf = T[n].leaf
           /\ T2[n].father = IF ~T[r].leaf /\ n \in ASet(d.high) THEN s ELSE T[n].father
  BY <1>3 DEF Torn, IsNode
<1>11. PICK T1 : T1 = [n \in DOMAIN T \cup {f} |-> IF n = f THEN top
                                                 ELSE IF n = r THEN [T[r] EXCEPT !.father = f] ELSE T[n]]
  OBVIOUS
<1>12. /\ DOMAIN T1 = DOMAIN T \cup {f} /\ T1[f] = top
       /\ \A n \in DOMAIN T \ {r} : T1[n] = T[n]
       /\ T1[r].kids = T[r].kids /\ T1[r].leaf = T[r].leaf /\ T1[r].father = f
  <2>1. T[r] \in NodeT
    BY <1>1, <1>4 DEF Typed
  <2>2. T1[r] = [T[r] EXCEPT !.father = f]
    BY <1>4, <1>11
  <2>3. T1[r].kids = T[r].kids /\ T1[r].leaf = T[r].leaf /\ T1[r].father = f
    BY <2>1, <2>2 DEF NodeT
  <2>4. QED
    BY <1>3, <1>11, <2>3
<1>13. \A n \in DOMAIN T : T1[n].leaf = T[n].leaf /\ T1[n].kids = T[n].kids
  BY <1>12
<1>14. Kids(T1, f) = {r} /\ \A n \in DOMAIN T : Kids(T1, n) = Kids(T, n)
  BY <1>4, <1>12, <1>13, OneId DEF Kids
<1>15. GrowsTo(T, T1, r, f)
  BY <1>3, <1>12, <1>13, <1>14 DEF GrowsTo
<1>16. SplitsTo(T1, T2, r, f, s, ASet(d.low), ASet(d.high))
  <2>1. \A n \in DOMAIN T1 : T2[n].leaf = T1[n].leaf
    <3>1. T2[f].leaf = top.leaf
      <4>1. T2[f].leaf \in BOOLEAN /\ top.leaf \in BOOLEAN
        BY <1>9 DEF NodeT
      <4>2. QED
        BY <1>9, <4>1
    <3>2. QED
      BY <1>8, <1>10, <1>12, <1>13, <3>1
  <2>2. \A n \in DOMAIN T1 : T2[n].father = IF ~T1[r].leaf /\ n \in ASet(d.high) THEN s ELSE T1[n].father
    <3>1. ~T[r].leaf => f \notin ASet(d.high) /\ r \notin ASet(d.high)
      <4>1. ~T[r].leaf => Kids(T, r) \subseteq DOMAIN T
        BY <1>1, <1>4 DEF Skeleton
      <4>2. QED
        BY <1>3, <1>5, <1>6, <4>1
    <3>2. T2[f].father = T1[f].father /\ T2[r].father = T1[r].father
      BY <1>8, <1>9, <1>12
    <3>3. QED
      BY <1>10, <1>12, <3>1, <3>2
  <2>3. Kids(T2, r) = ASet(d.low) /\ Kids(T2, s) = ASet(d.high)
    BY <1>8 DEF Kids
  <2>4. \A n \in DOMAIN T1 \ {r, f} : Kids(T2, n) = Kids(T1, n)
    BY <1>10, <1>12, <1>13 DEF Kids
  <2>5. ASet(d.low) \cup ASet(d.high) = Kids(T1, r) /\ Kids(T2, f) = Kids(T1, f) \cup {s}
    BY <1>4, <1>6, <1>9, <1>14
  <2>6. s \notin DOMAIN T1
    BY <1>2, <1>3, <1>12
  <2>7. QED
    BY <1>2, <1>4, <1>6, <1>7, <1>8, <1>12, <2>1, <2>2, <2>3, <2>4, <2>5, <2>6 DEF SplitsTo
<1>17. Skeleton(T2, f, h + 1)
  <2>1. Skeleton(T1, f, h + 1)
    BY <1>1, <1>15, GrownSkeleton
  <2>2. QED
    BY <1>4, <1>16, <2>1, SplitSkeleton
<1>18. Apart(T2) /\ PlacedIn(T2) = PlacedIn(T)
  <2>1. Apart(T1) /\ PlacedIn(T1) = PlacedIn(T)
    BY <1>1, <1>15, GrownLeaves
  <2>2. QED
    BY <1>12, <1>16, <2>1, SplitLeaves
<1>19. Typed(T2)
  <2>1. \A n \in DOMAIN T2 : T2[n] \in NodeT
    BY <1>7, <1>8, <1>9, <1>10
  <2>2. \A n \in DOMAIN T2 : Injective(T2[n].kids)
    BY <1>1, <1>6, <1>7, <1>8, <1>9, <1>10 DEF Typed, Ids
  <2>3. DOMAIN T2 = DOMAIN T \cup {s} \cup {f}
    BY <1>7
  <2>4. QED
    BY <1>3, <2>1, <2>2, <2>3 DEF Typed
<1>20. \A n \in DOMAIN T \ {r} :
           /\ T2[n].overflow <=> Len(T2[n].kids) > hi
           /\ Len(T2[n].kids) <= hi + 1
           /\ Len(T2[n].kids) >= lo
  BY <1>1, <1>10 DEF Roomy
<1>21. Roomy(T2, f, lo, hi)
  <2>1. ~(Len(d.low) > hi) /\ ~(Len(d.high) > hi) /\ Len(d.low) <= hi + 1 /\ Len(d.high) <= hi + 1
    BY <1>6
  <2>2. Len(T2[f].kids) <= hi + 1 /\ ~(Len(T2[f].kids) > hi) /\ Len(T2[f].kids) >= 2
    BY <1>9
  <2>3. \A n \in DOMAIN T : n # f
    BY <1>3
  <2>4. QED
    BY <1>3, <1>4, <1>6, <1>7, <1>8, <1>9, <1>20, <2>1, <2>2, <2>3 DEF Roomy
<1>22. \A n \in DOMAIN T2 : ~T2[n].overflow
  BY <1>7, <1>8, <1>9, <1>10
<1>23. QED
  BY <1>1, <1>7, <1>17, <1>18, <1>19, <1>21, <1>22 DEF Whole

-------------------------------------------------------------------------------
\* What a call that leaves them alone does to the other parts.
LEMMA SettingsStay ==
  ASSUME Settings, UNCHANGED fixed
  PROVE  Settings' /\ conf' = conf /\ CutsPerOrder' = CutsPerOrder /\ Locations' = Locations
BY DEF Settings, fixed, conf, CutsPerOrder, Locations

\* The copy.
LEMMA CopyStays ==
  ASSUME CopyOK, UNCHANGED <<fixed, copy>>
  PROVE  CopyOK'
BY DEF CopyOK, fixed

\* The lists of cuts.
LEMMA ListsStay ==
  ASSUME ListedOK, UNCHANGED <<fixed, sorted_split_loc, split_locations, candidate_split_action>>
  PROVE  ListedOK'
BY DEF ListedOK, IsLocation, Locations, CutsPerOrder, fixed

\* No list of children.
LEMMA NothingSorted ==
  ASSUME tmp_sorted_children' = <<>>
  PROVE  SortedOK'
BY DEF SortedOK

\* A new object.
LEMMA InsertRecKeeps ==
  ASSUME IInv, InsertRec
  PROVE  IInv'
<1>1. PICK n : n = ObjectCount
  OBVIOUS
<1>2. /\ n \in Nat /\ n \notin DOMAIN objects /\ DOMAIN objects = 0..n - 1 /\ DOMAIN objects \cup {n} = 0..n
      /\ Numbered(0..n) /\ Cardinality(0..n) = n + 1
  <2>1. Numbered(DOMAIN objects) /\ n = Cardinality(DOMAIN objects)
    BY <1>1 DEF IInv, TreeOK, Stored, ObjectCount
  <2>2. n \in Nat /\ n \notin DOMAIN objects /\ DOMAIN objects = 0..n - 1 /\ DOMAIN objects \cup {n} = 0..n
    BY <2>1, NumberedNext
  <2>3. Numbered(DOMAIN objects \cup {n}) /\ Cardinality(DOMAIN objects \cup {n}) = n + 1
    BY <2>1, NumberedNext
  <2>4. QED
    BY <2>2, <2>3
<1>3. PICK r \in conf.rects[n + 1] : objects' = [k \in 0..n |-> IF k = n THEN r ELSE objects[k]]
  BY <1>1 DEF InsertRec
<1>4. r \in RectT
  <2>1. conf.rects \in Seq(SUBSET RectT) /\ n < Len(conf.rects)
    BY <1>1, FanOutsOf DEF InsertRec, SetupT, IInv
  <2>2. n + 1 \in 1..Len(conf.rects)
    BY <1>2, <2>1, LenProperties
  <2>3. conf.rects[n + 1] \in SUBSET RectT
    BY <2>1, <2>2, ElementOfSeq
  <2>4. QED
    BY <1>3, <2>3
<1>5. DOMAIN objects' = 0..n /\ Stored(objects')
  <2>1. \A k \in 0..n : objects'[k] \in RectT
    BY <1>2, <1>3, <1>4 DEF IInv, TreeOK, Stored
  <2>2. QED
    BY <1>2, <1>3, <2>1 DEF Stored
<1>6. /\ pc = "idle" /\ rec' = n /\ iter' = root /\ pc' \in {"try", "insert"} /\ pending = <<>>
      /\ UNCHANGED <<treeVars, learned, fixed, pending, copy>>
  BY <1>1 DEF InsertRec, IInv, PlacesOK
<1>7. TreeOK'
  <2>1. /\ \A k \in DOMAIN tree_nodes : ~tree_nodes[k].overflow
        /\ Whole(tree_nodes, objects, root, height, minimum_entry, maximum_entry)
    BY <1>6 DEF IInv, TreeOK, Splittings
  <2>2. Whole(tree_nodes, objects', root, height, minimum_entry, maximum_entry)
    BY <1>2, <1>5, <2>1 DEF Whole
  <2>3. root \in DOMAIN tree_nodes
    BY <2>1 DEF Whole, Skeleton
  <2>4. QED
    BY <1>5, <1>6, <2>1, <2>2, <2>3 DEF TreeOK, treeVars, fixed
<1>8. DriverOK'
  BY <1>6 DEF DriverOK, Splittings
<1>9. PlacesOK'
  <2>1. PlacedIn(tree_nodes) \cup ASet(pending) = DOMAIN objects /\ ASet(pending) = {}
    <3>1. ASet(pending) = {}
      BY <1>6 DEF ASet
    <3>2. ~Inserting /\ {k \in {rec} : Inserting} = {}
      BY <1>6 DEF Inserting
    <3>3. QED
      BY <3>1, <3>2 DEF IInv, PlacesOK
  <2>2. PlacedIn(tree_nodes)' = PlacedIn(tree_nodes) /\ PlacedIn(tree_nodes) = DOMAIN objects
    BY <1>6, <2>1 DEF treeVars
  <2>3. {k \in {rec} : Inserting}' = {n}
    BY <1>6 DEF Inserting
  <2>4. ObjectCount' - 1 = n
    BY <1>2, <1>5 DEF ObjectCount
  <2>5. Ids(pending') /\ ASet(pending)' = {} /\ rec' \in Nat
    BY <1>2, <1>6, <2>1 DEF IInv, PlacesOK
  <2>6. PlacedIn(tree_nodes)' \cup ASet(pending)' \cup {k \in {rec} : Inserting}' = DOMAIN objects'
    BY <1>2, <1>5, <2>2, <2>3, <2>5
  <2>7. rec' \notin PlacedIn(tree_nodes)'
    BY <1>2, <1>6, <2>2
  <2>8. Len(pending') = 0
    BY <1>6
  <2>9. \A i \in 2..Len(pending') : pending'[i] \notin PlacedIn(tree_nodes)'
    BY <2>8
  <2>10. QED
    BY <1>6, <2>4, <2>5, <2>6, <2>7, <2>9 DEF PlacesOK
<1>10. SortedOK' /\ ListedOK' /\ CopyOK' /\ Settings'
  <2>1. tmp_sorted_children = <<>>
    BY <1>6 DEF IInv, SortedOK
  <2>2. QED
    BY <1>6, <2>1, NothingSorted, ListsStay, CopyStays, SettingsStay DEF IInv, learned
<1>11. QED
  BY <1>7, <1>8, <1>9, <1>10 DEF IInv

-------------------------------------------------------------------------------
\* One step of an insertion.
LEMMA TheTree ==
  ASSUME IInv
  PROVE  /\ Whole(tree_nodes, objects, root, height, minimum_entry, maximum_entry)
         /\ iter \in DOMAIN tree_nodes /\ root \in DOMAIN tree_nodes
         /\ minimum_entry \in Nat /\ maximum_entry \in Nat /\ minimum_entry >= 2 /\ maximum_entry >= 3
         /\ \A n \in DOMAIN tree_nodes : /\ tree_nodes[n] \in NodeT /\ Ids(tree_nodes[n].kids)
                                         /\ Len(tree_nodes[n].kids) \in Nat
         /\ \A k \in DOMAIN objects : objects[k] \in RectT
<1>1. /\ Whole(tree_nodes, objects, root, height, minimum_entry, maximum_entry)
      /\ iter \in DOMAIN tree_nodes
      /\ \A k \in DOMAIN objects : objects[k] \in RectT
  BY DEF IInv, TreeOK, Stored
<1>2. root \in DOMAIN tree_nodes
  BY <1>1 DEF Whole, Skeleton
<1>3. minimum_entry \in Nat /\ maximum_entry \in Nat /\ minimum_entry >= 2 /\ maximum_entry >= 3
  BY FanOutsOf DEF IInv, FanOuts
<1>4. ASSUME NEW n \in DOMAIN tree_nodes
      PROVE  tree_nodes[n] \in NodeT /\ Ids(tree_nodes[n].kids) /\ Len(tree_nodes[n].kids) \in Nat
  <2>1. tree_nodes[n] \in NodeT /\ Injective(tree_nodes[n].kids)
    BY <1>1 DEF Whole, Typed
  <2>2. tree_nodes[n].kids \in Seq(Nat)
    BY <2>1, NodeFields
  <2>3. QED
    BY <2>1, <2>2, SetOf DEF Ids
<1>5. QED
  BY <1>1, <1>2, <1>3, <1>4

\* The object being inserted.
LEMMA TheObject ==
  ASSUME IInv, Inserting
  PROVE  rec \in DOMAIN objects /\ objects[rec] \in RectT /\ rec \in Nat /\ rec \notin PlacedIn(tree_nodes)
<1>1. rec \in {k \in {rec} : Inserting} /\ rec \notin PlacedIn(tree_nodes) /\ rec \in Nat
  BY DEF IInv, PlacesOK
<1>2. PlacedIn(tree_nodes) \cup ASet(pending) \cup {k \in {rec} : Inserting} = DOMAIN objects
  BY DEF IInv, PlacesOK
<1>3. rec \in DOMAIN objects
  BY <1>1, <1>2
<1>4. QED
  BY <1>1, <1>3, TheTree

\* While nothing is to be split, no node is too full.
LEMMA AllCalm ==
  ASSUME IInv, pc \notin Splittings, pc # "undefined"
  PROVE  \A n \in DOMAIN tree_nodes : /\ ~tree_nodes[n].overflow
                                      /\ Len(tree_nodes[n].kids) <= maximum_entry
<1>1. \A n \in DOMAIN tree_nodes : ~tree_nodes[n].overflow
  BY DEF IInv, TreeOK
<1>2. Roomy(tree_nodes, root, minimum_entry, maximum_entry)
  BY TheTree DEF Whole
<1>3. ASSUME NEW n \in DOMAIN tree_nodes PROVE Len(tree_nodes[n].kids) <= maximum_entry
  <2>1. ~(Len(tree_nodes[n].kids) > maximum_entry)
    BY <1>1, <1>2 DEF Roomy
  <2>2. Len(tree_nodes[n].kids) \in Nat /\ maximum_entry \in Nat
    BY TheTree
  <2>3. QED
    BY <2>1, <2>2
<1>4. QED
  BY <1>1, <1>3

\* The leaf takes the object.
LEMMA LeafTakes ==
  ASSUME NEW T, NEW O, NEW r, NEW h, NEW lo \in Nat, NEW hi \in Nat, Whole(T, O, r, h, lo, hi),
         NEW i \in LeavesOf(T), NEW x \in DOMAIN O, x \in Nat, x \notin PlacedIn(T), ~T[i].overflow,
         NEW T2, NEW over, LeafHolds(T, T2, i, Append(T[i].kids, x), over),
         over <=> Len(T[i].kids) + 1 > hi
  PROVE  WholeWith(T2, O, r, h, lo, hi, PlacedIn(T) \cup {x})
<1>1. i \in DOMAIN T /\ T[i].leaf
  BY DEF LeavesOf
<1>2. Ids(T[i].kids) /\ Roomy(T, r, lo, hi) /\ PlacedIn(T) \subseteq DOMAIN O
  BY <1>1 DEF Whole, Typed, Ids, NodeT
<1>3. PICK a : a = T[i].kids
  OBVIOUS
<1>4. Ids(a) /\ Kids(T, i) = ASet(a) /\ ASet(a) \subseteq PlacedIn(T)
  BY <1>1, <1>2, <1>3 DEF Kids, PlacedIn
<1>5. Len(a) \in Nat /\ Len(a) <= hi /\ (i # r => Len(a) >= lo)
  <2>1. Len(a) \in Nat
    BY <1>4, SetOf DEF Ids
  <2>2. ~(Len(a) > hi) /\ (i # r => Len(a) >= lo)
    BY <1>1, <1>2, <1>3 DEF Roomy
  <2>3. QED
    BY <2>1, <2>2
<1>6. PICK b : b = Append(a, x)
  OBVIOUS
<1>7. Ids(b) /\ Len(b) = Len(a) + 1 /\ ASet(b) = ASet(a) \cup {x}
  <2>1. x \notin ASet(a)
    BY <1>4
  <2>2. QED
    BY <1>4, <1>6, <2>1, RowGrows
<1>8. LeafHolds(T, T2, i, b, over)
  BY <1>3, <1>6
<1>9. Fits(b, over, i = r, lo, hi)
  BY <1>3, <1>5, <1>7 DEF Fits
<1>10. ASet(b) \subseteq DOMAIN O /\ ASet(b) \cap (PlacedIn(T) \ Kids(T, i)) = {}
  BY <1>2, <1>4, <1>7
<1>11. WholeWith(T2, O, r, h, lo, hi, (PlacedIn(T) \ Kids(T, i)) \cup ASet(b))
  BY <1>8, <1>9, <1>10, LeafChanges
<1>12. (PlacedIn(T) \ Kids(T, i)) \cup ASet(b) = PlacedIn(T) \cup {x}
  BY <1>4, <1>7
<1>13. QED
  BY <1>11, <1>12

\* The object enters the leaf, or the box of an inner node.
LEMMA InsertAtKeeps ==
  ASSUME IInv, pc = "insert", NEW children, InsertAt(children), tmp_sorted_children' = <<>>,
         ~tree_nodes[iter].leaf => children \subseteq Kids(tree_nodes, iter)
  PROVE  IInv'
<1> DEFINE T == tree_nodes
           r == objects[rec]
<1>1. /\ rec \in DOMAIN objects /\ rec \in Nat /\ r \in RectT /\ rec \notin PlacedIn(T)
      /\ Inserting
  BY TheObject DEF Inserting
<1>2. /\ Whole(T, objects, root, height, minimum_entry, maximum_entry) /\ iter \in DOMAIN T
      /\ minimum_entry \in Nat /\ maximum_entry \in Nat
      /\ \A n \in DOMAIN T : T[n] \in NodeT
  BY TheTree
<1>3. \A n \in DOMAIN T : ~T[n].overflow
  BY AllCalm DEF Splittings
<1>4. UNCHANGED <<objects, root, height, fixed, rec, pending, copy,
                  sorted_split_loc, split_locations, candidate_split_action>>
  BY DEF InsertAt
<1>5. IsNode(Include(T[iter], r), Included(T[iter], r), T[iter].kids, FALSE, T[iter].leaf, T[iter].father)
  <2>1. IsNode(Include(T[iter], r), Included(T[iter], r), T[iter].kids, T[iter].overflow, T[iter].leaf, T[iter].father)
    BY <1>1, <1>2, NodeIncludes
  <2>2. T[iter].overflow = FALSE
    BY <1>2, <1>3 DEF NodeT
  <2>3. QED
    BY <2>1, <2>2
<1>6. CASE T[iter].leaf
  <2>1. tree_nodes' = [T EXCEPT ![iter] = AddChildren(Include(T[iter], r), rec)] /\ pc' = "split" /\ iter' = iter
    BY <1>6 DEF InsertAt
  <2>2. PICK over : over = (Len(T[iter].kids) + 1 > maximum_entry)
    OBVIOUS
  <2>3. LeafHolds(T, tree_nodes', iter, Append(T[iter].kids, rec), over)
    <3>1. PICK m : m = Include(T[iter], r)
      OBVIOUS
    <3>2. m \in NodeT /\ m.kids = T[iter].kids /\ m.overflow = FALSE /\ m.leaf = T[iter].leaf /\ m.father = T[iter].father
      BY <1>5, <3>1 DEF IsNode
    <3>3. IsNode(AddChildren(m, rec), m.box, Append(m.kids, rec), m.overflow \/ Len(m.kids) + 1 > maximum_entry,
                 m.leaf, m.father)
      BY <1>1, <3>2, NodeAdds
    <3>4. (m.overflow \/ Len(m.kids) + 1 > maximum_entry) = over
      BY <2>2, <3>2
    <3>5. IsNode(AddChildren(m, rec), m.box, Append(m.kids, rec), over, m.leaf, m.father)
      BY <3>3, <3>4
    <3>6. tree_nodes'[iter] = AddChildren(m, rec) /\ DOMAIN tree_nodes' = DOMAIN T
      BY <1>2, <2>1, <3>1
    <3>7. \A n \in DOMAIN T \ {iter} : tree_nodes'[n] = T[n]
      BY <1>2, <2>1
    <3>8. \A n \in DOMAIN T \ {iter} : tree_nodes'[n] \in NodeT /\ SameNode(tree_nodes'[n], T[n])
      BY <1>2, <3>7 DEF SameNode
    <3>9. QED
      BY <3>2, <3>5, <3>6, <3>8 DEF LeafHolds, IsNode
  <2>4. iter \in LeavesOf(T) /\ ~T[iter].overflow
    BY <1>2, <1>3, <1>6 DEF LeavesOf
  <2>5. /\ Whole(tree_nodes', objects, root, height, minimum_entry, maximum_entry)
        /\ PlacedIn(tree_nodes') = PlacedIn(T) \cup {rec}
    <3>1. over <=> Len(T[iter].kids) + 1 > maximum_entry
      BY <2>2
    <3>2. WholeWith(tree_nodes', objects, root, height, minimum_entry, maximum_entry, PlacedIn(T) \cup {rec})
      BY <1>1, <1>2, <2>3, <2>4, <3>1, LeafTakes
    <3>3. QED
      BY <3>2 DEF WholeWith
  <2>6. TreeOK'
    <3>1. \A n \in DOMAIN tree_nodes' : tree_nodes'[n].overflow => n = iter
      BY <1>3, <2>3 DEF LeafHolds, SameNode
    <3>2. DOMAIN tree_nodes' = DOMAIN T
      BY <2>3 DEF LeafHolds
    <3>3. Stored(objects)
      BY DEF IInv, TreeOK
    <3>4. QED
      BY <1>2, <1>4, <2>1, <2>5, <3>1, <3>2, <3>3 DEF TreeOK, Splittings, fixed
  <2>7. DriverOK'
    <3>1. tree_nodes'[iter].leaf
      BY <1>6, <2>3 DEF LeafHolds
    <3>2. QED
      BY <2>1, <3>1 DEF DriverOK, Splittings
  <2>8. PlacesOK'
    <3>1. /\ rec \in Nat /\ Ids(pending) /\ (pending # <<>> => rec = pending[1])
          /\ \A k \in 2..Len(pending) : pending[k] \notin PlacedIn(T)
          /\ PlacedIn(T) \cup ASet(pending) \cup {rec} = DOMAIN objects
      <4>1. {k \in {rec} : Inserting} = {rec}
        BY <1>1
      <4>2. QED
        BY <4>1 DEF IInv, PlacesOK
    <3>2. ~Inserting' /\ {k \in {rec} : Inserting}' = {}
      BY <2>1 DEF Inserting
    <3>3. PlacedIn(tree_nodes') \cup ASet(pending) = DOMAIN objects
      BY <2>5, <3>1
    <3>4. \A k \in 2..Len(pending) : pending[k] \notin PlacedIn(tree_nodes')
      <4>1. ASSUME NEW k \in 2..Len(pending) PROVE pending[k] # rec
        <5>1. Len(pending) \in Nat /\ DOMAIN pending = 1..Len(pending)
          BY <3>1, SetOf DEF Ids
        <5>2. pending # <<>> /\ 1 \in DOMAIN pending /\ k \in DOMAIN pending /\ k # 1
          BY <5>1, <4>1
        <5>3. QED
          BY <3>1, <5>2 DEF Ids, Injective
      <4>2. QED
        BY <2>5, <3>1, <4>1
    <3>5. rec \in PlacedIn(tree_nodes')
      BY <2>5
    <3>6. QED
      BY <1>4, <2>1, <3>1, <3>2, <3>3, <3>4, <3>5 DEF PlacesOK
  <2>9. QED
    BY <1>4, <2>6, <2>7, <2>8, NothingSorted, ListsStay, CopyStays, SettingsStay DEF IInv
<1>7. CASE ~T[iter].leaf
  <2>1. tree_nodes' = [T EXCEPT ![iter] = Include(T[iter], r)] /\ iter' \in children /\ pc' = "insert"
    BY <1>7 DEF InsertAt
  <2>2. OnlyBoxes(T, tree_nodes')
    <3>1. tree_nodes'[iter] = Include(T[iter], r) /\ DOMAIN tree_nodes' = DOMAIN T
      BY <1>2, <2>1
    <3>2. \A n \in DOMAIN T \ {iter} : tree_nodes'[n] = T[n]
      BY <1>2, <2>1
    <3>3. T[iter].overflow = FALSE
      BY <1>2, <1>3 DEF NodeT
    <3>4. QED
      BY <1>2, <1>5, <3>1, <3>2, <3>3 DEF OnlyBoxes, SameNode, IsNode
  <2>3. /\ Whole(tree_nodes', objects, root, height, minimum_entry, maximum_entry)
        /\ PlacedIn(tree_nodes') = PlacedIn(T)
    BY <1>2, <2>2, BoxesChange
  <2>4. DOMAIN tree_nodes' = DOMAIN T /\ \A n \in DOMAIN tree_nodes' : ~tree_nodes'[n].overflow
    BY <1>3, <2>2 DEF OnlyBoxes, SameNode
  <2>5. iter' \in DOMAIN T
    <3>1. Kids(T, iter) \subseteq DOMAIN T
      BY <1>2, <1>7 DEF Whole, Skeleton
    <3>2. QED
      BY <1>7, <2>1, <3>1
  <2>6. TreeOK'
    <3>1. Stored(objects)
      BY DEF IInv, TreeOK
    <3>2. QED
      BY <1>4, <2>3, <2>4, <2>5, <3>1 DEF TreeOK, fixed
  <2>7. DriverOK'
    BY <2>1 DEF DriverOK, Splittings
  <2>8. PlacesOK'
    <3>1. Inserting' <=> Inserting
      BY <1>1, <2>1 DEF Inserting
    <3>2. {k \in {rec} : Inserting}' = {k \in {rec} : Inserting}
      BY <1>4, <3>1
    <3>3. ObjectCount' = ObjectCount
      BY <1>4 DEF ObjectCount
    <3>4. PlacedIn(tree_nodes)' = PlacedIn(tree_nodes) /\ ASet(pending)' = ASet(pending)
      BY <1>4, <2>3
    <3>5. PlacesOK
      BY DEF IInv
    <3>6. QED
      BY <1>4, <2>1, <3>1, <3>2, <3>3, <3>4, <3>5 DEF PlacesOK
  <2>9. QED
    BY <1>4, <2>6, <2>7, <2>8, NothingSorted, ListsStay, CopyStays, SettingsStay DEF IInv
<1>8. QED
  BY <1>6, <1>7

-------------------------------------------------------------------------------
\* The children that a call chooses from, or chooses, are children.
ScoresOf(S, f, I, n) == S = {f[i] : i \in I} /\ \A i \in I : f[i] \in Tuples(n) /\ f[i][n] = i

\* The least of the scored positions of a set is at one of them.
LEMMA LeastAt ==
  ASSUME NEW I, IsFiniteSet(I), I # {}, NEW n \in Nat, NEW f, NEW S, ScoresOf(S, f, I, n)
  PROVE  Least(S)[n] \in I
<1>1. S = {f[i] : i \in I} /\ \A i \in I : f[i] \in Tuples(n) /\ f[i][n] = i
  BY DEF ScoresOf
<1>2. S \subseteq Tuples(n) /\ S # {}
  BY <1>1
<1>3. IsFiniteSet(S)
  BY <1>1, FiniteImage
<1>4. Least(S) \in S
  BY <1>2, <1>3, LeastOf
<1>5. PICK i \in I : Least(S) = f[i]
  BY <1>1, <1>4
<1>6. QED
  BY <1>1, <1>5

\* Scores as tuples of integers.
LEMMA PairIsTuple ==
  ASSUME NEW a \in Int, NEW i \in Int
  PROVE  <<a, i>> \in Tuples(2) /\ <<a, i>>[2] = i
BY DEF Tuples

\* Scores as tuples of three.
LEMMA TripleIsTuple ==
  ASSUME NEW a \in Int, NEW b \in Int, NEW i \in Int
  PROVE  <<a, b, i>> \in Tuples(3) /\ <<a, b, i>>[3] = i
BY DEF Tuples

\* An overlap is an integer, never negative.
LEMMA OverlapIsNat ==
  ASSUME NEW a \in RectT, NEW b \in RectT
  PROVE  SplitOverlap(a, b) \in Nat /\ OverlapPerimeter(a, b) \in Nat
<1>1. PICK o : o = Overlap(a, b)
  OBVIOUS
<1>2. o \in RectT /\ o.left \in Int /\ o.right \in Int /\ o.bottom \in Int /\ o.top \in Int
  BY <1>1, OverlapIsRect, RectFields
<1>3. CASE IsOverlap(a, b)
  <2>1. o.left < o.right /\ o.bottom < o.top
    BY <1>1, <1>3 DEF IsOverlap
  <2>2. PICK x \in Nat, y \in Nat : x = o.top - o.bottom /\ y = o.right - o.left
    BY <1>2, <2>1
  <2>3. Area(o) = x * y
    BY <2>2 DEF Area
  <2>4. Perimeter(o) = 2 * (x + y)
    BY <1>2, <2>2 DEF Perimeter
  <2>5. x * y \in Nat /\ 2 * (x + y) \in Nat
    OBVIOUS
  <2>6. QED
    BY <1>1, <1>3, <2>3, <2>4, <2>5 DEF SplitOverlap, OverlapPerimeter
<1>4. CASE ~IsOverlap(a, b)
  BY <1>4 DEF SplitOverlap, OverlapPerimeter
<1>5. QED
  BY <1>3, <1>4

\* An inner node has children, and all of them have boxes.
LEMMA Children ==
  ASSUME IInv, NEW n \in DOMAIN tree_nodes, ~tree_nodes[n].leaf
  PROVE  /\ DOMAIN Entries(n) = 1..Len(Entries(n)) /\ Len(Entries(n)) \in Nat /\ Len(Entries(n)) >= 2
         /\ IsFiniteSet(DOMAIN Entries(n)) /\ Ids(Entries(n))
         /\ \A i \in DOMAIN Entries(n) : /\ Entries(n)[i] \in Kids(tree_nodes, n)
                                         /\ Child(n, i) \in RectT /\ Entries(n)[i] \in DOMAIN tree_nodes
<1>1. /\ Whole(tree_nodes, objects, root, height, minimum_entry, maximum_entry)
      /\ minimum_entry \in Nat /\ minimum_entry >= 2 /\ Ids(Entries(n)) /\ Len(Entries(n)) \in Nat
      /\ \A m \in DOMAIN tree_nodes : tree_nodes[m] \in NodeT
  BY TheTree DEF Entries
<1>2. DOMAIN Entries(n) = 1..Len(Entries(n)) /\ IsFiniteSet(DOMAIN Entries(n))
  BY <1>1, SetOf DEF Ids
<1>3. Len(Entries(n)) >= 2
  <2>1. (n # root => Len(Entries(n)) >= minimum_entry) /\ (n = root => Len(Entries(n)) >= 2)
    BY <1>1 DEF Whole, Roomy, Entries
  <2>2. QED
    BY <1>1, <2>1
<1>4. \A i \in DOMAIN Entries(n) : Entries(n)[i] \in Kids(tree_nodes, n)
  BY DEF Kids, ASet, Entries
<1>5. Kids(tree_nodes, n) \subseteq DOMAIN tree_nodes
  BY <1>1 DEF Whole, Skeleton
<1>6. \A i \in DOMAIN Entries(n) : Child(n, i) \in RectT
  BY <1>1, <1>4, <1>5 DEF Child, NodeT
<1>7. QED
  BY <1>1, <1>2, <1>3, <1>4, <1>5, <1>6

\* The default strategies choose children.
LEMMA ChosenAreChildren ==
  ASSUME IInv, NEW n \in DOMAIN tree_nodes, ~tree_nodes[n].leaf, NEW r \in RectT,
         NEW strategy \in InsertStrategies
  PROVE  Chosen(strategy, n, r) \subseteq DOMAIN Entries(n)
<1>1. PICK I : I = DOMAIN Entries(n)
  OBVIOUS
<1>2. /\ I \subseteq Nat /\ I # {} /\ IsFiniteSet(I)
      /\ \A i \in I : Child(n, i) \in RectT
  <2>1. PICK k \in Nat : k = Len(Entries(n)) /\ k >= 2 /\ I = 1..k
    BY <1>1, Children
  <2>2. QED
    BY <1>1, <2>1, Children
<1>3. \A i \in I : Merge(Child(n, i), r) \in RectT
  BY <1>2, MergeIs
<1>4. \A i \in I : Area(Child(n, i)) \in Int /\ AreaIncrease(Child(n, i), r) \in Int
                   /\ PerimeterIncrease(Child(n, i), r) \in Int
  BY <1>2, <1>3, MeasuresAreInt DEF AreaIncrease, PerimeterIncrease
<1>5. IsFiniteSet(I) /\ I # {} /\ I \subseteq Nat
  BY <1>2
<1>6. CASE strategy = "INS_AREA"
  <2>1. PICK f : f = [i \in I |-> <<AreaIncrease(Child(n, i), r), Area(Child(n, i)), i>>]
    OBVIOUS
  <2>2. \A i \in I : f[i] \in Tuples(3) /\ f[i][3] = i
    BY <1>4, <1>5, <2>1, TripleIsTuple
  <2>3. ASSUME NEW S, S = {f[i] : i \in I} PROVE Least(S)[3] \in I
    <3>1. ScoresOf(S, f, I, 3)
      BY <2>2, <2>3 DEF ScoresOf
    <3>2. 3 \in Nat
      OBVIOUS
    <3>3. QED
      BY ONLY <1>5, <3>1, <3>2, LeastAt
  <2>4. {f[i] : i \in I} = {<<AreaIncrease(Child(n, i), r), Area(Child(n, i)), i>> : i \in I}
    BY <2>1
  <2>5. Chosen(strategy, n, r) = {Least({f[i] : i \in I})[3]}
    BY <1>1, <1>6, <2>4 DEF Chosen
  <2>6. QED
    BY <1>1, <2>3, <2>5
<1>7. CASE strategy = "INS_MARGIN"
  <2>1. PICK f : f = [i \in I |-> <<PerimeterIncrease(Child(n, i), r), Area(Child(n, i)), i>>]
    OBVIOUS
  <2>2. \A i \in I : f[i] \in Tuples(3) /\ f[i][3] = i
    BY <1>4, <1>5, <2>1, TripleIsTuple
  <2>3. ASSUME NEW S, S = {f[i] : i \in I} PROVE Least(S)[3] \in I
    <3>1. ScoresOf(S, f, I, 3)
      BY <2>2, <2>3 DEF ScoresOf
    <3>2. 3 \in Nat
      OBVIOUS
    <3>3. QED
      BY ONLY <1>5, <3>1, <3>2, LeastAt
  <2>4. {f[i] : i \in I} = {<<PerimeterIncrease(Child(n, i), r), Area(Child(n, i)), i>> : i \in I}
    BY <2>1
  <2>5. Chosen(strategy, n, r) = {Least({f[i] : i \in I})[3]}
    BY <1>1, <1>7, <2>4 DEF Chosen
  <2>6. QED
    BY <1>1, <2>3, <2>5
<1>8. CASE strategy = "INS_OVERLAP"
  <2>1. ASSUME NEW i \in I, NEW box \in RectT PROVE OverlapWithOthers(n, i, box) \in Nat
    <3>1. PICK f : f = [j \in I |-> SplitOverlap(box, Child(n, j))]
      OBVIOUS
    <3>2. \A j \in I \ {i} : f[j] \in Nat
      BY <1>2, <3>1, OverlapIsNat
    <3>3. IsFiniteSet(I \ {i})
      BY <1>2, FS_Subset
    <3>4. SumFunctionOnSet(f, I \ {i}) \in Nat
      BY <3>2, <3>3, SumNat
    <3>5. QED
      BY <1>1, <3>1, <3>4 DEF OverlapWithOthers
  <2>2. \A i \in I : OverlapIncrease(n, i, r) \in Int
    BY <1>2, <1>3, <2>1 DEF OverlapIncrease
  <2>3. PICK f : f = [i \in I |-> <<OverlapIncrease(n, i, r), AreaIncrease(Child(n, i), r), i>>]
    OBVIOUS
  <2>4. \A i \in I : f[i] \in Tuples(3) /\ f[i][3] = i
    BY <1>4, <1>5, <2>2, <2>3, TripleIsTuple
  <2>5. ASSUME NEW S, S = {f[i] : i \in I} PROVE Least(S)[3] \in I
    <3>1. ScoresOf(S, f, I, 3)
      BY <2>4, <2>5 DEF ScoresOf
    <3>2. 3 \in Nat
      OBVIOUS
    <3>3. QED
      BY ONLY <1>5, <3>1, <3>2, LeastAt
  <2>6. {f[i] : i \in I} = {<<OverlapIncrease(n, i, r), AreaIncrease(Child(n, i), r), i>> : i \in I}
    BY <2>3
  <2>7. Chosen(strategy, n, r) = {Least({f[i] : i \in I})[3]}
    BY <1>1, <1>8, <2>6 DEF Chosen
  <2>8. QED
    BY <1>1, <2>5, <2>7
<1>9. CASE strategy = "INS_RANDOM"
  BY <1>9 DEF Chosen
<1>10. QED
  BY <1>6, <1>7, <1>8, <1>9 DEF InsertStrategies

\* What a box overlaps only grows with the box.
LEMMA OverlapGrows ==
  ASSUME NEW a \in RectT, NEW c \in RectT, NEW b \in RectT
  PROVE  SplitOverlap(a, b) <= SplitOverlap(Merge(a, c), b)
<1>1. PICK m : m = Merge(a, c)
  OBVIOUS
<1>2. /\ m \in RectT /\ m.left <= a.left /\ a.right <= m.right /\ m.bottom <= a.bottom /\ a.top <= m.top
  <2>1. /\ a.left \in Int /\ a.right \in Int /\ a.bottom \in Int /\ a.top \in Int
        /\ c.left \in Int /\ c.right \in Int /\ c.bottom \in Int /\ c.top \in Int
    BY RectFields
  <2>2. /\ m \in RectT /\ m.left = Lower(a.left, c.left) /\ m.right = Higher(a.right, c.right)
        /\ m.bottom = Lower(a.bottom, c.bottom) /\ m.top = Higher(a.top, c.top)
    BY <1>1, MergeIs
  <2>3. QED
    BY <2>1, <2>2 DEF Lower, Higher
<1>3. PICK o : o = Overlap(a, b)
  OBVIOUS
<1>4. PICK p : p = Overlap(m, b)
  OBVIOUS
<1>5. /\ o.left \in Int /\ o.right \in Int /\ o.bottom \in Int /\ o.top \in Int
      /\ p.left \in Int /\ p.right \in Int /\ p.bottom \in Int /\ p.top \in Int
  BY <1>2, <1>3, <1>4, OverlapIsRect, RectFields
<1>6. p.left <= o.left /\ o.right <= p.right /\ p.bottom <= o.bottom /\ o.top <= p.top
  <2>1. /\ a.left \in Int /\ a.right \in Int /\ a.bottom \in Int /\ a.top \in Int
        /\ b.left \in Int /\ b.right \in Int /\ b.bottom \in Int /\ b.top \in Int
        /\ m.left \in Int /\ m.right \in Int /\ m.bottom \in Int /\ m.top \in Int
    BY <1>2, RectFields
  <2>2. /\ o.left = Higher(a.left, b.left) /\ o.right = Lower(a.right, b.right)
        /\ o.bottom = Higher(a.bottom, b.bottom) /\ o.top = Lower(a.top, b.top)
    BY <1>3 DEF Overlap, Rect
  <2>3. /\ p.left = Higher(m.left, b.left) /\ p.right = Lower(m.right, b.right)
        /\ p.bottom = Higher(m.bottom, b.bottom) /\ p.top = Lower(m.top, b.top)
    BY <1>4 DEF Overlap, Rect
  <2>4. QED
    BY <1>2, <2>1, <2>2, <2>3 DEF Lower, Higher
<1>7. CASE IsOverlap(a, b)
  <2>1. o.left < o.right /\ o.bottom < o.top
    BY <1>3, <1>7 DEF IsOverlap
  <2>2. p.left < p.right /\ p.bottom < p.top
    BY <1>5, <1>6, <2>1
  <2>3. IsOverlap(m, b)
    BY <1>4, <2>2 DEF IsOverlap
  <2>4. PICK x \in Nat, y \in Nat, u \in Nat, v \in Nat :
            /\ x = o.top - o.bottom /\ y = o.right - o.left
            /\ x + u = p.top - p.bottom /\ y + v = p.right - p.left
    <3>1. PICK x \in Nat, y \in Nat : x = o.top - o.bottom /\ y = o.right - o.left
      BY <1>5, <2>1
    <3>2. PICK u \in Nat, v \in Nat : u = (p.top - p.bottom) - x /\ v = (p.right - p.left) - y
      BY <1>5, <1>6, <3>1
    <3>3. x + u = p.top - p.bottom /\ y + v = p.right - p.left
      BY <1>5, <3>1, <3>2
    <3>4. QED
      BY <3>1, <3>2, <3>3
  <2>5. Area(o) = x * y /\ Area(p) = (x + u) * (y + v)
    BY <2>4 DEF Area
  <2>6. (x + u) * (y + v) = x * y + (x * v + u * (y + v))
    OBVIOUS
  <2>7. x * y \in Nat /\ x * v \in Nat /\ u * (y + v) \in Nat
    OBVIOUS
  <2>8. Area(o) <= Area(p)
    BY <2>5, <2>6, <2>7
  <2>9. QED
    BY <1>1, <1>3, <1>4, <1>7, <2>3, <2>8 DEF SplitOverlap
<1>8. CASE ~IsOverlap(a, b)
  <2>1. SplitOverlap(a, b) = 0
    BY <1>8 DEF SplitOverlap
  <2>2. SplitOverlap(Merge(a, c), b) \in Nat
    BY <1>1, <1>2, OverlapIsNat
  <2>3. QED
    BY <2>1, <2>2
<1>9. QED
  BY <1>7, <1>8

\* RRInsert chooses a child.
LEMMA RRChosenIsChild ==
  ASSUME IInv, NEW n \in DOMAIN tree_nodes, ~tree_nodes[n].leaf, NEW r \in RectT
  PROVE  RRChosen(n, r) \in DOMAIN Entries(n)
<1> DEFINE I == DOMAIN Entries(n)
           cov == {i \in I : Contains(Child(n, i), r)}
           score == [i \in I |-> <<PerimeterIncrease(Child(n, i), r), Entries(n)[i]>>]
           s == Ordered([i \in I |-> i], score)
           gain == [i \in I |-> MarginOvlpPerim(Child(n, s[1]), r, Child(n, s[i]))]
           best == {<<-gain[i], i>> : i \in 2..Len(s)}
           p == Least(best)[2]
           margin(t) == SumFunctionOnSet([j \in I |-> MarginOvlpArea(Child(n, s[t]), r, Child(n, s[j]))],
                                         (1..p) \ {t})
           last == {<<margin(t), t>> : t \in 1..p}
           least == {<<Area(Child(n, i)), i>> : i \in cov}
<1>1. RRChosen(n, r) = IF cov # {} THEN Least(least)[2]
                       ELSE IF \A i \in I : gain[i] = 0 THEN s[1] ELSE s[Least(last)[2]]
  BY Zenon DEF RRChosen
<1>2. cov = {i \in I : Contains(Child(n, i), r)}
  OBVIOUS
<1>3. score = [i \in I |-> <<PerimeterIncrease(Child(n, i), r), Entries(n)[i]>>]
  OBVIOUS
<1>4. s = Ordered([i \in I |-> i], score)
  OBVIOUS
<1>5. gain = [i \in I |-> MarginOvlpPerim(Child(n, s[1]), r, Child(n, s[i]))]
  OBVIOUS
<1>6. best = {<<-gain[i], i>> : i \in 2..Len(s)}
  OBVIOUS
<1>7. p = Least(best)[2]
  OBVIOUS
<1>8. \A t \in I : margin(t) = SumFunctionOnSet(
          [j \in I |-> MarginOvlpArea(Child(n, s[t]), r, Child(n, s[j]))], (1..p) \ {t})
  OBVIOUS
<1>9. last = {<<margin(t), t>> : t \in 1..p}
  OBVIOUS
<1>10. least = {<<Area(Child(n, i)), i>> : i \in cov}
  OBVIOUS
<1>11. I = DOMAIN Entries(n)
  OBVIOUS
<1> HIDE DEF I, cov, score, s, gain, best, p, margin, last, least
<1>12. PICK m \in Nat : m = Len(Entries(n)) /\ m >= 2 /\ DOMAIN Entries(n) = 1..m /\ I = 1..m
  BY <1>11, Children
<1>13. /\ IsFiniteSet(I) /\ I \subseteq Nat /\ Ids(Entries(n))
      /\ \A i \in I : Child(n, i) \in RectT /\ Entries(n)[i] \in Nat
  <2>1. \A i \in I : Child(n, i) \in RectT
    BY <1>12, Children
  <2>2. IsFiniteSet(I) /\ Ids(Entries(n))
    BY <1>12, Children
  <2>3. \A i \in I : Entries(n)[i] \in Nat
    BY <1>12, <2>2, ElementOfSeq DEF Ids
  <2>4. QED
    BY <1>12, <2>1, <2>2, <2>3
<1>14. \A i \in I : PerimeterIncrease(Child(n, i), r) \in Int /\ Area(Child(n, i)) \in Int
  BY <1>13, MergeIs, MeasuresAreInt DEF PerimeterIncrease
<1>15. Len(s) = m /\ \A i \in I : s[i] \in I
  <2>1. PICK row : row = [i \in I |-> i]
    OBVIOUS
  <2>2. DOMAIN row = 1..m /\ Injective(row) /\ ASet(row) = I
    BY <1>12, <2>1 DEF Injective, ASet
  <2>3. score \in [1..m -> Tuples(2)]
    BY <1>12, <1>13, <1>3, <1>14, PairIsTuple
  <2>4. Injective(score)
    <3>1. ASSUME NEW i \in I, NEW j \in I, score[i] = score[j] PROVE i = j
      <4>1. Entries(n)[i] = Entries(n)[j]
        BY <1>3, <3>1
      <4>2. QED
        BY <1>12, <1>13, <4>1 DEF Ids, Injective
    <3>2. DOMAIN score = I
      BY <1>3
    <3>3. QED
      BY <3>1, <3>2 DEF Injective
  <2>5. 2 \in Nat
    OBVIOUS
  <2>6. Permutes(Ordered(row, score), row)
    BY <2>2, <2>3, <2>4, <2>5, OrderedPermutes
  <2>7. DOMAIN s = I /\ ASet(s) = I
    BY <1>4, <2>1, <2>2, <2>6 DEF Permutes
  <2>8. \A i \in I : s[i] \in I
    BY <2>7 DEF ASet
  <2>9. s = [i \in I |-> s[i]]
    BY <1>4, <2>1 DEF Ordered
  <2>10. s \in [1..m -> I]
    BY <1>12, <2>8, <2>9
  <2>11. s \in Seq(I)
    BY <2>10, SeqDef
  <2>12. Len(s) \in Nat /\ DOMAIN s = 1..Len(s)
    BY <2>11, LenProperties
  <2>13. Len(s) = m
    BY <1>12, <2>7, <2>12
  <2>14. QED
    BY <2>8, <2>13
<1>16. \A i \in I : Child(n, s[i]) \in RectT
  BY <1>13, <1>15
<1>17. \A i \in I : gain[i] \in Int
  <2>1. 1 \in I
    BY <1>12
  <2>2. ASSUME NEW i \in I PROVE gain[i] \in Int
    <3>1. Child(n, s[1]) \in RectT /\ Child(n, s[i]) \in RectT
      BY <1>16, <2>1
    <3>2. Merge(Child(n, s[1]), r) \in RectT
      BY <3>1, MergeIs
    <3>3. /\ OverlapPerimeter(Merge(Child(n, s[1]), r), Child(n, s[i])) \in Nat
          /\ OverlapPerimeter(Child(n, s[1]), Child(n, s[i])) \in Nat
      BY <3>1, <3>2, OverlapIsNat
    <3>4. QED
      BY <1>5, <3>3 DEF MarginOvlpPerim
  <2>3. QED
    BY <2>2
<1>18. p \in 2..m
  <2>1. PICK J : J = 2..m
    OBVIOUS
  <2>2. IsFiniteSet(J) /\ J # {} /\ J \subseteq I /\ 2 \in Nat
    BY <1>12, <1>13, <2>1, FS_Subset
  <2>3. PICK f : f = [i \in J |-> <<-gain[i], i>>]
    OBVIOUS
  <2>4. best = {f[i] : i \in J}
    BY <1>6, <1>15, <2>1, <2>3
  <2>5. \A i \in J : f[i] \in Tuples(2) /\ f[i][2] = i
    <3>1. \A i \in J : -gain[i] \in Int /\ i \in Int
      BY <1>12, <1>17, <2>2
    <3>2. QED
      BY <2>3, <3>1, PairIsTuple
  <2>6. ScoresOf(best, f, J, 2)
    BY <2>4, <2>5 DEF ScoresOf
  <2>7. Least(best)[2] \in J
    BY <2>2, <2>6, LeastAt
  <2>8. QED
    BY <1>7, <2>1, <2>7
<1>19. \A t \in I : margin(t) \in Nat
  <2>1. ASSUME NEW t \in I PROVE margin(t) \in Nat
    <3>1. PICK f : f = [j \in I |-> MarginOvlpArea(Child(n, s[t]), r, Child(n, s[j]))]
      OBVIOUS
    <3>2. ASSUME NEW j \in I PROVE f[j] \in Nat
      <4>1. Child(n, s[t]) \in RectT /\ Child(n, s[j]) \in RectT
        BY <1>16
      <4>2. Merge(Child(n, s[t]), r) \in RectT
        BY <4>1, MergeIs
      <4>3. /\ SplitOverlap(Merge(Child(n, s[t]), r), Child(n, s[j])) \in Nat
            /\ SplitOverlap(Child(n, s[t]), Child(n, s[j])) \in Nat
        BY <4>1, <4>2, OverlapIsNat
      <4>4. SplitOverlap(Child(n, s[t]), Child(n, s[j])) <= SplitOverlap(Merge(Child(n, s[t]), r), Child(n, s[j]))
        BY <4>1, OverlapGrows
      <4>5. f[j] = SplitOverlap(Merge(Child(n, s[t]), r), Child(n, s[j])) - SplitOverlap(Child(n, s[t]), Child(n, s[j]))
        BY <3>1 DEF MarginOvlpArea
      <4>6. QED
        BY <4>3, <4>4, <4>5
    <3>3. PICK X : X = (1..p) \ {t}
      OBVIOUS
    <3>4. X \subseteq I /\ IsFiniteSet(X)
      <4>1. X \subseteq I
        BY <1>12, <1>18, <3>3
      <4>2. QED
        BY <1>13, <4>1, FS_Subset
    <3>5. SumFunctionOnSet(f, X) \in Nat
      BY <3>2, <3>4, SumNat
    <3>6. QED
      BY <1>8, <3>1, <3>3, <3>5
  <2>2. QED
    BY <2>1
<1>20. Least(last)[2] \in 1..p
  <2>1. PICK J : J = 1..p
    OBVIOUS
  <2>2. IsFiniteSet(J) /\ J # {} /\ J \subseteq I /\ 2 \in Nat
    <3>1. J # {} /\ J \subseteq I
      BY <1>12, <1>18, <2>1
    <3>2. QED
      BY <1>13, <3>1, FS_Subset
  <2>3. PICK f : f = [t \in J |-> <<margin(t), t>>]
    OBVIOUS
  <2>4. last = {f[t] : t \in J}
    BY <1>9, <2>1, <2>3
  <2>5. \A t \in J : f[t] \in Tuples(2) /\ f[t][2] = t
    <3>1. \A t \in J : margin(t) \in Int /\ t \in Int
      BY <1>12, <1>19, <2>2
    <3>2. QED
      BY <2>3, <3>1, PairIsTuple
  <2>6. ScoresOf(last, f, J, 2)
    BY <2>4, <2>5 DEF ScoresOf
  <2>7. QED
    BY <2>1, <2>2, <2>6, LeastAt
<1>21. cov # {} => Least(least)[2] \in I
  <2>1. ASSUME cov # {} PROVE Least(least)[2] \in cov
    <3>1. IsFiniteSet(cov) /\ cov \subseteq I /\ 2 \in Nat
      <4>1. cov \subseteq I
        BY <1>2
      <4>2. QED
        BY <1>13, <4>1, FS_Subset
    <3>2. PICK f : f = [i \in cov |-> <<Area(Child(n, i)), i>>]
      OBVIOUS
    <3>3. least = {f[i] : i \in cov}
      BY <1>10, <3>2
    <3>4. \A i \in cov : f[i] \in Tuples(2) /\ f[i][2] = i
      <4>1. \A i \in cov : Area(Child(n, i)) \in Int /\ i \in Int
        BY <1>12, <1>14, <3>1
      <4>2. QED
        BY <3>2, <4>1, PairIsTuple
    <3>5. ScoresOf(least, f, cov, 2)
      BY <3>3, <3>4 DEF ScoresOf
    <3>6. QED
      BY <2>1, <3>1, <3>5, LeastAt
  <2>2. QED
    BY <1>2, <2>1
<1>22. 1 \in I /\ Least(last)[2] \in I
  BY <1>12, <1>18, <1>20
<1>23. QED
  BY <1>12, <1>15, <1>1, <1>21, <1>22

-------------------------------------------------------------------------------
\* The calls that insert: each is one step of an insertion.
Inserts ==
  /\ pc = "insert" /\ tmp_sorted_children' = <<>>
  /\ \E children : /\ InsertAt(children)
                   /\ ~tree_nodes[iter].leaf => children \subseteq Kids(tree_nodes, iter)

\* Such a step keeps the invariant.
LEMMA InsertsKeep ==
  ASSUME IInv, Inserts
  PROVE  IInv'
BY InsertAtKeeps DEF Inserts

\* A remainder, counted from one.
LEMMA InModulo ==
  ASSUME NEW k \in Nat, NEW n \in Nat, n > 0
  PROVE  (k % n) + 1 \in 1..n
OBVIOUS

\* Nothing is sorted unless the driver inserts with sorted children.
LEMMA SortedModeOnly ==
  ASSUME IInv, InsertMode # "sorted" \/ tree_nodes[iter].leaf
  PROVE  tmp_sorted_children = <<>>
BY DEF IInv, SortedOK

\* InsertStepByStep is one.
LEMMA InsertStepByStepInserts ==
  ASSUME IInv, NEW strategy \in InsertStrategies, InsertStepByStep(strategy)
  PROVE  Inserts
<1>1. /\ pc = "insert" /\ InsertMode \in {"default", "try", "step"} /\ tmp_sorted_children' = tmp_sorted_children
      /\ InsertAt({Entries(iter)[i] : i \in Chosen(strategy, iter, objects[rec])})
  BY DEF InsertStepByStep
<1>2. tmp_sorted_children' = <<>>
  BY <1>1, SortedModeOnly
<1>3. ASSUME ~tree_nodes[iter].leaf
      PROVE  {Entries(iter)[i] : i \in Chosen(strategy, iter, objects[rec])} \subseteq Kids(tree_nodes, iter)
  <2>1. iter \in DOMAIN tree_nodes /\ objects[rec] \in RectT
    BY <1>1, TheTree, TheObject DEF Inserting
  <2>2. Chosen(strategy, iter, objects[rec]) \subseteq DOMAIN Entries(iter)
    BY <1>3, <2>1, ChosenAreChildren
  <2>3. QED
    BY <2>2 DEF Kids, ASet, Entries
<1>4. QED
  BY <1>1, <1>2, <1>3 DEF Inserts

\* InsertWithLoc is one.
LEMMA InsertWithLocInserts ==
  ASSUME IInv, NEW loc \in Nat, InsertWithLoc(loc)
  PROVE  Inserts
<1>1. /\ pc = "insert" /\ (InsertMode # "sorted" \/ tree_nodes[iter].leaf)
      /\ tmp_sorted_children' = tmp_sorted_children /\ InsertAt({LocChild(iter, loc)})
  BY DEF InsertWithLoc
<1>2. tmp_sorted_children' = <<>>
  BY <1>1, SortedModeOnly
<1>3. ASSUME ~tree_nodes[iter].leaf PROVE {LocChild(iter, loc)} \subseteq Kids(tree_nodes, iter)
  <2>1. PICK n \in Nat : n = Len(Entries(iter)) /\ n >= 2 /\ DOMAIN Entries(iter) = 1..n
    BY <1>3, TheTree, Children
  <2>2. (loc % n) + 1 \in DOMAIN Entries(iter)
    BY <2>1, InModulo
  <2>3. LocChild(iter, loc) = Entries(iter)[(loc % n) + 1]
    BY <2>1 DEF LocChild
  <2>4. QED
    BY <2>2, <2>3 DEF Kids, ASet, Entries
<1>4. QED
  BY <1>1, <1>2, <1>3 DEF Inserts

\* RRInsert is one.
LEMMA RRInsertInserts ==
  ASSUME IInv, RRInsert
  PROVE  Inserts
<1>1. /\ pc = "insert" /\ InsertMode = "RR" /\ tmp_sorted_children' = tmp_sorted_children
      /\ InsertAt({Entries(iter)[RRChosen(iter, objects[rec])]})
  BY DEF RRInsert
<1>2. tmp_sorted_children' = <<>>
  BY <1>1, SortedModeOnly
<1>3. ASSUME ~tree_nodes[iter].leaf
      PROVE  {Entries(iter)[RRChosen(iter, objects[rec])]} \subseteq Kids(tree_nodes, iter)
  <2>1. iter \in DOMAIN tree_nodes /\ objects[rec] \in RectT
    BY <1>1, TheTree, TheObject DEF Inserting
  <2>2. RRChosen(iter, objects[rec]) \in DOMAIN Entries(iter)
    BY <1>3, <2>1, RRChosenIsChild
  <2>3. QED
    BY <2>2 DEF Kids, ASet, Entries
<1>4. QED
  BY <1>1, <1>2, <1>3 DEF Inserts

\* InsertWithSortedLoc is one: the list is still about this node.
LEMMA InsertWithSortedLocInserts ==
  ASSUME IInv, NEW sorted_loc \in Nat, InsertWithSortedLoc(sorted_loc)
  PROVE  Inserts
<1>1. PICK s : s = tmp_sorted_children
  OBVIOUS
<1>2. /\ pc = "insert" /\ s # <<>> /\ tmp_sorted_children' = <<>>
      /\ InsertAt({s[(sorted_loc % Len(s)) + 1]})
  BY <1>1 DEF InsertWithSortedLoc
<1>3. s \in Seq(Nat) /\ ASet(s) \subseteq Kids(tree_nodes, iter)
  BY <1>1, <1>2 DEF IInv, SortedOK
<1>4. PICK n \in Nat : n = Len(s) /\ n > 0 /\ DOMAIN s = 1..n
  <2>1. PICK n : n = Len(s)
    OBVIOUS
  <2>2. n \in Nat /\ DOMAIN s = 1..n /\ n # 0
    BY <1>2, <1>3, <2>1, LenProperties, EmptySeq
  <2>3. n > 0
    BY <2>2
  <2>4. QED
    BY <2>1, <2>2, <2>3
<1>5. (sorted_loc % n) + 1 \in DOMAIN s
  BY <1>4, InModulo
<1>6. s[(sorted_loc % Len(s)) + 1] \in ASet(s)
  BY <1>4, <1>5 DEF ASet
<1>7. {s[(sorted_loc % Len(s)) + 1]} \subseteq Kids(tree_nodes, iter)
  BY <1>3, <1>6
<1>8. QED
  BY <1>2, <1>7 DEF Inserts

\* A list of sorted children has just the children.
LEMMA SortedAreChildren ==
  ASSUME IInv, ~tree_nodes[iter].leaf, NEW r \in RectT, NEW t, NEW s \in SortedChildren(iter, r, t)
  PROVE  s \in Seq(Nat) /\ ASet(s) = Kids(tree_nodes, iter)
<1>1. PICK e : e = Entries(iter)
  OBVIOUS
<1>2. /\ Ids(e) /\ ASet(e) = Kids(tree_nodes, iter) /\ ASet(e) \subseteq Nat
      /\ DOMAIN e = 1..Len(e) /\ Len(e) \in Nat
      /\ \A i \in DOMAIN e : Child(iter, i) \in RectT /\ e[i] \in Nat
  <2>1. Ids(e) /\ DOMAIN e = 1..Len(e) /\ Len(e) \in Nat
    BY <1>1, TheTree, Children
  <2>2. \A i \in DOMAIN e : Child(iter, i) \in RectT
    BY <1>1, TheTree, Children
  <2>3. \A i \in DOMAIN e : e[i] \in Nat
    BY <2>1, ElementOfSeq DEF Ids
  <2>4. QED
    BY <1>1, <2>1, <2>2, <2>3 DEF Kids, Entries, ASet
<1>3. CASE t = "RL_FOR_ENLARGED_CHILDREN"
  <2>1. PICK score : score = [i \in DOMAIN e |-> <<AreaIncrease(Child(iter, i), r), e[i]>>]
    OBVIOUS
  <2>2. s = Ordered(e, score)
    BY <1>1, <1>3, <2>1 DEF SortedChildren
  <2>3. \A i \in DOMAIN e : score[i] \in Tuples(2) /\ score[i][2] = e[i]
    <3>1. \A i \in DOMAIN e : AreaIncrease(Child(iter, i), r) \in Int
      BY <1>2, MergeIs, MeasuresAreInt DEF AreaIncrease
    <3>2. QED
      BY <1>2, <2>1, <3>1, PairIsTuple
  <2>4. 2 \in Nat \ {0} /\ DOMAIN score = DOMAIN e
    BY <2>1
  <2>5. Rearranges(Ordered(e, score), e)
    BY <1>2, <2>3, <2>4, OrderedRearranges
  <2>6. QED
    BY <1>2, <2>2, <2>5 DEF Rearranges, Ids
<1>4. CASE t # "RL_FOR_ENLARGED_CHILDREN"
  <2>1. s \in [DOMAIN e -> ASet(e)] /\ ASet(s) = ASet(e)
    BY <1>1, <1>4 DEF SortedChildren
  <2>2. s \in [1..Len(e) -> Nat]
    BY <1>2, <2>1
  <2>3. s \in Seq(Nat)
    BY <1>2, <2>2, SeqDef
  <2>4. QED
    BY <1>2, <2>1, <2>3
<1>5. QED
  BY <1>3, <1>4

\* So RetrieveSortedInsertStates keeps the invariant.
LEMMA RetrieveSortedInsertStatesKeeps ==
  ASSUME IInv, NEW t, RetrieveSortedInsertStates(t)
  PROVE  IInv'
<1>1. /\ pc = "insert" /\ InsertMode = "sorted" /\ ~tree_nodes[iter].leaf
      /\ tmp_sorted_children' \in SortedChildren(iter, objects[rec], t)
      /\ UNCHANGED <<treeVars, objects, fixed, pc, iter, rec, pending, copy,
                     sorted_split_loc, split_locations, candidate_split_action>>
  BY DEF RetrieveSortedInsertStates
<1>2. tmp_sorted_children' \in Seq(Nat) /\ ASet(tmp_sorted_children') \subseteq Kids(tree_nodes, iter)
  <2>1. objects[rec] \in RectT
    BY <1>1, TheObject DEF Inserting
  <2>2. QED
    BY <1>1, <2>1, SortedAreChildren
<1>3. TreeOK' /\ DriverOK' /\ PlacesOK'
  <2>1. TreeOK' = TreeOK
    BY <1>1 DEF TreeOK, treeVars, fixed
  <2>2. DriverOK' = DriverOK
    BY <1>1 DEF DriverOK, SplitMode, conf, Reinserting, treeVars, fixed
  <2>3. PlacesOK' = PlacesOK
    BY <1>1 DEF PlacesOK, ObjectCount, Inserting, treeVars
  <2>4. QED
    BY <2>1, <2>2, <2>3 DEF IInv
<1>4. SortedOK'
  BY <1>1, <1>2 DEF SortedOK, InsertMode, Reinserting, conf, treeVars, fixed
<1>5. QED
  BY <1>1, <1>3, <1>4, ListsStay, CopyStays, SettingsStay DEF IInv

\* TryInsert on its way down keeps it.
LEMMA TryDescendKeeps ==
  ASSUME IInv, TryDescend
  PROVE  IInv'
<1>1. /\ pc = "try" /\ ~tree_nodes[iter].leaf /\ conf.insert \in InsertStrategies
      /\ iter' \in {Entries(iter)[i] : i \in Chosen(conf.insert, iter, objects[rec])}
      /\ UNCHANGED <<treeVars, objects, learned, fixed, pc, rec, pending, copy>>
  BY FanOutsOf DEF TryDescend, SetupT, IInv
<1>2. iter' \in DOMAIN tree_nodes
  <2>1. iter \in DOMAIN tree_nodes /\ objects[rec] \in RectT
    BY <1>1, TheTree, TheObject DEF Inserting
  <2>2. Chosen(conf.insert, iter, objects[rec]) \subseteq DOMAIN Entries(iter)
    BY <1>1, <2>1, ChosenAreChildren
  <2>3. \A i \in DOMAIN Entries(iter) : Entries(iter)[i] \in DOMAIN tree_nodes
    BY <1>1, <2>1, Children
  <2>4. QED
    BY <1>1, <2>2, <2>3
<1>3. TreeOK'
  <2>1. \A n \in DOMAIN tree_nodes : ~tree_nodes[n].overflow
    BY <1>1, AllCalm DEF Splittings
  <2>2. Stored(objects) /\ Whole(tree_nodes, objects, root, height, minimum_entry, maximum_entry)
    BY DEF IInv, TreeOK
  <2>3. QED
    BY <1>1, <1>2, <2>1, <2>2 DEF TreeOK, treeVars, fixed
<1>4. DriverOK'
  BY <1>1 DEF DriverOK, Splittings
<1>5. PlacesOK'
  <2>1. PlacesOK' = PlacesOK
    BY <1>1 DEF PlacesOK, ObjectCount, Inserting, treeVars
  <2>2. QED
    BY <2>1 DEF IInv
<1>6. tmp_sorted_children' = <<>>
  BY <1>1 DEF IInv, SortedOK, learned
<1>7. QED
  BY <1>1, <1>3, <1>4, <1>5, <1>6, NothingSorted, ListsStay, CopyStays, SettingsStay DEF IInv, learned

\* TryInsert at a leaf keeps it, whether or not there is room.
LEMMA TryPlaceKeeps ==
  ASSUME IInv, TryPlace
  PROVE  IInv'
<1> DEFINE T == tree_nodes
           r == objects[rec]
<1>1. /\ pc = "try" /\ T[iter].leaf /\ Inserting /\ pending = <<>>
      /\ UNCHANGED <<objects, root, height, learned, fixed, rec, pending, copy>>
  BY DEF TryPlace, IInv, PlacesOK, Inserting
<1>2. /\ rec \in DOMAIN objects /\ rec \in Nat /\ r \in RectT /\ rec \notin PlacedIn(T)
  BY <1>1, TheObject
<1>3. /\ Whole(T, objects, root, height, minimum_entry, maximum_entry) /\ iter \in DOMAIN T /\ root \in DOMAIN T
      /\ minimum_entry \in Nat /\ maximum_entry \in Nat
      /\ \A n \in DOMAIN T : T[n] \in NodeT /\ Len(T[n].kids) \in Nat
  BY TheTree
<1>4. \A n \in DOMAIN T : ~T[n].overflow /\ T[n].overflow = FALSE
  <2>1. \A n \in DOMAIN T : ~T[n].overflow
    BY <1>1, AllCalm DEF Splittings
  <2>2. QED
    BY <1>3, <2>1 DEF NodeT
<1>5. PlacedIn(T) \cup {rec} = DOMAIN objects /\ rec = ObjectCount - 1
  <2>1. ASet(pending) = {}
    BY <1>1 DEF ASet
  <2>2. {k \in {rec} : Inserting} = {rec}
    BY <1>1
  <2>3. QED
    BY <1>1, <2>1, <2>2 DEF IInv, PlacesOK
<1>6. tmp_sorted_children' = <<>>
  BY <1>1 DEF IInv, SortedOK, learned
<1>7. Stored(objects)
  BY DEF IInv, TreeOK
<1>8. CASE Len(T[iter].kids) < maximum_entry
  <2>1. /\ tree_nodes' = [n \in DOMAIN T |->
               LET node == Include(T[n], r)
               IN  IF n = iter THEN AddChildren(node, rec)
                   ELSE IF n \in ASet(Path(iter)) THEN node ELSE T[n]]
        /\ pc' = "idle" /\ iter' = iter
    BY <1>8 DEF TryPlace, Entries
  <2>2. ASSUME NEW n \in DOMAIN T
        PROVE  IsNode(Include(T[n], r), Included(T[n], r), T[n].kids, T[n].overflow, T[n].leaf, T[n].father)
    BY <1>2, <1>3, NodeIncludes
  <2>3. LeafHolds(T, tree_nodes', iter, Append(T[iter].kids, rec), FALSE)
    <3>1. DOMAIN tree_nodes' = DOMAIN T
      BY <2>1
    <3>2. ASSUME NEW n \in DOMAIN T \ {iter} PROVE tree_nodes'[n] \in NodeT /\ SameNode(tree_nodes'[n], T[n])
      <4>1. tree_nodes'[n] = Include(T[n], r) \/ tree_nodes'[n] = T[n]
        BY <2>1
      <4>2. QED
        BY <1>3, <2>2, <4>1 DEF IsNode, SameNode
    <3>3. PICK m : m = Include(T[iter], r)
      OBVIOUS
    <3>4. m \in NodeT /\ m.kids = T[iter].kids /\ m.overflow = FALSE /\ m.leaf = T[iter].leaf /\ m.father = T[iter].father
      BY <1>3, <1>4, <2>2, <3>3 DEF IsNode
    <3>5. IsNode(AddChildren(m, rec), m.box, Append(m.kids, rec), m.overflow \/ Len(m.kids) + 1 > maximum_entry,
                 m.leaf, m.father)
      BY <1>2, <3>4, NodeAdds
    <3>6. (m.overflow \/ Len(m.kids) + 1 > maximum_entry) = FALSE
      <4>1. ~(Len(T[iter].kids) + 1 > maximum_entry)
        BY <1>3, <1>8
      <4>2. QED
        BY <3>4, <4>1
    <3>7. IsNode(AddChildren(m, rec), m.box, Append(m.kids, rec), FALSE, m.leaf, m.father)
      BY <3>5, <3>6
    <3>8. tree_nodes'[iter] = AddChildren(m, rec)
      BY <1>3, <2>1, <3>3
    <3>9. QED
      BY <3>1, <3>2, <3>4, <3>7, <3>8 DEF LeafHolds, IsNode
  <2>4. /\ Whole(tree_nodes', objects, root, height, minimum_entry, maximum_entry)
        /\ PlacedIn(tree_nodes') = PlacedIn(T) \cup {rec}
    <3>1. FALSE <=> Len(T[iter].kids) + 1 > maximum_entry
      BY <1>3, <1>8
    <3>2. iter \in LeavesOf(T) /\ ~T[iter].overflow
      BY <1>1, <1>3, <1>4 DEF LeavesOf
    <3>3. WholeWith(tree_nodes', objects, root, height, minimum_entry, maximum_entry, PlacedIn(T) \cup {rec})
      BY <1>2, <1>3, <2>3, <3>1, <3>2, LeafTakes
    <3>4. QED
      BY <3>3 DEF WholeWith
  <2>5. \A n \in DOMAIN tree_nodes' : ~tree_nodes'[n].overflow
    BY <1>4, <2>3 DEF LeafHolds, SameNode
  <2>6. TreeOK'
    BY <1>1, <1>3, <1>7, <2>1, <2>3, <2>4, <2>5 DEF TreeOK, fixed, LeafHolds
  <2>7. DriverOK'
    BY <2>1 DEF DriverOK, Splittings
  <2>8. PlacesOK'
    <3>1. ~Inserting' /\ {k \in {rec} : Inserting}' = {}
      BY <2>1 DEF Inserting
    <3>2. Ids(pending) /\ ASet(pending) = {} /\ Len(pending) = 0
      BY <1>1 DEF IInv, PlacesOK, ASet
    <3>3. \A k \in 2..Len(pending) : pending[k] \notin PlacedIn(tree_nodes')
      BY <3>2
    <3>4. QED
      BY <1>1, <1>2, <1>5, <2>1, <2>4, <3>1, <3>2, <3>3 DEF PlacesOK
  <2>9. QED
    BY <1>1, <1>6, <2>6, <2>7, <2>8, NothingSorted, ListsStay, CopyStays, SettingsStay DEF IInv, learned
<1>9. CASE ~(Len(T[iter].kids) < maximum_entry)
  <2>1. pc' = "insert" /\ iter' = root /\ tree_nodes' = T
    BY <1>9 DEF TryPlace, Entries
  <2>2. TreeOK'
    BY <1>1, <1>3, <1>4, <1>7, <2>1 DEF TreeOK, fixed
  <2>3. DriverOK'
    BY <2>1 DEF DriverOK, Splittings
  <2>4. PlacesOK'
    <3>1. Inserting' /\ {k \in {rec} : Inserting}' = {rec}
      BY <1>1, <2>1 DEF Inserting
    <3>2. Ids(pending) /\ ASet(pending) = {} /\ Len(pending) = 0
      BY <1>1 DEF IInv, PlacesOK, ASet
    <3>3. ObjectCount' = ObjectCount
      BY <1>1 DEF ObjectCount
    <3>4. \A k \in 2..Len(pending) : pending[k] \notin PlacedIn(T)
      BY <3>2
    <3>5. QED
      BY <1>1, <1>2, <1>5, <2>1, <3>1, <3>2, <3>3, <3>4 DEF PlacesOK
  <2>5. QED
    BY <1>1, <1>6, <2>2, <2>3, <2>4, NothingSorted, ListsStay, CopyStays, SettingsStay DEF IInv, learned
<1>10. QED
  BY <1>8, <1>9

-------------------------------------------------------------------------------
\* The end of a split.
LEMMA NodeCopies ==
  ASSUME NEW n \in NodeT, NEW ids \in Seq(Nat), ~Refused(ids), NEW box \in RectT, NEW father \in Nat
  PROVE  IsNode([CopyChildren(n, ids) EXCEPT !.box = box, !.father = father], box, ids, FALSE, n.leaf, father)
<1>1. PICK c : c = [n EXCEPT !.kids = ids, !.overflow = FALSE]
  OBVIOUS
<1>2. CopyChildren(n, ids) = c
  BY <1>1 DEF CopyChildren
<1>3. PICK m : m = [c EXCEPT !.box = box, !.father = father]
  OBVIOUS
<1>4. c \in NodeT /\ c.kids = ids /\ c.overflow = FALSE /\ c.leaf = n.leaf
  BY <1>1 DEF NodeT
<1>5. IsNode(m, box, ids, FALSE, n.leaf, father)
  BY <1>3, <1>4 DEF NodeT, IsNode
<1>6. QED
  BY <1>2, <1>3, <1>5

\* A node with another box.
LEMMA NodeReboxed ==
  ASSUME NEW n \in NodeT, NEW box \in RectT
  PROVE  IsNode([n EXCEPT !.box = box], box, n.kids, n.overflow, n.leaf, n.father)
BY DEF IsNode, NodeT

\* A node with another father.
LEMMA NodeRefathered ==
  ASSUME NEW n \in NodeT, NEW father \in Nat
  PROVE  IsNode([n EXCEPT !.father = father], n.box, n.kids, n.overflow, n.leaf, father)
BY DEF IsNode, NodeT

\* The node to be split is one too full, so its halves are not.
LEMMA HalvesFit ==
  ASSUME IInv, Overflow, NEW R, NEW d, Divides(d, R, Entries(iter))
  PROVE  /\ Halved(d, Entries(iter), minimum_entry, maximum_entry) /\ ~Refused(d.low) /\ ~Refused(d.high)
         /\ d.low \in Seq(Nat) /\ d.high \in Seq(Nat) /\ d.box1 \in RectT /\ d.box2 \in RectT
<1>1. /\ minimum_entry \in Nat /\ maximum_entry \in Nat /\ minimum_entry >= 2
      /\ Roomy(tree_nodes, root, minimum_entry, maximum_entry) /\ iter \in DOMAIN tree_nodes
  BY TheTree DEF Whole
<1>2. Shares(d, Entries(iter)) /\ Len(d.low) >= minimum_entry /\ Len(d.high) >= minimum_entry
  BY DEF Divides
<1>3. d.low \in Seq(Nat) /\ d.high \in Seq(Nat) /\ d.box1 \in RectT /\ d.box2 \in RectT
  BY DEF Divides, Shares, Boxed, BoxOf, Ids
<1>4. PICK a \in Nat, b \in Nat, c \in Nat : a = Len(d.low) /\ b = Len(d.high) /\ c = Len(Entries(iter))
  BY <1>1, <1>3, SetOf, TheTree DEF Entries
<1>5. c <= maximum_entry + 1 /\ a + b = c /\ a >= minimum_entry /\ b >= minimum_entry
  BY <1>1, <1>2, <1>4 DEF Roomy, Entries, Shares
<1>6. a \in minimum_entry..maximum_entry /\ b \in minimum_entry..maximum_entry
      /\ ~(a >= maximum_entry) /\ ~(b >= maximum_entry)
  BY <1>1, <1>5
<1>7. QED
  BY <1>2, <1>3, <1>4, <1>6 DEF Halved, Refused

\* The entries of the node to be split.
LEMMA OverfullNode ==
  ASSUME IInv, Overflow
  PROVE  /\ Overfull(Entries(iter)) /\ FanOuts
         /\ \A x \in ASet(Entries(iter)) : EntryBoxes(iter)[x] \in RectT
<1>1. /\ Whole(tree_nodes, objects, root, height, minimum_entry, maximum_entry) /\ iter \in DOMAIN tree_nodes
      /\ \A n \in DOMAIN tree_nodes : tree_nodes[n] \in NodeT
      /\ Ids(Entries(iter)) /\ Len(Entries(iter)) \in Nat /\ maximum_entry \in Nat
      /\ \A k \in DOMAIN objects : objects[k] \in RectT
  BY TheTree DEF Entries
<1>2. Overfull(Entries(iter))
  <2>1. Len(Entries(iter)) > maximum_entry /\ Len(Entries(iter)) <= maximum_entry + 1
    BY <1>1 DEF Whole, Roomy, Overflow, Entries
  <2>2. Len(Entries(iter)) = maximum_entry + 1
    BY <1>1, <2>1
  <2>3. QED
    BY <1>1, <2>2 DEF Overfull
<1>3. CASE tree_nodes[iter].leaf
  <2>1. ASet(Entries(iter)) \subseteq PlacedIn(tree_nodes)
    BY <1>1, <1>3 DEF PlacedIn, LeavesOf, Kids, Entries
  <2>2. PlacedIn(tree_nodes) \subseteq DOMAIN objects
    BY <1>1 DEF Whole
  <2>3. EntryBoxes(iter) = objects
    BY <1>3 DEF EntryBoxes
  <2>4. QED
    BY <1>1, <1>2, <2>1, <2>2, <2>3, FanOutsOf DEF IInv
<1>4. CASE ~tree_nodes[iter].leaf
  <2>1. ASet(Entries(iter)) \subseteq DOMAIN tree_nodes
    BY <1>1, <1>4 DEF Whole, Skeleton, Kids, Entries
  <2>2. EntryBoxes(iter) = [m \in DOMAIN tree_nodes |-> tree_nodes[m].box]
    BY <1>4 DEF EntryBoxes
  <2>3. \A m \in DOMAIN tree_nodes : tree_nodes[m].box \in RectT
    BY <1>1 DEF NodeT
  <2>4. QED
    BY <1>2, <2>1, <2>2, <2>3, FanOutsOf DEF IInv
<1>5. QED
  BY <1>3, <1>4

\* What Link does to the tree.
LinksBelow(d, s, f) ==
  /\ f = tree_nodes[iter].father
  /\ Torn(tree_nodes, tree_nodes', iter, s, f, d, tree_nodes[f], maximum_entry)
  /\ tree_nodes'[f].box = Merge(tree_nodes[f].box, d.box2)
  /\ root' = root /\ height' = height
LinksAbove(d, s, f) ==
  /\ f = s + 1
  /\ \E top \in NodeT :
        /\ top.kids = <<iter>> /\ ~top.overflow /\ ~top.leaf /\ top.father = -1
        /\ Torn(tree_nodes, tree_nodes', iter, s, f, d, top, maximum_entry)
  /\ tree_nodes'[f].box = Merge(d.box1, d.box2)
  /\ root' = f /\ height' = height + 1
LinkDid(d, s, f) ==
  /\ iter # root => LinksBelow(d, s, f)
  /\ iter = root => LinksAbove(d, s, f)
  /\ iter' = f /\ pc' = "split"
  /\ UNCHANGED <<objects, fixed, rec, pending, copy, tmp_sorted_children>>

\* The five cases of the nodes after Link.
LinkedNodes(d, s, f, grows, above, box) ==
  /\ DOMAIN tree_nodes' = DOMAIN tree_nodes \cup {s, f}
  /\ tree_nodes'[iter] = [CopyChildren(tree_nodes[iter], d.low) EXCEPT !.box = d.box1, !.father = f]
  /\ s # iter => tree_nodes'[s] = [CopyChildren(TreeNode(tree_nodes[iter].leaf), d.high) EXCEPT !.box = d.box2, !.father = f]
  /\ f # iter /\ f # s => tree_nodes'[f] = AddChildren([above EXCEPT !.box = box], s)
  /\ \A n \in DOMAIN tree_nodes \ {iter, s, f} :
         tree_nodes'[n] = IF Moves(d, n) THEN [tree_nodes[n] EXCEPT !.father = s] ELSE tree_nodes[n]
Links(d, s, f, grows) ==
  /\ root' = (IF grows THEN f ELSE root)
  /\ height' = (IF grows THEN height + 1 ELSE height)
  /\ iter' = f /\ pc' = "split"
  /\ UNCHANGED <<objects, fixed, rec, pending, copy, tmp_sorted_children>>

\* What Link does, field by field.
LEMMA LinkUnfolds ==
  ASSUME NEW d, Link(d), iter \in DOMAIN tree_nodes,
         \A f \in {NodeCount + 1, tree_nodes[iter].father} :
             f # iter /\ f # NodeCount /\ ~Moves(d, f),
         NodeCount # iter, ~Moves(d, NodeCount), ~Moves(d, iter)
  PROVE  \E s, f, grows, above :
             /\ s = NodeCount /\ grows = (tree_nodes[iter].father < 0)
             /\ f = (IF grows THEN NodeCount + 1 ELSE tree_nodes[iter].father)
             /\ above = (IF grows THEN Include(AddChildren(TreeNode(FALSE), iter), d.box1) ELSE tree_nodes[f])
             /\ LinkedNodes(d, s, f, grows, above, IF grows THEN Merge(d.box1, d.box2) ELSE Merge(above.box, d.box2))
             /\ Links(d, s, f, grows)
<1> DEFINE sibling == NodeCount
           at == tree_nodes[iter]
           grows == at.father < 0
           father == IF grows THEN NodeCount + 1 ELSE at.father
           top(e) == IF grows THEN Include(AddChildren(TreeNode(FALSE), iter), e.box1)
                    ELSE tree_nodes[father]
           link(e, n) ==
              CASE n = iter -> [CopyChildren(at, e.low) EXCEPT !.box = e.box1, !.father = father]
              [] n = sibling -> [CopyChildren(TreeNode(at.leaf), e.high) EXCEPT
                                     !.box = e.box2, !.father = father]
              [] n = father -> AddChildren([top(e) EXCEPT !.box = IF grows THEN Merge(e.box1, e.box2)
                                                                 ELSE Merge(@, e.box2)], sibling)
              [] Moves(e, n) -> [tree_nodes[n] EXCEPT !.father = sibling]
              [] OTHER -> tree_nodes[n]
           linking(e) == /\ tree_nodes' = [n \in DOMAIN tree_nodes \cup {sibling, father} |-> link(e, n)]
                         /\ root' = IF grows THEN father ELSE root
                         /\ height' = IF grows THEN height + 1 ELSE height
                         /\ iter' = father
                         /\ pc' = "split"
                         /\ UNCHANGED <<objects, fixed, rec, pending, copy, tmp_sorted_children>>
           linked(n) == link(d, n)
           above == top(d)
<1>1. \E e \in {d} : linking(e)
  BY Zenon DEF Link
<1>2. linking(d)
  <2> HIDE DEF linking
  <2>1. QED
    BY Zenon, <1>1
<1>3. /\ tree_nodes' = [n \in DOMAIN tree_nodes \cup {sibling, father} |-> linked(n)]
      /\ root' = IF grows THEN father ELSE root
      /\ height' = IF grows THEN height + 1 ELSE height
      /\ iter' = father
      /\ pc' = "split"
      /\ UNCHANGED <<objects, fixed, rec, pending, copy, tmp_sorted_children>>
  BY Zenon, <1>2
<1>4. /\ father # iter /\ father # sibling /\ ~Moves(d, father)
      /\ sibling # iter /\ ~Moves(d, sibling) /\ ~Moves(d, iter)
  OBVIOUS
<1> HIDE DEF at, top, father, sibling, grows
<1>5. linked(iter) = [CopyChildren(at, d.low) EXCEPT !.box = d.box1, !.father = father]
  BY <1>4
<1>6. sibling # iter => linked(sibling) = [CopyChildren(TreeNode(at.leaf), d.high) EXCEPT !.box = d.box2, !.father = father]
  BY <1>4
<1>7. father # iter /\ father # sibling => linked(father) = AddChildren([above EXCEPT !.box = IF grows THEN Merge(d.box1, d.box2)
                                                                 ELSE Merge(@, d.box2)], sibling)
  BY <1>4
<1>8. \A n : n # iter /\ n # sibling /\ n # father => linked(n) = IF Moves(d, n) THEN [tree_nodes[n] EXCEPT !.father = sibling] ELSE tree_nodes[n]
  BY <1>4
<1>9. AddChildren([above EXCEPT !.box = IF grows THEN Merge(d.box1, d.box2) ELSE Merge(@, d.box2)], sibling)
      = AddChildren([above EXCEPT !.box = IF grows THEN Merge(d.box1, d.box2) ELSE Merge(above.box, d.box2)], sibling)
  OBVIOUS
<1> HIDE DEF linked
<1>10. LinkedNodes(d, sibling, father, grows, above, IF grows THEN Merge(d.box1, d.box2) ELSE Merge(above.box, d.box2))
  <2>1. \A n \in DOMAIN tree_nodes \cup {sibling, father} : tree_nodes'[n] = linked(n)
    BY <1>3
  <2>2. DOMAIN tree_nodes' = DOMAIN tree_nodes \cup {sibling, father}
    BY <1>3
  <2>3. QED
    BY ONLY <1>5, <1>6, <1>7, <1>8, <1>9, <2>1, <2>2, iter \in DOMAIN tree_nodes DEF LinkedNodes, at
<1>11. Links(d, sibling, father, grows)
  BY <1>3 DEF Links
<1>12. father = (IF grows THEN NodeCount + 1 ELSE tree_nodes[iter].father)
      /\ above = (IF grows THEN Include(AddChildren(TreeNode(FALSE), iter), d.box1) ELSE tree_nodes[father])
  BY DEF father, top, grows, at
<1>13. sibling = NodeCount /\ grows = (tree_nodes[iter].father < 0)
  BY DEF sibling, grows, at
<1>14. QED
  BY Zenon, <1>10, <1>11, <1>12, <1>13

\* The node, its sibling, its father and what moves are different nodes.
LEMMA LinkDistinct ==
  ASSUME IInv, Overflow, NEW R, NEW d, Divides(d, R, Entries(iter))
  PROVE  /\ iter \in DOMAIN tree_nodes /\ NodeCount \in Nat
         /\ NodeCount \notin DOMAIN tree_nodes /\ NodeCount + 1 \notin DOMAIN tree_nodes
         /\ \A f \in {NodeCount + 1, tree_nodes[iter].father} :
                f # iter /\ f # NodeCount /\ ~Moves(d, f)
         /\ NodeCount # iter /\ ~Moves(d, NodeCount) /\ ~Moves(d, iter)
         /\ iter = root => tree_nodes[iter].father = -1
         /\ iter # root => /\ tree_nodes[iter].father \in DOMAIN tree_nodes /\ tree_nodes[iter].father \in Nat
                           /\ ~tree_nodes[tree_nodes[iter].father].leaf
<1> DEFINE T == tree_nodes
           f == T[iter].father
<1>1. /\ Whole(T, objects, root, height, minimum_entry, maximum_entry) /\ iter \in DOMAIN T
      /\ Ids(T[iter].kids)
  BY TheTree
<1>2. Skeleton(T, root, height) /\ Typed(T)
  BY <1>1 DEF Whole
<1>3. /\ NodeCount \in Nat /\ NodeCount \notin DOMAIN T /\ DOMAIN T = 0..NodeCount - 1
  BY <1>2, NumberedNext DEF Typed, NodeCount
<1>4. NodeCount + 1 \notin DOMAIN T /\ NodeCount # iter /\ NodeCount + 1 # iter
  BY <1>1, <1>3
<1>5. ASet(d.high) \subseteq Kids(T, iter) /\ ASet(d.high) \subseteq Nat
  <2>1. ASet(d.high) \subseteq Kids(T, iter)
    BY DEF Divides, Shares, Entries, Kids
  <2>2. Kids(T, iter) \subseteq Nat
    BY <1>1, SetOf DEF Ids, Kids
  <2>3. QED
    BY <2>1, <2>2
<1>6. ~T[iter].leaf => Kids(T, iter) \subseteq DOMAIN T /\ iter \notin Kids(T, iter)
  BY <1>1, <1>2, LevelsApart DEF Skeleton
<1>7. ~Moves(d, NodeCount) /\ ~Moves(d, NodeCount + 1) /\ ~Moves(d, iter)
  BY <1>3, <1>4, <1>5, <1>6 DEF Moves
<1>8. iter = root => f = -1
  BY <1>2 DEF Skeleton
<1>9. iter # root => f \in DOMAIN T /\ f \in Nat /\ ~T[f].leaf /\ iter \in Kids(T, f)
  BY <1>1, <1>2 DEF Skeleton
<1>10. f # iter /\ f # NodeCount
  <2>1. CASE iter = root
    BY <1>1, <1>3, <1>8, <2>1
  <2>2. CASE iter # root
    BY <1>2, <1>3, <1>9, <2>2, LevelsApart
  <2>3. QED
    BY <2>1, <2>2
<1>11. ~Moves(d, f)
  <2>1. CASE iter = root
    BY <1>5, <1>8, <2>1 DEF Moves
  <2>2. CASE iter # root /\ ~T[iter].leaf
    <3>1. f \notin Kids(T, iter)
      BY <1>1, <1>2, <1>9, <2>2, LevelsApart
    <3>2. QED
      BY <1>5, <3>1 DEF Moves
  <2>3. CASE T[iter].leaf
    BY <2>3 DEF Moves
  <2>4. QED
    BY <2>1, <2>2, <2>3
<1>12. NodeCount + 1 # NodeCount
  BY <1>3
<1>13. QED
  BY <1>1, <1>3, <1>4, <1>7, <1>8, <1>9, <1>10, <1>11, <1>12

\* Link divides the node under its father, or under a new root.
LEMMA LinkDoes ==
  ASSUME IInv, Overflow, NEW R, NEW d, Divides(d, R, Entries(iter)), Link(d)
  PROVE  \E s, f : s = Cardinality(DOMAIN tree_nodes) /\ LinkDid(d, s, f)
<1> DEFINE T == tree_nodes
           T2 == tree_nodes'
<1>1. /\ iter \in DOMAIN T /\ NodeCount \in Nat
      /\ NodeCount \notin DOMAIN T /\ NodeCount + 1 \notin DOMAIN T
      /\ \A f \in {NodeCount + 1, T[iter].father} : f # iter /\ f # NodeCount /\ ~Moves(d, f)
      /\ NodeCount # iter /\ ~Moves(d, NodeCount) /\ ~Moves(d, iter)
      /\ iter = root => T[iter].father = -1
      /\ iter # root => T[iter].father \in DOMAIN T /\ T[iter].father \in Nat /\ ~T[T[iter].father].leaf
  BY LinkDistinct
<1>2. PICK s, f, grows, above :
             /\ s = NodeCount /\ grows = (T[iter].father < 0)
             /\ f = (IF grows THEN NodeCount + 1 ELSE T[iter].father)
             /\ above = (IF grows THEN Include(AddChildren(TreeNode(FALSE), iter), d.box1) ELSE T[f])
             /\ LinkedNodes(d, s, f, grows, above, IF grows THEN Merge(d.box1, d.box2) ELSE Merge(above.box, d.box2))
             /\ Links(d, s, f, grows)
  BY <1>1, LinkUnfolds
<1>3. grows <=> iter = root
  <2>1. (T[iter].father < 0) <=> iter = root
    BY <1>1
  <2>2. grows <=> T[iter].father < 0
    BY Zenon, <1>2
  <2>3. QED
    BY <2>1, <2>2
<1>4. /\ minimum_entry \in Nat /\ maximum_entry \in Nat /\ maximum_entry >= 3
      /\ \A n \in DOMAIN T : T[n] \in NodeT /\ Ids(T[n].kids) /\ n \in Nat
      /\ Whole(T, objects, root, height, minimum_entry, maximum_entry)
  BY TheTree DEF Whole, Skeleton
<1>5. /\ ~Refused(d.low) /\ ~Refused(d.high) /\ d.low \in Seq(Nat) /\ d.high \in Seq(Nat)
      /\ d.box1 \in RectT /\ d.box2 \in RectT
  BY HalvesFit
<1>6. s \in Nat /\ f \in Nat /\ f # iter /\ f # s /\ s # iter /\ s = Cardinality(DOMAIN T) /\ s \notin DOMAIN T
  BY <1>1, <1>2, <1>3 DEF NodeCount
<1>7. T[iter].leaf \in BOOLEAN /\ T[iter] \in NodeT
  BY <1>1, <1>4, NodeFields
<1>8. PICK box : box = IF grows THEN Merge(d.box1, d.box2) ELSE Merge(above.box, d.box2)
  OBVIOUS
<1>9. LinkedNodes(d, s, f, grows, above, box) /\ Links(d, s, f, grows)
  BY <1>2, <1>8
<1>10. DOMAIN T2 = DOMAIN T \cup {s, f}
  BY <1>9 DEF LinkedNodes
<1>11. IsNode(T2[iter], d.box1, d.low, FALSE, T[iter].leaf, f)
  <2>1. T2[iter] = [CopyChildren(T[iter], d.low) EXCEPT !.box = d.box1, !.father = f]
    BY <1>9 DEF LinkedNodes
  <2>2. PICK n : n = T[iter]
    OBVIOUS
  <2>3. IsNode([CopyChildren(n, d.low) EXCEPT !.box = d.box1, !.father = f], d.box1, d.low, FALSE, n.leaf, f)
    BY <1>5, <1>6, <1>7, <2>2, NodeCopies
  <2>4. QED
    BY <2>1, <2>2, <2>3
<1>12. IsNode(T2[s], d.box2, d.high, FALSE, T[iter].leaf, f)
  <2>1. T2[s] = [CopyChildren(TreeNode(T[iter].leaf), d.high) EXCEPT !.box = d.box2, !.father = f]
    BY <1>6, <1>9 DEF LinkedNodes
  <2>2. PICK n : n = TreeNode(T[iter].leaf)
    OBVIOUS
  <2>3. n \in NodeT /\ n.leaf = T[iter].leaf
    BY <1>7, <2>2, NewNode DEF IsNode
  <2>4. IsNode([CopyChildren(n, d.high) EXCEPT !.box = d.box2, !.father = f], d.box2, d.high, FALSE, n.leaf, f)
    BY <1>5, <1>6, <2>3, NodeCopies
  <2>5. QED
    BY <2>1, <2>2, <2>3, <2>4
<1>13. ASSUME NEW n \in DOMAIN T \ {iter, f}
       PROVE  IsNode(T2[n], T[n].box, T[n].kids, T[n].overflow, T[n].leaf,
                     IF ~T[iter].leaf /\ n \in ASet(d.high) THEN s ELSE T[n].father)
  <2>1. n # s /\ T[n] \in NodeT
    BY <1>4, <1>6
  <2>2. T2[n] = IF Moves(d, n) THEN [T[n] EXCEPT !.father = s] ELSE T[n]
    BY <1>9, <2>1 DEF LinkedNodes
  <2>3. CASE Moves(d, n)
    <3>1. IsNode([T[n] EXCEPT !.father = s], T[n].box, T[n].kids, T[n].overflow, T[n].leaf, s)
      BY <1>6, <2>1, NodeRefathered
    <3>2. QED
      BY <2>2, <2>3, <3>1 DEF Moves
  <2>4. CASE ~Moves(d, n)
    BY <2>1, <2>2, <2>4 DEF Moves, IsNode
  <2>5. QED
    BY <2>3, <2>4
<1>14. \A a \in NodeT : box \in RectT => LET t == T2[f] IN
          above = a => IsNode(t, box, Append(a.kids, s), a.overflow \/ Len(a.kids) + 1 > maximum_entry, a.leaf, a.father)
  <2> SUFFICES ASSUME NEW a \in NodeT, box \in RectT, above = a
               PROVE  IsNode(T2[f], box, Append(a.kids, s), a.overflow \/ Len(a.kids) + 1 > maximum_entry, a.leaf, a.father)
    OBVIOUS
  <2>1. T2[f] = AddChildren([above EXCEPT !.box = box], s)
    BY <1>6, <1>9 DEF LinkedNodes
  <2>2. PICK b : b = [a EXCEPT !.box = box]
    OBVIOUS
  <2>3. IsNode(b, box, a.kids, a.overflow, a.leaf, a.father)
    BY <2>2, NodeReboxed
  <2>4. IsNode(AddChildren(b, s), b.box, Append(b.kids, s), b.overflow \/ Len(b.kids) + 1 > maximum_entry, b.leaf, b.father)
    BY <1>6, <2>3, NodeAdds DEF IsNode
  <2>5. QED
    BY <2>1, <2>2, <2>3, <2>4 DEF IsNode
<1>15. /\ iter' = f /\ pc' = "split"
       /\ UNCHANGED <<objects, fixed, rec, pending, copy, tmp_sorted_children>>
  BY <1>9 DEF Links
<1>16. CASE iter # root
  <2>1. f = T[iter].father /\ f \in DOMAIN T /\ ~T[f].leaf /\ above = T[f] /\ box = Merge(T[f].box, d.box2)
    BY <1>1, <1>2, <1>3, <1>8, <1>16
  <2>2. T[f] \in NodeT /\ T[f].box \in RectT /\ box \in RectT
    BY <1>4, <1>5, <2>1, NodeFields, MergeIs
  <2>3. IsNode(T2[f], box, Append(T[f].kids, s), T[f].overflow \/ Len(T[f].kids) + 1 > maximum_entry, T[f].leaf, T[f].father)
    BY <1>14, <2>1, <2>2
  <2>4. Torn(T, T2, iter, s, f, d, T[f], maximum_entry)
    BY <1>10, <1>11, <1>12, <1>13, <2>1, <2>3 DEF Torn, IsNode
  <2>5. LinksBelow(d, s, f)
    BY <1>3, <1>9, <1>16, <2>1, <2>3, <2>4 DEF LinksBelow, Links, IsNode
  <2>6. QED
    BY <1>6, <1>15, <1>16, <2>5 DEF LinkDid
<1>17. CASE iter = root
  <2>1. f = s + 1 /\ above = Include(AddChildren(TreeNode(FALSE), iter), d.box1) /\ box = Merge(d.box1, d.box2)
    BY <1>2, <1>3, <1>8, <1>17
  <2>2. IsNode(TreeNode(FALSE), NoRectangle, <<>>, FALSE, FALSE, -1)
    BY NewNode
  <2>3. PICK n : n = TreeNode(FALSE)
    OBVIOUS
  <2>4. n \in NodeT /\ n.kids = <<>> /\ n.overflow = FALSE /\ n.leaf = FALSE /\ n.father = -1
    BY <2>2, <2>3 DEF IsNode
  <2>5. IsNode(AddChildren(n, iter), n.box, Append(n.kids, iter),
               n.overflow \/ Len(n.kids) + 1 > maximum_entry, n.leaf, n.father)
    BY <1>1, <1>4, <2>4, NodeAdds
  <2>6. PICK m : m = AddChildren(n, iter)
    OBVIOUS
  <2>7. m \in NodeT /\ m.kids = <<iter>> /\ ~m.overflow /\ ~m.leaf /\ m.father = -1
    <3>1. Append(n.kids, iter) = <<iter>> /\ Len(n.kids) = 0
      BY <2>4
    <3>2. ~(Len(n.kids) + 1 > maximum_entry)
      BY <1>4, <3>1
    <3>3. QED
      BY <2>4, <2>5, <2>6, <3>1, <3>2 DEF IsNode
  <2>8. PICK top : top = Include(m, d.box1)
    OBVIOUS
  <2>9. top \in NodeT /\ top.kids = <<iter>> /\ ~top.overflow /\ ~top.leaf /\ top.father = -1
    <3>1. IsNode(Include(m, d.box1), Included(m, d.box1), m.kids, m.overflow, m.leaf, m.father)
      BY <1>5, <2>7, NodeIncludes
    <3>2. QED
      BY <2>7, <2>8, <3>1 DEF IsNode
  <2>10. above = top /\ box \in RectT
    BY <1>5, <2>1, <2>3, <2>6, <2>8, MergeIs
  <2>11. IsNode(T2[f], box, Append(top.kids, s), top.overflow \/ Len(top.kids) + 1 > maximum_entry, top.leaf, top.father)
    BY <1>14, <2>9, <2>10
  <2>12. Torn(T, T2, iter, s, f, d, top, maximum_entry)
    BY <1>10, <1>11, <1>12, <1>13, <2>9, <2>11 DEF Torn, IsNode
  <2>13. LinksAbove(d, s, f)
    BY <1>3, <1>9, <1>17, <2>1, <2>9, <2>11, <2>12 DEF LinksAbove, Links, IsNode
  <2>14. QED
    BY <1>6, <1>15, <1>17, <2>13 DEF LinkDid
<1>18. QED
  BY <1>16, <1>17

\* A split keeps everything, whatever chose it.
LEMMA LinkKeeps ==
  ASSUME IInv, pc \in Splittings, Overflow, SplitMode # "reinsert",
         NEW R, NEW d, Divides(d, R, Entries(iter)), Link(d), keepsLocations
  PROVE  IInv'
<1>1. PICK s, f : s = Cardinality(DOMAIN tree_nodes) /\ LinkDid(d, s, f)
  BY LinkDoes
<1>2. /\ Whole(tree_nodes, objects, root, height, minimum_entry, maximum_entry)
      /\ iter \in DOMAIN tree_nodes /\ minimum_entry \in Nat /\ maximum_entry \in Nat /\ maximum_entry >= 2
  BY TheTree
<1>3. \A n \in DOMAIN tree_nodes : tree_nodes[n].overflow => n = iter
  BY DEF IInv, TreeOK
<1>4. Halved(d, tree_nodes[iter].kids, minimum_entry, maximum_entry)
  BY HalvesFit DEF Entries
<1>5. /\ iter' = f /\ pc' = "split"
      /\ UNCHANGED <<objects, fixed, rec, pending, copy, tmp_sorted_children>>
  BY <1>1 DEF LinkDid
<1>6. /\ Whole(tree_nodes', objects, root', height', minimum_entry, maximum_entry)
      /\ PlacedIn(tree_nodes') = PlacedIn(tree_nodes) /\ f \in DOMAIN tree_nodes'
      /\ \A n \in DOMAIN tree_nodes' : tree_nodes'[n].overflow => n = f
      /\ ~tree_nodes'[f].leaf
  <2>1. CASE iter # root
    <3>1. /\ f = tree_nodes[iter].father
          /\ Torn(tree_nodes, tree_nodes', iter, s, f, d, tree_nodes[f], maximum_entry)
          /\ root' = root /\ height' = height
      BY <1>1, <2>1 DEF LinkDid, LinksBelow
    <3>2. PICK T2 : T2 = tree_nodes'
      OBVIOUS
    <3>3. TornBelow(tree_nodes, T2, iter, s, f, d, minimum_entry, maximum_entry)
      BY <1>1, <1>4, <3>1, <3>2 DEF TornBelow
    <3>4. FullOnly(tree_nodes, iter)
      BY <1>3 DEF FullOnly
    <3>5. /\ Whole(T2, objects, root, height, minimum_entry, maximum_entry)
          /\ PlacedIn(T2) = PlacedIn(tree_nodes) /\ f \in DOMAIN T2 /\ FullOnly(T2, f)
      BY ONLY <1>2, <2>1, <3>3, <3>4, SplitBelow
    <3>6. QED
      BY <3>1, <3>2, <3>3, <3>5 DEF Torn, FullOnly
  <2>2. CASE iter = root
    <3>1. /\ f = s + 1 /\ root' = f /\ height' = height + 1
      BY <1>1, <2>2 DEF LinkDid, LinksAbove
    <3>2. PICK top \in NodeT : /\ top.kids = <<iter>> /\ ~top.overflow /\ ~top.leaf /\ top.father = -1
                               /\ Torn(tree_nodes, tree_nodes', iter, s, f, d, top, maximum_entry)
      BY <1>1, <2>2 DEF LinkDid, LinksAbove
    <3>3. /\ Whole(tree_nodes', objects, f, height + 1, minimum_entry, maximum_entry)
          /\ PlacedIn(tree_nodes') = PlacedIn(tree_nodes) /\ f \in DOMAIN tree_nodes'
          /\ \A n \in DOMAIN tree_nodes' : tree_nodes'[n].overflow => n = f
      BY <1>1, <1>2, <1>3, <1>4, <2>2, <3>1, <3>2, SplitRoot
    <3>4. QED
      BY <3>1, <3>2, <3>3 DEF Torn
  <2>3. QED
    BY <2>1, <2>2
<1>7. TreeOK'
  <2>1. Stored(objects)'
    BY <1>5 DEF IInv, TreeOK
  <2>2. /\ Whole(tree_nodes, objects, root, height, minimum_entry, maximum_entry)'
        /\ iter' \in DOMAIN tree_nodes'
    BY <1>5, <1>6 DEF fixed
  <2>3. QED
    BY <1>5, <1>6, <2>1, <2>2 DEF TreeOK, Splittings
<1>8. Settings' /\ conf' = conf
  BY <1>5, SettingsStay DEF IInv
<1>9. DriverOK'
  <2>1. SplitMode' = SplitMode
    BY <1>5, <1>8 DEF SplitMode, Reinserting
  <2>2. QED
    BY <1>5, <2>1 DEF DriverOK, Splittings
<1>10. PlacesOK'
  <2>1. ~Inserting /\ ~Inserting' /\ pc # "idle" /\ pc # "try"
    BY <1>5 DEF Inserting, Splittings
  <2>2. PlacesOK /\ PlacedIn(tree_nodes)' = PlacedIn(tree_nodes)
    BY <1>6 DEF IInv
  <2>3. ASet(pending)' = ASet(pending)
    BY <1>5
  <2>4. {k \in {rec} : Inserting} = {} /\ {k \in {rec} : Inserting}' = {}
    BY <2>1
  <2>5. QED
    BY <1>5, <2>1, <2>2, <2>3, <2>4 DEF PlacesOK
<1>11. tmp_sorted_children' = <<>>
  BY <1>5 DEF IInv, SortedOK, Splittings
<1>12. ListedOK'
  BY <1>5, ListsStay DEF IInv, keepsLocations
<1>13. CopyOK'
  BY <1>5, CopyStays DEF IInv
<1>14. QED
  BY <1>7, <1>8, <1>9, <1>10, <1>11, <1>12, <1>13, NothingSorted DEF IInv

-------------------------------------------------------------------------------
\* The calls that split: each links a cut of the node at hand, and RRSplit may
\* find none.
Cuts ==
  /\ pc \in Splittings /\ Overflow /\ SplitMode # "reinsert" /\ keepsLocations
  /\ \E d : Divides(d, EntryBoxes(iter), Entries(iter)) /\ Link(d)
NoCut ==
  /\ pc = "split" /\ Overflow /\ keepsLocations /\ pc' = "undefined"
  /\ RRCuts(EntryBoxes(iter), Entries(iter), tree_nodes[iter].box, tree_nodes[iter].leaf) = {}
  /\ UNCHANGED <<treeVars, objects, fixed, iter, rec, pending, copy, tmp_sorted_children>>

\* A cut keeps the invariant.
LEMMA CutsKeep ==
  ASSUME IInv, Cuts
  PROVE  IInv'
BY LinkKeeps DEF Cuts

\* SplitStepByStep links a cut, and never ends the program.
LEMMA SplitStepByStepCuts ==
  ASSUME IInv, NEW strategy \in SplitStrategies, SplitStepByStep(strategy)
  PROVE  Cuts
<1>1. pc = "split" /\ Overflow /\ SplitMode # "reinsert" /\ keepsLocations
  BY DEF SplitStepByStep, Splitting
<1>2. PICK d : /\ d = SplitBy(strategy, EntryBoxes(iter), Entries(iter), tree_nodes[iter].box)
               /\ IF Refused(d.low) \/ Refused(d.high)
                  THEN pc' = "exited" /\ UNCHANGED <<treeVars, objects, fixed, iter, rec, pending, copy,
                                                     tmp_sorted_children>>
                  ELSE Link(d)
  BY DEF SplitStepByStep
<1>3. /\ Overfull(Entries(iter)) /\ FanOuts
      /\ \A x \in ASet(Entries(iter)) : EntryBoxes(iter)[x] \in RectT
  BY <1>1, OverfullNode
<1>4. Divides(d, EntryBoxes(iter), Entries(iter))
  BY <1>2, <1>3, SplitByDivides
<1>5. ~Refused(d.low) /\ ~Refused(d.high)
  BY <1>1, <1>4, HalvesFit
<1>6. QED
  BY <1>1, <1>2, <1>4, <1>5 DEF Cuts, Splittings

\* The quotient and the remainder of a location number.
LEMMA Quotient ==
  ASSUME NEW k \in Nat, NEW c \in Nat, c > 0
  PROVE  k \div c \in Nat /\ k % c \in 0..c - 1 /\ k = c * (k \div c) + (k % c)
OBVIOUS

\* SplitWithLoc links a cut.
LEMMA SplitWithLocCuts ==
  ASSUME IInv, NEW loc \in 0..4 * CutsPerOrder - 1, SplitWithLoc(loc)
  PROVE  Cuts
<1>1. pc = "split" /\ Overflow /\ SplitMode # "reinsert" /\ keepsLocations /\ Link(LocCut(iter, loc))
  BY DEF SplitWithLoc, Splitting
<1>2. /\ Overfull(Entries(iter)) /\ FanOuts
      /\ \A x \in ASet(Entries(iter)) : EntryBoxes(iter)[x] \in RectT
  BY <1>1, OverfullNode
<1>3. PICK c \in Nat : c = CutsPerOrder /\ c >= 1
  BY <1>2, CutsPositive
<1>4. PICK q, m : q = loc \div c /\ m = loc % c
  OBVIOUS
<1>5. q \in Nat /\ m \in 0..c - 1 /\ loc = c * q + m
  BY <1>3, <1>4, Quotient
<1>6. q \in 0..3 /\ m + 1 \in 1..c
  <2>1. loc < c * 4
    BY <1>3
  <2>2. c * q < c * 4
    BY <1>3, <1>5, <2>1
  <2>3. q < 4
    <3>1. SUFFICES ASSUME q >= 4 PROVE FALSE
      BY <1>5
    <3>2. c * q >= c * 4
      BY <1>3, <1>5, <3>1
    <3>3. QED
      BY <1>3, <1>5, <2>2, <3>2
  <2>4. QED
    BY <1>3, <1>5, <2>3
<1>7. PICK order \in Orders4 : order = AllOrders[q + 1]
  BY <1>6 DEF AllOrders, Orders4
<1>8. PICK t : t = Sorted(EntryBoxes(iter), Entries(iter), order)
  OBVIOUS
<1>9. Rearranges(t, Entries(iter))
  BY <1>2, <1>7, <1>8, SortedRearranges DEF Overfull
<1>10. LocCut(iter, loc) = CutAt(EntryBoxes(iter), t, m + 1)
  BY <1>3, <1>4, <1>7, <1>8 DEF LocCut
<1>11. Divides(CutAt(EntryBoxes(iter), t, m + 1), EntryBoxes(iter), Entries(iter))
  BY <1>2, <1>3, <1>6, <1>9, CutAtDivides
<1>12. QED
  BY <1>1, <1>10, <1>11 DEF Cuts, Splittings

\* A call that only lists cuts leaves the tree as it is.
LEMMA TreeWaits ==
  ASSUME IInv, pc \in Splittings, pc' \in Splittings \cup {"undefined"},
         UNCHANGED <<treeVars, objects, fixed, iter, rec, pending, copy, tmp_sorted_children>>,
         DriverOK', ListedOK'
  PROVE  IInv'
<1>1. UNCHANGED <<tree_nodes, root, height, objects, fixed, iter, rec, pending, copy, tmp_sorted_children>>
  BY DEF treeVars
<1>2. Settings' /\ CopyOK' /\ conf' = conf
  BY <1>1, SettingsStay, CopyStays DEF IInv
<1>3. TreeOK'
  BY <1>1 DEF IInv, TreeOK, fixed
<1>4. ~Inserting /\ ~Inserting' /\ pc # "idle" /\ pc # "try" /\ pc' # "idle" /\ pc' # "try"
  BY DEF Inserting, Splittings
<1>5. {k \in {rec} : Inserting} = {} /\ {k \in {rec} : Inserting}' = {}
  BY <1>4
<1>6. PlacesOK'
  BY <1>1, <1>4, <1>5 DEF IInv, PlacesOK
<1>7. tmp_sorted_children' = <<>>
  BY <1>1 DEF IInv, SortedOK, Splittings
<1>8. QED
  BY <1>2, <1>3, <1>6, <1>7, NothingSorted DEF IInv

\* RRSplit links a cut, or finds none.
LEMMA RRSplitCuts ==
  ASSUME IInv, RRSplit
  PROVE  Cuts \/ NoCut
<1>1. pc = "split" /\ Overflow /\ SplitMode # "reinsert" /\ keepsLocations
  BY DEF RRSplit, Splitting
<1>2. PICK cuts : /\ cuts = RRCuts(EntryBoxes(iter), Entries(iter), tree_nodes[iter].box, tree_nodes[iter].leaf)
                  /\ IF cuts = {}
                     THEN pc' = "undefined" /\ UNCHANGED <<treeVars, objects, fixed, iter, rec, pending, copy,
                                                           tmp_sorted_children>>
                     ELSE \E d \in cuts : Link(d)
  BY DEF RRSplit
<1>3. CASE cuts = {}
  BY <1>1, <1>2, <1>3 DEF NoCut
<1>4. CASE cuts # {}
  <2>1. PICK d \in cuts : Link(d)
    BY <1>2, <1>4
  <2>2. /\ Overfull(Entries(iter)) /\ FanOuts
        /\ \A x \in ASet(Entries(iter)) : EntryBoxes(iter)[x] \in RectT
    BY <1>1, OverfullNode
  <2>3. Divides(d, EntryBoxes(iter), Entries(iter))
    BY <1>2, <2>1, <2>2, RRCutsDivide
  <2>4. QED
    BY <1>1, <2>1, <2>3 DEF Cuts, Splittings
<1>5. QED
  BY <1>3, <1>4

\* And then keeps the invariant, either way.
LEMMA NoCutKeeps ==
  ASSUME IInv, NoCut
  PROVE  IInv'
<1>1. /\ pc = "split" /\ keepsLocations /\ pc' = "undefined"
      /\ UNCHANGED <<treeVars, objects, fixed, iter, rec, pending, copy, tmp_sorted_children>>
  BY DEF NoCut
<1>2. DriverOK'
  BY <1>1 DEF DriverOK, Splittings
<1>3. ListedOK'
  BY <1>1, ListsStay DEF IInv, keepsLocations
<1>4. QED
  BY <1>1, <1>2, <1>3, TreeWaits DEF Splittings

\* The locations number the cuts under the two orders.
LEMMA LocationsAre ==
  ASSUME FanOuts, NEW i \in Locations
  PROVE  \E o \in {1, 2}, c \in 1..CutsPerOrder :
             LocationOf(i) = <<o, c>> /\ i = CutsPerOrder * (o - 1) + c
<1>1. PICK c \in Nat : c = CutsPerOrder /\ c >= 1
  BY CutsPositive
<1>2. i \in Nat /\ i >= 1 /\ i <= 2 * c
  BY <1>1 DEF Locations
<1>3. PICK k \in Nat : k = i - 1
  BY <1>2
<1>4. PICK q, m : q = k \div c /\ m = k % c
  OBVIOUS
<1>5. q \in Nat /\ m \in 0..c - 1 /\ k = c * q + m
  BY <1>1, <1>4, Quotient
<1>6. q < 2
  <2>1. SUFFICES ASSUME q >= 2 PROVE FALSE
    BY <1>5
  <2>2. c * q >= c * 2
    BY <1>1, <1>5, <2>1
  <2>3. QED
    BY <1>1, <1>2, <1>3, <1>5, <2>2
<1>7. q + 1 \in {1, 2} /\ m + 1 \in 1..CutsPerOrder
  BY <1>1, <1>5, <1>6
<1>8. LocationOf(i) = <<q + 1, m + 1>>
  BY <1>1, <1>3, <1>4 DEF LocationOf
<1>9. i = CutsPerOrder * ((q + 1) - 1) + (m + 1)
  BY <1>1, <1>2, <1>3, <1>5
<1>10. QED
  BY <1>7, <1>8, <1>9

\* The sweep under one of the two orders gives rectangles.
LEMMA SweepAtRects ==
  ASSUME IInv, Overflow, NEW o \in {1, 2}, NEW c \in 1..CutsPerOrder
  PROVE  SweepAt(iter, o)[c][1] \in RectT /\ SweepAt(iter, o)[c][2] \in RectT
<1>1. /\ Overfull(Entries(iter)) /\ FanOuts
      /\ \A x \in ASet(Entries(iter)) : EntryBoxes(iter)[x] \in RectT
  BY OverfullNode
<1>2. PICK order \in Orders4 : order = TwoOrders[o]
  BY DEF TwoOrders, Orders4
<1>3. PICK s : s = Sorted(EntryBoxes(iter), Entries(iter), order)
  OBVIOUS
<1>4. Rearranges(s, Entries(iter))
  BY <1>1, <1>2, <1>3, SortedRearranges DEF Overfull
<1>5. Overfull(s) /\ \A x \in ASet(s) : EntryBoxes(iter)[x] \in RectT
  BY <1>1, <1>4 DEF Rearranges, Overfull
<1>6. SweepAt(iter, o) = Sweep(EntryBoxes(iter), s)
  BY <1>2, <1>3 DEF SweepAt
<1>7. QED
  BY <1>1, <1>5, <1>6, SweepRects

\* A cut under one of the two orders divides the node.
LEMMA TwoOrdersCutDivides ==
  ASSUME IInv, Overflow, NEW at, IsLocation(at)
  PROVE  Divides(TwoOrdersCut(iter, at), EntryBoxes(iter), Entries(iter))
<1>1. PICK o \in {1, 2}, c \in 1..CutsPerOrder : at = <<o, c>>
  BY DEF IsLocation
<1>2. /\ Overfull(Entries(iter)) /\ FanOuts
      /\ \A x \in ASet(Entries(iter)) : EntryBoxes(iter)[x] \in RectT
  BY OverfullNode
<1>3. PICK order \in Orders4 : order = TwoOrders[o]
  BY DEF TwoOrders, Orders4
<1>4. PICK s : s = Sorted(EntryBoxes(iter), Entries(iter), order)
  OBVIOUS
<1>5. Rearranges(s, Entries(iter))
  BY <1>2, <1>3, <1>4, SortedRearranges DEF Overfull
<1>6. at[1] = o /\ at[2] = c
  BY <1>1
<1>7. TwoOrdersCut(iter, at) = CutAt(EntryBoxes(iter), s, c)
  BY <1>3, <1>4, <1>6 DEF TwoOrdersCut
<1>8. QED
  BY <1>2, <1>5, <1>7, CutAtDivides

\* The cut that SplitWithSortedLoc takes is still one of the node's.
LEMMA SplitWithSortedLocCuts ==
  ASSUME IInv, NEW loc \in Locations, SplitWithSortedLoc(loc)
  PROVE  Cuts
<1>1. pc = "sorted" /\ keepsLocations
  BY DEF SplitWithSortedLoc
<1>2. Overflow /\ SplitMode # "reinsert" /\ sorted_split_loc # <<>>
  BY <1>1 DEF IInv, DriverOK, Splittings, Overflow
<1>3. PICK at : at = <<2 - sorted_split_loc[loc][2], sorted_split_loc[loc][3]>>
  OBVIOUS
<1>4. IsLocation(at)
  BY <1>2, <1>3 DEF IInv, ListedOK
<1>5. Divides(TwoOrdersCut(iter, at), EntryBoxes(iter), Entries(iter))
  BY <1>2, <1>4, TwoOrdersCutDivides
<1>6. Link(TwoOrdersCut(iter, at))
  BY <1>3 DEF SplitWithSortedLoc
<1>7. QED
  BY <1>1, <1>2, <1>5, <1>6 DEF Cuts, Splittings

\* So is the one of SplitWithCandidateAction.
LEMMA SplitWithCandidateActionCuts ==
  ASSUME IInv, NEW loc \in {1, 2}, SplitWithCandidateAction(loc)
  PROVE  Cuts
<1>1. pc \in {"action", "weighted"} /\ keepsLocations
  BY DEF SplitWithCandidateAction
<1>2. Overflow /\ SplitMode # "reinsert" /\ split_locations # <<>> /\ candidate_split_action # <<>>
  BY <1>1 DEF IInv, DriverOK, Splittings, Overflow
<1>3. PICK at : at = split_locations[candidate_split_action[loc]].at
  OBVIOUS
<1>4. candidate_split_action[loc] \in Locations
  BY <1>2 DEF IInv, ListedOK
<1>5. IsLocation(at)
  BY <1>2, <1>3, <1>4 DEF IInv, ListedOK
<1>6. Divides(TwoOrdersCut(iter, at), EntryBoxes(iter), Entries(iter))
  BY <1>2, <1>5, TwoOrdersCutDivides
<1>7. Link(TwoOrdersCut(iter, at))
  BY <1>3 DEF SplitWithCandidateAction
<1>8. QED
  BY <1>1, <1>2, <1>6, <1>7 DEF Cuts, Splittings

\* The rows of the cuts, sorted by their perimeters.
LEMMA PerimeterIsInt ==
  ASSUME NEW a \in RectT, NEW b \in RectT
  PROVE  SplitPerimeter(a, b) \in Int
BY MeasuresAreInt DEF SplitPerimeter

\* SortSplitLocByPerimeter lists every cut.
LEMMA SortSplitLocLists ==
  ASSUME IInv, Overflow
  PROVE  LET s == SortSplitLocByPerimeter(iter)
         IN  /\ DOMAIN s = Locations /\ Len(s) = 2 * CutsPerOrder
             /\ \A i \in Locations : s[i] \in Tuples(3) /\ IsLocation(<<2 - s[i][2], s[i][3]>>)
             /\ \A i \in Locations :
                    LET b == SweepAt(iter, 2 - s[i][2])[s[i][3]] IN s[i][1] = SplitPerimeter(b[1], b[2])
             /\ \A i, j \in Locations : i < j => s[i][1] <= s[j][1]
<1> DEFINE sweep == [o \in {1, 2} |-> SweepAt(iter, o)]
           row(i) == LET at == LocationOf(i)
                         b == sweep[at[1]][at[2]]
                     IN  <<SplitPerimeter(b[1], b[2]), 2 - at[1], at[2]>>
           rows == [i \in Locations |-> row(i)]
<1>1. SortSplitLocByPerimeter(iter) = Ordered(rows, rows)
  BY Zenon DEF SortSplitLocByPerimeter
<1>2. FanOuts
  BY OverfullNode
<1>3. PICK m \in Nat : m = 2 * CutsPerOrder /\ Locations = 1..m
  BY <1>2, CutsPositive DEF Locations
<1>4. ASSUME NEW i \in Locations
      PROVE  \E o \in {1, 2}, c \in 1..CutsPerOrder, p \in Int :
                 /\ row(i) = <<p, 2 - o, c>> /\ i = CutsPerOrder * (o - 1) + c
                 /\ p = SplitPerimeter(SweepAt(iter, o)[c][1], SweepAt(iter, o)[c][2])
  <2>1. PICK o \in {1, 2}, c \in 1..CutsPerOrder : LocationOf(i) = <<o, c>> /\ i = CutsPerOrder * (o - 1) + c
    BY <1>2, LocationsAre
  <2>2. PICK b : b = SweepAt(iter, o)[c]
    OBVIOUS
  <2>3. b[1] \in RectT /\ b[2] \in RectT
    BY <2>2, SweepAtRects
  <2>4. PICK p \in Int : p = SplitPerimeter(b[1], b[2])
    BY <2>3, PerimeterIsInt
  <2>5. row(i) = <<p, 2 - o, c>>
    BY <2>1, <2>2, <2>4
  <2>6. QED
    BY <2>1, <2>2, <2>4, <2>5
<1>5. PICK r : r = rows
  OBVIOUS
<1>6. DOMAIN r = 1..m /\ \A i \in 1..m : r[i] = row(i)
  BY <1>3, <1>5
<1> HIDE DEF row, rows
<1>7. \A i \in 1..m : \E o \in {1, 2}, c \in 1..CutsPerOrder, p \in Int :
          /\ r[i] = <<p, 2 - o, c>> /\ i = CutsPerOrder * (o - 1) + c
          /\ p = SplitPerimeter(SweepAt(iter, o)[c][1], SweepAt(iter, o)[c][2])
  <2>1. ASSUME NEW i \in 1..m
        PROVE  \E o \in {1, 2}, c \in 1..CutsPerOrder, p \in Int :
                   /\ r[i] = <<p, 2 - o, c>> /\ i = CutsPerOrder * (o - 1) + c
                   /\ p = SplitPerimeter(SweepAt(iter, o)[c][1], SweepAt(iter, o)[c][2])
    <3>1. i \in Locations /\ r[i] = row(i)
      BY <1>3, <1>6
    <3>2. PICK o \in {1, 2}, c \in 1..CutsPerOrder, p \in Int :
              /\ row(i) = <<p, 2 - o, c>> /\ i = CutsPerOrder * (o - 1) + c
              /\ p = SplitPerimeter(SweepAt(iter, o)[c][1], SweepAt(iter, o)[c][2])
      BY <1>4, <3>1
    <3>3. QED
      BY <3>1, <3>2
  <2>2. QED
    BY <2>1
<1>8. r \in [1..m -> Tuples(3)]
  <2>1. ASSUME NEW i \in 1..m PROVE r[i] \in Tuples(3)
    <3>1. PICK o \in {1, 2}, c \in 1..CutsPerOrder, p \in Int : r[i] = <<p, 2 - o, c>>
      BY <1>7
    <3>2. p \in Int /\ 2 - o \in Int /\ c \in Int
      BY <1>2, CutsPositive
    <3>3. QED
      BY <3>1, <3>2, TripleIsTuple
  <2>2. r = [i \in 1..m |-> r[i]]
    BY <1>3, <1>5, <1>6 DEF rows
  <2>3. QED
    BY <2>1, <2>2
<1>9. Injective(r)
  <2>1. SUFFICES ASSUME NEW i \in 1..m, NEW j \in 1..m, r[i] = r[j] PROVE i = j
    BY <1>6 DEF Injective
  <2>2. PICK o \in {1, 2}, c \in 1..CutsPerOrder, p \in Int : r[i] = <<p, 2 - o, c>> /\ i = CutsPerOrder * (o - 1) + c
    BY <1>7
  <2>3. PICK o2 \in {1, 2}, c2 \in 1..CutsPerOrder, p2 \in Int : r[j] = <<p2, 2 - o2, c2>> /\ j = CutsPerOrder * (o2 - 1) + c2
    BY <1>7
  <2>4. <<p, 2 - o, c>> = <<p2, 2 - o2, c2>>
    BY <2>1, <2>2, <2>3
  <2>5. o = o2 /\ c = c2
    BY <2>4
  <2>6. QED
    BY <2>2, <2>3, <2>5
<1>10. PICK s : s = Ordered(r, r)
  OBVIOUS
<1>11. Permutes(s, r) /\ InOrder(s, r, r)
  <2>1. 3 \in Nat
    OBVIOUS
  <2>2. QED
    BY <1>6, <1>8, <1>9, <1>10, <2>1, OrderedPermutes
<1>12. DOMAIN s = 1..m /\ ASet(s) = ASet(r)
  BY <1>6, <1>11 DEF Permutes
<1>13. ASSUME NEW i \in 1..m
       PROVE  /\ s[i] \in Tuples(3) /\ IsLocation(<<2 - s[i][2], s[i][3]>>)
              /\ s[i][1] = SplitPerimeter(SweepAt(iter, 2 - s[i][2])[s[i][3]][1],
                                          SweepAt(iter, 2 - s[i][2])[s[i][3]][2])
  <2>1. s[i] \in ASet(r)
    BY <1>12 DEF ASet
  <2>2. PICK j \in 1..m : s[i] = r[j]
    BY <1>6, <2>1 DEF ASet
  <2>3. PICK o \in {1, 2}, c \in 1..CutsPerOrder, p \in Int :
            r[j] = <<p, 2 - o, c>> /\ p = SplitPerimeter(SweepAt(iter, o)[c][1], SweepAt(iter, o)[c][2])
    BY <1>7
  <2>4. s[i][1] = p /\ 2 - s[i][2] = o /\ s[i][3] = c
    BY <2>2, <2>3
  <2>5. QED
    BY <1>8, <2>2, <2>3, <2>4 DEF IsLocation
<1>14. ASSUME NEW i \in 1..m, NEW j \in 1..m, i < j PROVE s[i][1] <= s[j][1]
  <2>1. PICK k, l \in 1..m : s[i] = r[k] /\ s[j] = r[l] /\ Less(r[k], r[l])
    BY <1>6, <1>11, <1>14 DEF InOrder
  <2>2. PICK v, w : v = s[i] /\ w = s[j]
    OBVIOUS
  <2>3. v \in Tuples(3) /\ w \in Tuples(3) /\ Less(v, w)
    BY <1>13, <2>1, <2>2
  <2>4. v[1] \in Int /\ w[1] \in Int
    BY <2>3 DEF Tuples
  <2>5. PICK p : p \in DOMAIN v /\ v[p] < w[p] /\ \A q \in 1..p - 1 : v[q] = w[q]
    BY <2>3 DEF Less
  <2>6. p = 1 \/ 1 \in 1..p - 1
    BY <2>3, <2>5 DEF Tuples
  <2>7. QED
    BY <2>2, <2>4, <2>5, <2>6
<1>15. Len(s) = m
  <2>1. s = [i \in 1..m |-> s[i]]
    BY <1>6, <1>10, <1>12 DEF Ordered
  <2>2. s \in [1..m -> Tuples(3)]
    BY <1>13, <2>1
  <2>3. s \in Seq(Tuples(3))
    BY <2>2, SeqDef
  <2>4. QED
    BY <1>12, <2>3, LenProperties
<1>16. SortSplitLocByPerimeter(iter) = s
  BY <1>1, <1>5, <1>10
<1>17. QED
  BY <1>3, <1>12, <1>13, <1>14, <1>15, <1>16

\* So RetrieveSortedSplitStates keeps the invariant.
LEMMA RetrieveSortedSplitStatesKeeps ==
  ASSUME IInv, RetrieveSortedSplitStates
  PROVE  IInv'
<1>1. /\ pc = "split" /\ Overflow /\ SplitMode = "sorted" /\ pc' = "sorted"
      /\ sorted_split_loc' = SortSplitLocByPerimeter(iter)
      /\ UNCHANGED <<treeVars, objects, fixed, iter, rec, pending, copy,
                     tmp_sorted_children, split_locations, candidate_split_action>>
  BY DEF RetrieveSortedSplitStates, Splitting
<1>2. PICK s : s = SortSplitLocByPerimeter(iter)
  OBVIOUS
<1>3. /\ DOMAIN s = Locations /\ Len(s) = 2 * CutsPerOrder
      /\ \A i \in Locations : IsLocation(<<2 - s[i][2], s[i][3]>>)
  BY <1>1, <1>2, SortSplitLocLists
<1>4. Locations # {} /\ s # <<>>
  <2>1. FanOuts
    BY <1>1, OverfullNode
  <2>2. 1 \in Locations
    BY <2>1, CutsPositive DEF Locations
  <2>3. QED
    BY <1>3, <2>2
<1>5. fixed' = fixed /\ conf' = conf /\ CutsPerOrder' = CutsPerOrder /\ Locations' = Locations
  BY <1>1, SettingsStay DEF IInv
<1>6. \A i \in Locations : \E o \in {1, 2}, c \in 1..CutsPerOrder : <<2 - s[i][2], s[i][3]>> = <<o, c>>
  BY <1>3 DEF IsLocation
<1>7. ListedOK'
  <2>1. sorted_split_loc' = s
    BY <1>1, <1>2
  <2>2. /\ split_locations' = split_locations /\ candidate_split_action' = candidate_split_action
    BY <1>1
  <2>3. QED
    BY <1>3, <1>5, <1>6, <2>1, <2>2 DEF IInv, ListedOK, IsLocation
<1>8. DriverOK'
  <2>1. SplitMode' = SplitMode
    BY <1>1, <1>5 DEF SplitMode, Reinserting
  <2>2. QED
    BY <1>1, <1>2, <1>4, <2>1 DEF DriverOK, Splittings, Overflow, treeVars
<1>9. QED
  BY <1>1, <1>7, <1>8, TreeWaits DEF Splittings

\* The list of the cuts.
LEMMA PreparedLocations ==
  ASSUME IInv, Overflow
  PROVE  LET s == PrepareSplitLocations(iter)
         IN  /\ DOMAIN s = Locations
             /\ \A i \in Locations : /\ IsLocation(s[i].at)
                                     /\ s[i].perimeter1 \in Int /\ s[i].overlap \in Int
<1> DEFINE sweep == [o \in {1, 2} |-> SweepAt(iter, o)]
<1>1. PrepareSplitLocations(iter)
      = [i \in Locations |-> SplitLocation(sweep[LocationOf(i)[1]][LocationOf(i)[2]], i)]
  BY Zenon DEF PrepareSplitLocations
<1>2. FanOuts
  BY OverfullNode
<1>3. PICK s : s = PrepareSplitLocations(iter)
  OBVIOUS
<1>4. DOMAIN s = Locations
  BY <1>1, <1>3
<1>5. ASSUME NEW i \in Locations
      PROVE  IsLocation(s[i].at) /\ s[i].perimeter1 \in Int /\ s[i].overlap \in Int
  <2>1. PICK o \in {1, 2}, c \in 1..CutsPerOrder : LocationOf(i) = <<o, c>>
    BY <1>2, LocationsAre
  <2>2. PICK b : b = SweepAt(iter, o)[c]
    OBVIOUS
  <2>3. b[1] \in RectT /\ b[2] \in RectT
    BY <2>2, SweepAtRects
  <2>4. s[i] = SplitLocation(b, i)
    BY <1>1, <1>3, <2>1, <2>2
  <2>5. /\ s[i].at = LocationOf(i) /\ s[i].overlap = SplitOverlap(b[1], b[2])
        /\ s[i].perimeter1 = Higher(Perimeter(b[1]), Perimeter(b[2]))
    BY <2>4 DEF SplitLocation
  <2>6. Perimeter(b[1]) \in Int /\ Perimeter(b[2]) \in Int /\ SplitOverlap(b[1], b[2]) \in Int
    BY <2>3, MeasuresAreInt, OverlapIsNat
  <2>7. QED
    BY <2>1, <2>5, <2>6 DEF IsLocation, Higher
<1>6. QED
  BY <1>3, <1>4, <1>5

\* GetNumberOfNonOverlapSplitLocs keeps it.
LEMMA GetNumberOfNonOverlapSplitLocsKeeps ==
  ASSUME IInv, GetNumberOfNonOverlapSplitLocs
  PROVE  IInv'
<1>1. /\ pc = "split" /\ Overflow /\ SplitMode = "candidate" /\ pc' = "candidates"
      /\ split_locations' = PrepareSplitLocations(iter)
      /\ UNCHANGED <<treeVars, objects, fixed, iter, rec, pending, copy,
                     tmp_sorted_children, sorted_split_loc, candidate_split_action>>
  BY DEF GetNumberOfNonOverlapSplitLocs, Splitting
<1>2. PICK s : s = PrepareSplitLocations(iter)
  OBVIOUS
<1>3. /\ DOMAIN s = Locations
      /\ \A i \in Locations : IsLocation(s[i].at) /\ s[i].perimeter1 \in Int /\ s[i].overlap \in Int
  BY <1>1, <1>2, PreparedLocations
<1>4. Locations # {} /\ s # <<>>
  <2>1. FanOuts
    BY <1>1, OverfullNode
  <2>2. 1 \in Locations
    BY <2>1, CutsPositive DEF Locations
  <2>3. QED
    BY <1>3, <2>2
<1>5. fixed' = fixed /\ conf' = conf /\ CutsPerOrder' = CutsPerOrder /\ Locations' = Locations
  BY <1>1, SettingsStay DEF IInv
<1>6. \A i \in Locations : \E o \in {1, 2}, c \in 1..CutsPerOrder : s[i].at = <<o, c>>
  BY <1>3 DEF IsLocation
<1>7. ListedOK'
  <2>1. split_locations' = s
    BY <1>1, <1>2
  <2>2. /\ sorted_split_loc' = sorted_split_loc /\ candidate_split_action' = candidate_split_action
    BY <1>1
  <2>3. QED
    BY <1>3, <1>5, <1>6, <2>1, <2>2 DEF IInv, ListedOK, IsLocation
<1>8. DriverOK'
  <2>1. SplitMode' = SplitMode
    BY <1>1, <1>5 DEF SplitMode, Reinserting
  <2>2. QED
    BY <1>1, <1>2, <1>4, <2>1 DEF DriverOK, Splittings, Overflow, treeVars
<1>9. QED
  BY <1>1, <1>7, <1>8, TreeWaits DEF Splittings

\* The least of the locations I, by a score.
LEMMA LeastLocation ==
  ASSUME FanOuts, NEW I, I \subseteq Locations, I # {}, NEW f, \A i \in I : f[i] \in Int
  PROVE  Least({<<f[i], i>> : i \in I})[2] \in I
<1>1. IsFiniteSet(I)
  <2>1. IsFiniteSet(Locations)
    BY CutsPositive, FS_Interval DEF Locations
  <2>2. QED
    BY <2>1, FS_Subset
<1>2. PICK g : g = [i \in I |-> <<f[i], i>>]
  OBVIOUS
<1>3. PICK S : S = {<<f[i], i>> : i \in I}
  OBVIOUS
<1>4. \A i \in I : g[i] = <<f[i], i>> /\ i \in Int
  BY <1>2, CutsPositive DEF Locations
<1>5. \A i \in I : g[i] \in Tuples(2) /\ g[i][2] = i
  BY <1>4, PairIsTuple
<1>6. S = {g[i] : i \in I}
  BY <1>3, <1>4
<1>7. 2 \in Nat
  OBVIOUS
<1>8. ScoresOf(S, g, I, 2)
  BY <1>5, <1>6 DEF ScoresOf
<1>9. Least(S)[2] \in I
  BY <1>1, <1>7, <1>8, LeastAt
<1>10. QED
  BY <1>3, <1>9

\* And the one of SplitInMinOverlap: it is one of the list.
LEMMA SplitInMinOverlapCuts ==
  ASSUME IInv, SplitInMinOverlap
  PROVE  Cuts
<1>1. pc = "candidates" /\ keepsLocations
  BY DEF SplitInMinOverlap
<1>2. Overflow /\ SplitMode # "reinsert" /\ split_locations # <<>>
  BY <1>1 DEF IInv, DriverOK, Splittings, Overflow
<1>3. FanOuts
  BY <1>2, OverfullNode
<1>4. PICK f : f = [i \in Locations |-> split_locations[i].overlap]
  OBVIOUS
<1>5. \A i \in Locations : f[i] \in Int /\ f[i] = split_locations[i].overlap
  BY <1>2, <1>4 DEF IInv, ListedOK
<1>6. PICK best : best = Least({<<split_locations[i].overlap, i>> : i \in Locations})[2]
  OBVIOUS
<1>7. best \in Locations
  <2>1. PICK I : I = Locations
    OBVIOUS
  <2>2. I \subseteq Locations /\ I # {}
    BY <1>3, <2>1, CutsPositive DEF Locations
  <2>3. \A i \in I : f[i] \in Int
    BY <1>5, <2>1
  <2>4. Least({<<f[i], i>> : i \in I})[2] \in I
    BY <1>3, <2>2, <2>3, LeastLocation
  <2>5. {<<f[i], i>> : i \in I} = {<<split_locations[i].overlap, i>> : i \in Locations}
    BY <1>5, <2>1
  <2>6. QED
    BY <1>6, <2>1, <2>4, <2>5
<1>8. PICK at : at = split_locations[best].at
  OBVIOUS
<1>9. IsLocation(at)
  BY <1>2, <1>7, <1>8 DEF IInv, ListedOK
<1>10. Divides(TwoOrdersCut(iter, at), EntryBoxes(iter), Entries(iter))
  BY <1>2, <1>9, TwoOrdersCutDivides
<1>11. Link(TwoOrdersCut(iter, at))
  BY <1>6, <1>8 DEF SplitInMinOverlap
<1>12. QED
  BY <1>1, <1>2, <1>10, <1>11 DEF Cuts, Splittings

\* The candidates are two of the cuts.
LEMMA ZeroOverlapCandidatesAre ==
  ASSUME IInv, pc = "candidates", Cardinality(NonOverlapping) >= 2
  PROVE  /\ ZeroOverlapCandidates \in [1..2 -> Locations]
         /\ \A loc \in {1, 2} : ZeroOverlapCandidates[loc] \in NonOverlapping
<1> DEFINE least(S) == Least({<<split_locations[i].perimeter1, i>> : i \in S})[2]
           first == least(NonOverlapping)
<1>1. ZeroOverlapCandidates = <<first, least(NonOverlapping \ {first})>>
  BY Zenon DEF ZeroOverlapCandidates
<1>2. split_locations # <<>> /\ Overflow
  BY DEF IInv, DriverOK, Splittings, Overflow
<1>3. FanOuts
  BY <1>2, OverfullNode
<1>4. PICK f : f = [i \in Locations |-> split_locations[i].perimeter1]
  OBVIOUS
<1>5. \A i \in Locations : f[i] \in Int /\ f[i] = split_locations[i].perimeter1
  BY <1>2, <1>4 DEF IInv, ListedOK
<1>6. NonOverlapping \subseteq Locations
  BY <1>2 DEF NonOverlapping, IInv, ListedOK
<1>7. ASSUME NEW S, S \subseteq Locations, S # {} PROVE least(S) \in S
  <2>1. \A i \in S : f[i] \in Int
    BY <1>5, <1>7
  <2>2. Least({<<f[i], i>> : i \in S})[2] \in S
    BY <1>3, <1>7, <2>1, LeastLocation
  <2>3. {<<f[i], i>> : i \in S} = {<<split_locations[i].perimeter1, i>> : i \in S}
    BY <1>5, <1>7
  <2>4. QED
    BY <2>2, <2>3
<1> HIDE DEF least
<1>8. NonOverlapping # {} /\ \A x : NonOverlapping \ {x} # {}
  <2>1. ASSUME NEW x, NonOverlapping \subseteq {x} PROVE FALSE
    <3>1. Cardinality({x}) = 1 /\ IsFiniteSet({x})
      BY FS_Singleton
    <3>2. Cardinality(NonOverlapping) <= 1
      BY <2>1, <3>1, FS_Subset
    <3>3. QED
      BY <3>1, <3>2, <2>1, FS_Subset, FS_CardinalityType
  <2>2. QED
    BY <2>1
<1>9. first \in NonOverlapping /\ least(NonOverlapping \ {first}) \in NonOverlapping
  BY <1>6, <1>7, <1>8
<1>10. QED
  BY <1>1, <1>6, <1>9

\* So RetrieveZeroOVLPSplitStates keeps the invariant.
LEMMA RetrieveZeroOVLPSplitStatesKeeps ==
  ASSUME IInv, RetrieveZeroOVLPSplitStates
  PROVE  IInv'
<1>1. /\ pc = "candidates" /\ pc' \in {"action", "weighted"} /\ Cardinality(NonOverlapping) >= 2
      /\ \/ candidate_split_action' = ZeroOverlapCandidates
         \/ \E i, j \in Locations : candidate_split_action' = <<i, j>>
      /\ UNCHANGED <<treeVars, objects, fixed, iter, rec, pending, copy,
                     tmp_sorted_children, sorted_split_loc, split_locations>>
  BY DEF RetrieveZeroOVLPSplitStates
<1>2. candidate_split_action' \in [1..2 -> Locations]
  <2>1. CASE candidate_split_action' = ZeroOverlapCandidates
    BY <1>1, <2>1, ZeroOverlapCandidatesAre
  <2>2. CASE \E i, j \in Locations : candidate_split_action' = <<i, j>>
    BY <2>2
  <2>3. QED
    BY <1>1, <2>1, <2>2
<1>3. Overflow /\ SplitMode = "candidate" /\ split_locations # <<>>
  BY <1>1 DEF IInv, DriverOK, Splittings, Overflow
<1>4. fixed' = fixed /\ conf' = conf /\ CutsPerOrder' = CutsPerOrder /\ Locations' = Locations
  BY <1>1, SettingsStay DEF IInv
<1>5. ListedOK'
  BY <1>1, <1>2, <1>4 DEF IInv, ListedOK, IsLocation
<1>6. candidate_split_action' # <<>>
  <2>1. DOMAIN candidate_split_action' = 1..2
    BY <1>2
  <2>2. QED
    BY <2>1
<1>7. DriverOK'
  <2>1. SplitMode' = SplitMode
    BY <1>1, <1>4 DEF SplitMode, Reinserting
  <2>2. QED
    BY <1>1, <1>3, <1>6, <2>1 DEF DriverOK, Splittings, Overflow, treeVars
<1>8. QED
  BY <1>1, <1>5, <1>7, TreeWaits DEF Splittings

-------------------------------------------------------------------------------
\* The end of the splits, and the calls on the whole tree.
LEMMA TailOf ==
  ASSUME NEW s, Ids(s), s # <<>>
  PROVE  /\ Ids(Tail(s)) /\ Len(Tail(s)) = Len(s) - 1 /\ Len(s) \in Nat /\ Len(s) >= 1
         /\ \A k \in 1..Len(s) - 1 : Tail(s)[k] = s[k + 1]
         /\ ASet(Tail(s)) = ASet(s) \ {s[1]}
<1>1. s \in Seq(Nat) /\ Len(s) \in Nat /\ DOMAIN s = 1..Len(s) /\ Len(s) >= 1
  BY SetOf DEF Ids
<1>2. PICK n \in Nat : Len(s) = n + 1 /\ n = Len(s) - 1
  <2>1. PICK m \in Nat : m = Len(s) /\ m >= 1
    BY <1>1
  <2>2. m - 1 \in Nat /\ m = (m - 1) + 1
    BY <2>1
  <2>3. QED
    BY <2>1, <2>2
<1>3. Tail(s) \in Seq(Nat) /\ Len(Tail(s)) = n /\ \A k \in 1..n : Tail(s)[k] = s[k + 1]
  BY <1>1, <1>2
<1>4. DOMAIN Tail(s) = 1..n
  BY <1>3
<1>5. Injective(Tail(s))
  <2>1. SUFFICES ASSUME NEW i \in 1..n, NEW j \in 1..n, Tail(s)[i] = Tail(s)[j] PROVE i = j
    BY <1>4 DEF Injective
  <2>2. i + 1 \in DOMAIN s /\ j + 1 \in DOMAIN s /\ s[i + 1] = s[j + 1]
    BY <1>1, <1>2, <1>3, <2>1
  <2>3. i + 1 = j + 1
    BY <2>2 DEF Ids, Injective
  <2>4. QED
    BY <2>3
<1>6. ASet(Tail(s)) = ASet(s) \ {s[1]}
  <2>1. ASSUME NEW x \in ASet(Tail(s)) PROVE x \in ASet(s) \ {s[1]}
    <3>1. PICK k \in 1..n : x = Tail(s)[k]
      BY <1>4 DEF ASet
    <3>2. x = s[k + 1] /\ k + 1 \in DOMAIN s /\ k + 1 # 1 /\ 1 \in DOMAIN s
      BY <1>1, <1>2, <1>3, <3>1
    <3>3. x # s[1]
      BY <3>2 DEF Ids, Injective
    <3>4. QED
      BY <3>2, <3>3 DEF ASet
  <2>2. ASSUME NEW x \in ASet(s) \ {s[1]} PROVE x \in ASet(Tail(s))
    <3>1. PICK k \in 1..Len(s) : x = s[k]
      BY <1>1 DEF ASet
    <3>2. PICK j \in 1..n : j = k - 1
      <4>1. k # 1
        BY <2>2, <3>1
      <4>2. QED
        BY <1>2, <3>1, <4>1
    <3>3. x = Tail(s)[j]
      BY <1>3, <3>1, <3>2
    <3>4. QED
      BY <1>4, <3>3 DEF ASet
  <2>3. QED
    BY <2>1, <2>2
<1>7. QED
  BY <1>1, <1>2, <1>3, <1>5, <1>6 DEF Ids

\* Settle keeps it: the next object to be reinserted is in no leaf.
LEMMA SettleKeeps ==
  ASSUME IInv, Settle
  PROVE  IInv'
<1>1. /\ pc = "split" /\ ~Overflow
      /\ pending' = IF Reinserting THEN Tail(pending) ELSE <<>>
      /\ IF pending' # <<>> THEN pc' = "insert" /\ rec' = Head(pending') /\ iter' = root
                            ELSE pc' = "idle" /\ UNCHANGED <<rec, iter>>
      /\ UNCHANGED <<tree_nodes, root, height, objects, learned, fixed, copy>>
  BY DEF Settle, treeVars
<1>2. ~Inserting /\ Inserting' = (pending' # <<>>) /\ tmp_sorted_children = <<>>
  BY <1>1 DEF IInv, SortedOK, Inserting
<1>3. \A n \in DOMAIN tree_nodes : ~tree_nodes[n].overflow
  BY <1>1 DEF IInv, TreeOK, Overflow
<1>4. root \in DOMAIN tree_nodes /\ iter' \in DOMAIN tree_nodes
  BY <1>1, TheTree
<1>5. Settings' /\ CopyOK' /\ ListedOK' /\ SortedOK'
  BY <1>1, <1>2, SettingsStay, CopyStays, ListsStay, NothingSorted DEF IInv, learned
<1>6. TreeOK'
  BY <1>1, <1>3, <1>4 DEF IInv, TreeOK, fixed
<1>7. DriverOK'
  BY <1>1 DEF DriverOK, Splittings
<1>8. /\ rec \in Nat /\ Ids(pending) /\ PlacedIn(tree_nodes) \cup ASet(pending) = DOMAIN objects
      /\ pending # <<>> => rec = pending[1] /\ rec \in PlacedIn(tree_nodes)
      /\ \A i \in 2..Len(pending) : pending[i] \notin PlacedIn(tree_nodes)
  <2>1. {k \in {rec} : Inserting} = {}
    BY <1>2
  <2>2. QED
    BY <1>2, <2>1 DEF IInv, PlacesOK
<1>9. /\ Ids(pending') /\ PlacedIn(tree_nodes) \cup ASet(pending') = DOMAIN objects
      /\ \A i \in 1..Len(pending') : pending'[i] \notin PlacedIn(tree_nodes)
      /\ Len(pending') \in Nat
  <2>1. CASE pending = <<>>
    <3>1. pending' = pending /\ Len(pending') = 0
      BY <1>1, <2>1 DEF Reinserting
    <3>2. Ids(pending') /\ PlacedIn(tree_nodes) \cup ASet(pending') = DOMAIN objects
      BY Zenon, <1>8, <3>1
    <3>3. \A i \in 1..Len(pending') : pending'[i] \notin PlacedIn(tree_nodes)
      BY <3>1
    <3>4. QED
      BY <3>1, <3>2, <3>3
  <2>2. CASE pending # <<>>
    <3>1. pending' = Tail(pending)
      BY <1>1, <2>2 DEF Reinserting
    <3>2. /\ Ids(pending') /\ Len(pending') = Len(pending) - 1 /\ Len(pending) \in Nat /\ Len(pending) >= 1
          /\ \A k \in 1..Len(pending) - 1 : pending'[k] = pending[k + 1]
          /\ ASet(pending') = ASet(pending) \ {pending[1]}
      BY <1>8, <2>2, <3>1, TailOf
    <3>3. PlacedIn(tree_nodes) \cup ASet(pending') = DOMAIN objects
      BY <1>8, <2>2, <3>2
    <3>4. ASSUME NEW i \in 1..Len(pending') PROVE pending'[i] \notin PlacedIn(tree_nodes)
      <4>1. pending'[i] = pending[i + 1] /\ i + 1 \in 2..Len(pending)
        BY <3>2
      <4>2. QED
        BY <1>8, <4>1
    <3>5. QED
      BY <3>2, <3>3, <3>4
  <2>3. QED
    BY <2>1, <2>2
<1>10. PlacedIn(tree_nodes)' = PlacedIn(tree_nodes)
  BY <1>1
<1>11. CASE pending' = <<>>
  <2>1. pc' = "idle" /\ rec' = rec /\ {k \in {rec} : Inserting}' = {} /\ ~Inserting'
    BY <1>1, <1>2, <1>11
  <2>2. ObjectCount' = ObjectCount /\ objects' = objects /\ ASet(pending)' = ASet(pending')
    BY <1>1 DEF ObjectCount
  <2>3. \A i \in 2..Len(pending') : pending'[i] \notin PlacedIn(tree_nodes)'
    BY <1>9, <1>10
  <2>4. PlacedIn(tree_nodes)' \cup ASet(pending)' \cup {k \in {rec} : Inserting}' = DOMAIN objects'
    BY <1>9, <1>10, <2>1, <2>2
  <2>5. PlacesOK'
    BY <1>8, <1>9, <1>11, <2>1, <2>3, <2>4 DEF PlacesOK
  <2>6. QED
    BY <1>5, <1>6, <1>7, <2>5 DEF IInv
<1>12. CASE pending' # <<>>
  <2>1. pc' = "insert" /\ rec' = Head(pending') /\ {k \in {rec} : Inserting}' = {rec'} /\ Inserting'
    BY <1>1, <1>2, <1>12
  <2>2. 1 \in 1..Len(pending') /\ rec' = pending'[1] /\ rec' \in Nat /\ rec' \in ASet(pending')
    <3>1. pending' \in Seq(Nat) /\ Len(pending') >= 1
      BY <1>9, <1>12 DEF Ids
    <3>2. QED
      BY <2>1, <3>1 DEF ASet
  <2>3. \A i \in 2..Len(pending') : pending'[i] \notin PlacedIn(tree_nodes)
    BY <1>9
  <2>4. rec' \notin PlacedIn(tree_nodes)
    BY <1>9, <2>2
  <2>5. PlacesOK'
    BY <1>1, <1>9, <1>10, <1>12, <2>1, <2>2, <2>3, <2>4 DEF PlacesOK
  <2>6. QED
    BY <1>5, <1>6, <1>7, <2>5 DEF IInv
<1>13. QED
  BY <1>11, <1>12

\* The empty tree is whole.
LEMMA EmptyWhole ==
  ASSUME NEW lo \in Nat, NEW hi \in Nat
  PROVE  /\ Whole(EmptyTree, NoObjects, 0, 1, lo, hi) /\ Stored(NoObjects)
         /\ 0 \in DOMAIN EmptyTree /\ Calm(EmptyTree) /\ PlacedIn(EmptyTree) = {} /\ DOMAIN NoObjects = {}
<1>1. PICK T : T = EmptyTree
  OBVIOUS
<1>2. IsNode(TreeNode(TRUE), NoRectangle, <<>>, FALSE, TRUE, -1)
  BY NewNode
<1>3. /\ DOMAIN T = {0} /\ T[0] \in NodeT /\ T[0].kids = <<>> /\ T[0].overflow = FALSE
      /\ T[0].leaf = TRUE /\ T[0].father = -1
  BY <1>1, <1>2 DEF EmptyTree, IsNode
<1>4. Kids(T, 0) = {} /\ LeavesOf(T) = {0} /\ PlacedIn(T) = {}
  BY <1>3 DEF Kids, ASet, LeavesOf, PlacedIn
<1>5. Typed(T)
  <2>1. IsFiniteSet({0}) /\ Cardinality({0}) = 1
    BY FS_Singleton
  <2>2. Numbered(DOMAIN T)
    BY <1>3, <2>1 DEF Numbered
  <2>3. Injective(T[0].kids)
    BY <1>3 DEF Injective
  <2>4. QED
    BY <1>3, <2>2, <2>3 DEF Typed
<1>6. Skeleton(T, 0, 1)
  <2>1. PICK lev : lev = [n \in {0} |-> 1]
    OBVIOUS
  <2>2. Levels(T, 0, 1, lev)
    BY <1>3, <2>1 DEF Levels
  <2>3. QED
    BY <1>3, <2>2 DEF Skeleton
<1>7. Apart(T)
  BY <1>4 DEF Apart
<1>8. Roomy(T, 0, lo, hi)
  <2>1. Len(T[0].kids) = 0
    BY <1>3
  <2>2. QED
    BY <1>3, <2>1 DEF Roomy
<1>9. DOMAIN NoObjects = {} /\ Stored(NoObjects)
  <2>1. IsFiniteSet({}) /\ Cardinality({}) = 0
    BY FS_EmptySet
  <2>2. DOMAIN NoObjects = {}
    BY DEF NoObjects
  <2>3. QED
    BY <2>1, <2>2 DEF Stored, Numbered
<1>10. QED
  BY <1>1, <1>3, <1>4, <1>5, <1>6, <1>7, <1>8, <1>9 DEF Whole, Calm

\* A whole tree, idle.
LEMMA IdleTree ==
  ASSUME IInv, pc = "idle", pc' = "idle", UNCHANGED <<learned, fixed, rec, pending>>,
         Stored(objects'), Whole(tree_nodes', objects', root', height', minimum_entry, maximum_entry),
         Calm(tree_nodes'), PlacedIn(tree_nodes') = DOMAIN objects', iter' \in DOMAIN tree_nodes', CopyOK'
  PROVE  IInv'
<1>1. TreeOK'
  BY DEF TreeOK, fixed, Calm
<1>2. DriverOK'
  BY DEF DriverOK, Splittings
<1>3. pending = <<>> /\ ~Inserting' /\ tmp_sorted_children = <<>> /\ rec \in Nat /\ Ids(pending)
  BY DEF IInv, PlacesOK, Inserting, SortedOK
<1>4. PlacesOK'
  <2>1. ASet(pending') = {} /\ Len(pending') = 0 /\ {k \in {rec} : Inserting}' = {}
    BY <1>3 DEF ASet
  <2>2. \A i \in 2..Len(pending') : pending'[i] \notin PlacedIn(tree_nodes)'
    BY <2>1
  <2>3. QED
    BY <1>3, <2>1, <2>2 DEF PlacesOK
<1>5. QED
  BY <1>1, <1>2, <1>3, <1>4, NothingSorted, ListsStay, SettingsStay DEF IInv, learned

\* Clear keeps the invariant.
LEMMA ClearKeeps ==
  ASSUME IInv, Clear
  PROVE  IInv'
<1>1. /\ pc = "idle" /\ pc' = "idle" /\ UNCHANGED <<learned, fixed, rec, pending, copy>>
      /\ tree_nodes' = EmptyTree /\ root' = 0 /\ height' = 1 /\ objects' = NoObjects /\ iter' = 0
  BY DEF Clear
<1>2. /\ Whole(EmptyTree, NoObjects, 0, 1, minimum_entry, maximum_entry) /\ Stored(NoObjects)
      /\ 0 \in DOMAIN EmptyTree /\ Calm(EmptyTree) /\ PlacedIn(EmptyTree) = {} /\ DOMAIN NoObjects = {}
  BY EmptyWhole, TheTree
<1>3. CopyOK'
  BY <1>1, CopyStays DEF IInv
<1>4. QED
  BY <1>1, <1>2, <1>3, IdleTree

\* SaveTree keeps it: an idle tree is fit to be a copy.
LEMMA SaveTreeKeeps ==
  ASSUME IInv, SaveTree
  PROVE  IInv'
<1>1. /\ pc = "idle" /\ pc' = "idle" /\ UNCHANGED <<learned, fixed, rec, pending, iter, objects>>
      /\ UNCHANGED <<tree_nodes, root, height>>
      /\ copy' = {[tree_nodes |-> tree_nodes, objects |-> objects, root |-> root, height |-> height]}
  BY DEF SaveTree, treeVars
<1>2. /\ Stored(objects) /\ Whole(tree_nodes, objects, root, height, minimum_entry, maximum_entry)
      /\ Calm(tree_nodes) /\ iter \in DOMAIN tree_nodes
  BY <1>1 DEF IInv, TreeOK, Calm, Splittings
<1>3. PlacedIn(tree_nodes) = DOMAIN objects
  <2>1. pending = <<>> /\ {k \in {rec} : Inserting} = {}
    BY <1>1 DEF IInv, PlacesOK, Inserting
  <2>2. ASet(pending) = {}
    BY <2>1 DEF ASet
  <2>3. QED
    BY <2>1, <2>2 DEF IInv, PlacesOK
<1>4. PICK c : c = [tree_nodes |-> tree_nodes, objects |-> objects, root |-> root, height |-> height]
  OBVIOUS
<1>5. CopyIs(c, minimum_entry, maximum_entry)
  BY <1>2, <1>3, <1>4 DEF CopyIs
<1>6. CopyOK'
  <2>1. copy' = {c} /\ IsFiniteSet({c}) /\ Cardinality({c}) = 1
    BY <1>1, <1>4, FS_Singleton
  <2>2. QED
    BY <1>1, <1>5, <2>1 DEF CopyOK, fixed
<1>7. QED
  BY <1>1, <1>2, <1>3, <1>6, IdleTree

\* RestoreTree keeps it: a copy is fit to be the tree.
LEMMA RestoreTreeKeeps ==
  ASSUME IInv, RestoreTree
  PROVE  IInv'
<1>1. pc = "idle" /\ pc' = "idle" /\ UNCHANGED <<learned, fixed, rec, pending, copy>>
  BY DEF RestoreTree
<1>2. PICK c \in copy : /\ tree_nodes' = c.tree_nodes /\ objects' = c.objects
                        /\ root' = c.root /\ height' = c.height /\ iter' = c.root
  BY DEF RestoreTree
<1>3. CopyIs(c, minimum_entry, maximum_entry)
  BY DEF IInv, CopyOK
<1>4. CopyOK'
  BY <1>1, CopyStays DEF IInv
<1>5. c.root \in DOMAIN c.tree_nodes
  BY <1>3 DEF CopyIs, Whole, Skeleton
<1>6. QED
  BY <1>1, <1>2, <1>3, <1>4, <1>5, IdleTree DEF CopyIs

-------------------------------------------------------------------------------
\* The way from a leaf n up to the root, one level after another.
Climbs(at, T, h, n, lev) ==
  /\ DOMAIN at = 1..h /\ at[1] = n /\ h >= 1
  /\ \A k \in 1..h : at[k] \in DOMAIN T /\ lev[at[k]] = k
  /\ \A k \in 2..h : at[k] = T[at[k - 1]].father /\ ~T[at[k]].leaf /\ at[k - 1] \in Kids(T, at[k])

\* Path climbs from a leaf to the root.
LEMMA PathClimbs ==
  ASSUME Skeleton(tree_nodes, root, height), NEW n \in LeavesOf(tree_nodes),
         NEW lev, Levels(tree_nodes, root, height, lev)
  PROVE  Climbs(Path(n), tree_nodes, height, n, lev)
<1> DEFINE T == tree_nodes
           h == height
           E(f, k) == IF k = 1 THEN n ELSE tree_nodes[f[k - 1]].father
<1>1. /\ n \in DOMAIN T /\ lev \in [DOMAIN T -> 1..h] /\ lev[n] = 1 /\ lev[root] = h
      /\ h \in Nat \ {0} /\ h >= 1
  <2>1. n \in DOMAIN T /\ lev \in [DOMAIN T -> 1..h] /\ lev[n] = 1 /\ lev[root] = h /\ h \in Nat
    BY DEF LeavesOf, Levels, Skeleton
  <2>2. 1 \in 1..h
    BY <2>1
  <2>3. QED
    BY <2>1, <2>2
<1>2. ASSUME NEW m \in DOMAIN T, lev[m] # h
      PROVE  /\ T[m].father \in DOMAIN T /\ ~T[T[m].father].leaf /\ m \in Kids(T, T[m].father)
             /\ lev[T[m].father] = lev[m] + 1
  <2>1. T[m].father \in DOMAIN T /\ ~T[T[m].father].leaf /\ m \in Kids(T, T[m].father)
    BY <1>1, <1>2 DEF Skeleton
  <2>2. lev[m] = lev[T[m].father] - 1
    BY <2>1 DEF Levels
  <2>3. lev[m] \in Int /\ lev[T[m].father] \in Int
    BY <1>1, <2>1
  <2>4. QED
    BY <2>1, <2>2, <2>3
<1>3. PICK G : G = [p \in (2..h) \X DOMAIN T |-> IF T[p[2]].father \in DOMAIN T THEN T[p[2]].father ELSE p[2]]
  OBVIOUS
<1>4. G \in [(2..h) \X DOMAIN T -> DOMAIN T]
  BY <1>3
<1>5. PICK f \in [1..h -> DOMAIN T] : f[1] = n /\ \A k \in 2..h : f[k] = G[<<k, f[k - 1]>>]
  <2>1. StepsRun(h, DOMAIN T, n, G)
    BY <1>1, <1>4, Steps
  <2>2. QED
    BY <2>1 DEF StepsRun
<1>6. \A k \in 1..h : f[k] \in DOMAIN T
  BY <1>5
<1>7. ASSUME NEW k \in 2..h, lev[f[k - 1]] = k - 1
      PROVE  /\ f[k] = T[f[k - 1]].father /\ ~T[f[k]].leaf /\ f[k - 1] \in Kids(T, f[k])
             /\ lev[f[k]] = k
  <2>1. PICK j : j = k - 1 /\ j \in 1..h /\ j # h /\ j + 1 = k
    BY <1>1
  <2>2. PICK m \in DOMAIN T : m = f[j]
    BY <1>6, <2>1
  <2>3. lev[m] = j
    BY <1>7, <2>1, <2>2
  <2>4. T[m].father \in DOMAIN T /\ ~T[T[m].father].leaf /\ m \in Kids(T, T[m].father) /\ lev[T[m].father] = j + 1
    BY <1>2, <2>1, <2>3
  <2>5. f[k] = T[m].father
    BY <1>3, <1>5, <2>1, <2>2, <2>4
  <2>6. QED
    BY <2>1, <2>2, <2>4, <2>5
<1>8. \A k \in 1..h : lev[f[k]] = k
  <2>1. PICK S : S = {k \in 1..h : lev[f[k]] = k}
    OBVIOUS
  <2>2. 1 \in S
    BY <1>1, <1>5, <2>1
  <2>3. \A k \in 2..h : k - 1 \in S => k \in S
    BY <1>1, <1>7, <2>1
  <2>4. 1..h \subseteq S
    BY <1>1, <2>2, <2>3, StepsReach
  <2>5. QED
    BY <2>1, <2>4
<1>9. \A k \in 2..h : f[k] = T[f[k - 1]].father /\ ~T[f[k]].leaf /\ f[k - 1] \in Kids(T, f[k])
  <2>1. \A k \in 2..h : k - 1 \in 1..h
    BY <1>1
  <2>2. QED
    BY <1>7, <1>8, <2>1
<1>10. f = [k \in 1..h |-> E(f, k)]
  <2>1. \A k \in 1..h : k # 1 => k \in 2..h
    BY <1>1
  <2>2. \A k \in 1..h : f[k] = E(f, k)
    BY <1>5, <1>9, <2>1
  <2> HIDE DEF E
  <2>3. QED
    BY <1>5, <2>2
<1> DEFINE g == CHOOSE at : at = [k \in 1..h |-> E(at, k)]
<1>11. Path(n) = [k \in 1..h |-> g[k]]
  BY Zenon DEF Path
<1>12. g = [k \in 1..h |-> E(g, k)]
  <2> HIDE DEF E
  <2>1. QED
    BY Zenon, <1>10
<1> HIDE DEF g
<1>13. g[1] = n /\ \A k \in 2..h : g[k] = T[g[k - 1]].father
  <2>1. \A k \in 1..h : g[k] = E(g, k)
    <3> HIDE DEF E
    <3>1. QED
      BY <1>12
  <2>2. 1 \in 1..h /\ \A k \in 2..h : k \in 1..h /\ k # 1
    BY <1>1
  <2>3. QED
    BY <2>1, <2>2
<1>14. \A k \in 1..h : g[k] = f[k]
  <2>1. PICK S : S = {k \in 1..h : g[k] = f[k]}
    OBVIOUS
  <2>2. 1 \in S
    BY <1>1, <1>5, <1>13, <2>1
  <2>3. ASSUME NEW k \in 2..h, k - 1 \in S PROVE k \in S
    <3>1. g[k - 1] = f[k - 1] /\ k \in 1..h
      BY <2>1, <2>3
    <3>2. QED
      BY <1>9, <1>13, <2>1, <3>1
  <2>4. 1..h \subseteq S
    BY <1>1, <2>2, <2>3, StepsReach
  <2>5. QED
    BY <2>1, <2>4
<1>15. PICK at : at = Path(n)
  OBVIOUS
<1>16. DOMAIN at = 1..h /\ \A k \in 1..h : at[k] = f[k]
  BY <1>11, <1>14, <1>15
<1>17. \A k \in 2..h : k - 1 \in 1..h /\ k \in 1..h
  BY <1>1
<1>18. Climbs(at, T, h, n, lev)
  BY <1>1, <1>5, <1>6, <1>8, <1>9, <1>16, <1>17 DEF Climbs
<1>19. QED
  BY <1>15, <1>18

\* The boxes along the way, each the box of the children below it.
BoxesClimb(b, at, T, h, box) ==
  /\ DOMAIN b = 1..h /\ b[1] = box
  /\ \A k \in 1..h : b[k] \in RectT
  /\ \A k \in 2..h : b[k] = MergeRange([m \in DOMAIN T |-> IF m = at[k - 1] THEN b[k - 1] ELSE T[m].box],
                                       T[at[k]].kids)

\* Updating the boxes on that way changes nothing else.
LEMMA BoxesUpdated ==
  ASSUME IInv, NEW n \in LeavesOf(tree_nodes), NEW box \in RectT,
         NEW lev, Levels(tree_nodes, root, height, lev)
  PROVE  BoxesClimb(UpdatedBoxes(n, box), Path(n), tree_nodes, height, box)
<1> DEFINE at == Path(n)
           W(k, b) == MergeRange([m \in DOMAIN tree_nodes |->
                                     IF m = at[k - 1] THEN b ELSE tree_nodes[m].box], Entries(at[k]))
           E(f, k) == IF k = 1 THEN box ELSE W(k, f[k - 1])
           g == CHOOSE new : new = [k \in 1..height |-> E(new, k)]
<1>1. UpdatedBoxes(n, box) = [k \in 1..height |-> g[k]]
  BY Zenon DEF UpdatedBoxes
<1>2. Climbs(at, tree_nodes, height, n, lev) /\ height \in Nat \ {0}
  <2>1. Skeleton(tree_nodes, root, height) /\ height \in Nat
    BY TheTree DEF Whole, Skeleton
  <2>2. Climbs(at, tree_nodes, height, n, lev)
    BY <2>1, PathClimbs
  <2>3. QED
    BY <2>1, <2>2 DEF Climbs
<1>3. ASSUME NEW k \in 2..height, NEW b \in RectT PROVE W(k, b) \in RectT
  <2>1. PICK R : R = [m \in DOMAIN tree_nodes |-> IF m = at[k - 1] THEN b ELSE tree_nodes[m].box]
    OBVIOUS
  <2>2. PICK e : e = Entries(at[k])
    OBVIOUS
  <2>3. at[k] \in DOMAIN tree_nodes /\ ~tree_nodes[at[k]].leaf
    BY <1>2 DEF Climbs
  <2>4. Ids(e) /\ Len(e) >= 2
    BY <2>2, <2>3, Children
  <2>5. ASet(e) \subseteq DOMAIN tree_nodes
    BY <2>2, <2>3, TheTree DEF Whole, Skeleton, Kids, Entries
  <2>6. \A x \in ASet(e) : R[x] \in RectT
    BY <2>1, <2>5, TheTree DEF NodeT
  <2>7. e # <<>>
    BY <2>4
  <2>8. MergeRange(R, e) \in RectT
    BY <2>4, <2>6, <2>7, MergeRangeBox DEF BoxOf
  <2>9. QED
    BY <2>1, <2>2, <2>8
<1>4. \A k \in 2..height : \A b \in RectT : W(k, b) \in RectT
  BY <1>3
<1>5. \A k \in 2..height : k - 1 \in 1..height /\ k \in 1..height /\ k # 1
  BY <1>2
<1> HIDE DEF W
<1>6. PICK G : G = [p \in (2..height) \X RectT |-> W(p[1], p[2])]
  OBVIOUS
<1>7. G \in [(2..height) \X RectT -> RectT]
  BY <1>4, <1>6
<1>8. PICK f \in [1..height -> RectT] : f[1] = box /\ \A k \in 2..height : f[k] = G[<<k, f[k - 1]>>]
  <2>1. StepsRun(height, RectT, box, G)
    BY <1>2, <1>7, Steps
  <2>2. QED
    BY <2>1 DEF StepsRun
<1>9. f = [k \in 1..height |-> E(f, k)]
  <2>1. \A k \in 2..height : f[k] = W(k, f[k - 1])
    BY <1>5, <1>6, <1>8
  <2>2. \A k \in 1..height : k # 1 => k \in 2..height
    BY <1>2
  <2>3. \A k \in 1..height : f[k] = E(f, k)
    BY <1>8, <2>1, <2>2
  <2> HIDE DEF E
  <2>4. QED
    BY <1>8, <2>3
<1>10. g = [k \in 1..height |-> E(g, k)]
  <2> HIDE DEF E
  <2>1. QED
    BY Zenon, <1>9
<1> HIDE DEF g
<1>11. g[1] = box /\ \A k \in 2..height : g[k] = W(k, g[k - 1])
  <2>1. \A k \in 1..height : g[k] = E(g, k)
    <3> HIDE DEF E
    <3>1. QED
      BY <1>10
  <2>2. 1 \in 1..height
    BY <1>2
  <2>3. QED
    BY <1>5, <2>1, <2>2
<1>12. \A k \in 1..height : g[k] \in RectT
  <2>1. PICK S : S = {k \in 1..height : g[k] \in RectT}
    OBVIOUS
  <2>2. 1 \in S
    BY <1>2, <1>11, <2>1
  <2>3. \A k \in 2..height : k - 1 \in S => k \in S
    BY <1>4, <1>5, <1>11, <2>1
  <2>4. 1..height \subseteq S
    BY <1>2, <2>2, <2>3, StepsReach
  <2>5. QED
    BY <2>1, <2>4
<1>13. PICK u : u = UpdatedBoxes(n, box)
  OBVIOUS
<1>14. DOMAIN u = 1..height /\ \A k \in 1..height : u[k] = g[k]
  BY <1>1, <1>13
<1>15. \A k \in 2..height : u[k] = W(k, u[k - 1])
  BY <1>5, <1>11, <1>14
<1>16. u[1] = box /\ \A k \in 1..height : u[k] \in RectT
  <2>1. 1 \in 1..height
    BY <1>2
  <2>2. QED
    BY <1>11, <1>12, <1>14, <2>1
<1>17. BoxesClimb(u, at, tree_nodes, height, box)
  <2>1. \A k \in 2..height :
            u[k] = MergeRange([m \in DOMAIN tree_nodes |-> IF m = at[k - 1] THEN u[k - 1] ELSE tree_nodes[m].box],
                              tree_nodes[at[k]].kids)
    BY <1>15, Zenon DEF W, Entries
  <2>2. QED
    BY <1>14, <1>16, <2>1 DEF BoxesClimb
<1>18. QED
  BY <1>13, <1>17

\* What a leaf keeps and what it gives up: enough, and at least one.
GivenUp(c, e, lo, hi) ==
  /\ Ids(c[1]) /\ Ids(c[2])
  /\ ASet(c[1]) \cup ASet(c[2]) = ASet(e) /\ ASet(c[1]) \cap ASet(c[2]) = {}
  /\ Len(c[1]) \in lo..hi /\ Len(c[2]) \in Nat /\ Len(c[2]) >= 1

\* A leaf that gives up its farthest objects has one of the sides of a cut
\* left.
LEMMA LeafGivesUp ==
  ASSUME IInv, Overflow, tree_nodes[iter].leaf
  PROVE  GivenUp(RetrieveForReinsert(iter), Entries(iter), minimum_entry, maximum_entry)
<1>1. PICK e : e = Entries(iter)
  OBVIOUS
<1>2. PICK box : box = tree_nodes[iter].box
  OBVIOUS
<1>3. box \in RectT /\ Ids(e) /\ Len(e) = maximum_entry + 1 /\ \A x \in ASet(e) : objects[x] \in RectT
  <2>1. Overfull(e) /\ \A x \in ASet(e) : EntryBoxes(iter)[x] \in RectT
    BY <1>1, OverfullNode
  <2>2. EntryBoxes(iter) = objects
    BY DEF EntryBoxes
  <2>3. box \in RectT
    BY <1>2, TheTree DEF NodeT
  <2>4. QED
    BY <2>1, <2>2, <2>3 DEF Overfull
<1>4. PICK lo \in Nat, hi \in Nat : /\ lo = minimum_entry /\ hi = maximum_entry /\ lo >= 2 /\ 2 * lo <= hi + 1
  <2>1. FanOuts
    BY OverfullNode
  <2>2. QED
    BY <2>1 DEF FanOuts
<1>5. PICK L \in Nat : L = hi + 1 /\ L = Len(e)
  BY <1>3, <1>4
<1>6. PICK q \in Nat : q = (3 * L + 9) \div 10 /\ 10 * q <= 3 * L + 9 /\ 3 * L + 9 < 10 * q + 10
  OBVIOUS
<1>7. PICK keep \in Nat : keep = L - q /\ keep >= lo /\ keep <= hi /\ keep < L
  BY <1>4, <1>5, <1>6
<1>8. PICK score : score = [i \in DOMAIN e |-> <<FromCentre(objects[e[i]], box), e[i]>>]
  OBVIOUS
<1>9. ASSUME NEW i \in DOMAIN e PROVE score[i] \in Tuples(2) /\ score[i][2] = e[i]
  <2>1. e[i] \in ASet(e) /\ e[i] \in Int
    BY <1>3 DEF ASet, Ids
  <2>2. objects[e[i]] \in RectT
    BY <1>3, <2>1
  <2>3. PICK d \in Int : d = FromCentre(objects[e[i]], box)
    <3>1. PICK a \in RectT : a = objects[e[i]]
      BY <2>2
    <3>2. PICK dx \in Int : dx = a.left + a.right - box.left - box.right
      BY <1>3, RectFields
    <3>3. PICK dy \in Int : dy = a.top + a.bottom - box.top - box.bottom
      BY <1>3, RectFields
    <3>4. dx * dx + dy * dy \in Int
      OBVIOUS
    <3>5. QED
      BY <3>1, <3>2, <3>3, <3>4 DEF FromCentre
  <2>4. score[i] = <<d, e[i]>>
    BY <1>8, <2>3
  <2>5. QED
    BY <2>1, <2>4, PairIsTuple
<1>10. PICK s : s = Ordered(e, score)
  OBVIOUS
<1>11. Rearranges(s, e)
  <2>1. 2 \in Nat \ {0} /\ DOMAIN score = DOMAIN e
    BY <1>8
  <2>2. QED
    BY <1>3, <1>9, <1>10, <2>1, OrderedRearranges
<1>12. Ids(s) /\ Len(s) = L /\ ASet(s) = ASet(e)
  BY <1>5, <1>11 DEF Rearranges
<1>13. PICK c : c = RetrieveForReinsert(iter)
  OBVIOUS
<1>14. c[1] = SubSeq(s, 1, keep) /\ c[2] = SubSeq(s, keep + 1, L)
  BY <1>1, <1>2, <1>5, <1>6, <1>7, <1>8, <1>10, <1>13 DEF RetrieveForReinsert
<1>15. Ids(c[1]) /\ Len(c[1]) = keep /\ ASet(c[1]) = Piece(s, 1, keep)
  <2>1. 1 \in Nat \ {0} /\ keep <= Len(s) /\ 1 <= keep + 1
    BY <1>7, <1>12
  <2>2. /\ Ids(SubSeq(s, 1, keep)) /\ Len(SubSeq(s, 1, keep)) = keep - 1 + 1
        /\ ASet(SubSeq(s, 1, keep)) = Piece(s, 1, keep)
    BY <1>12, <2>1, PieceOf
  <2>3. QED
    BY <1>14, <2>2
<1>16. Ids(c[2]) /\ Len(c[2]) = L - keep /\ ASet(c[2]) = Piece(s, keep + 1, L)
  <2>1. PICK j \in Nat \ {0} : j = keep + 1
    OBVIOUS
  <2>2. L <= Len(s) /\ j <= L + 1
    BY <1>7, <1>12, <2>1
  <2>3. /\ Ids(SubSeq(s, j, L)) /\ Len(SubSeq(s, j, L)) = L - j + 1
        /\ ASet(SubSeq(s, j, L)) = Piece(s, j, L)
    BY <1>12, <2>2, PieceOf
  <2>4. QED
    BY <1>14, <2>1, <2>3
<1>17. ASet(c[1]) \cup ASet(c[2]) = ASet(e) /\ ASet(c[1]) \cap ASet(c[2]) = {}
  <2>1. ASet(s) = Piece(s, 1, L)
    BY <1>12, SetOf DEF Ids
  <2>2. Piece(s, 1, L) = Piece(s, 1, keep) \cup Piece(s, keep + 1, L)
    BY <1>7, PiecesJoin
  <2>3. Piece(s, 1, keep) \cap Piece(s, keep + 1, L) = {}
    BY <1>12, PiecesApart
  <2>4. QED
    BY <1>12, <1>15, <1>16, <2>1, <2>2, <2>3
<1>18. GivenUp(c, e, lo, hi)
  BY <1>7, <1>15, <1>16, <1>17 DEF GivenUp
<1>19. QED
  BY <1>1, <1>4, <1>13, <1>18

\* A leaf that has given up objects.
BoxAlong(b, n) ==
  IF n \in ASet(Path(iter)) THEN b[CHOOSE k \in 1..height : Path(iter)[k] = n] ELSE tree_nodes[n].box
Reinserts(c, b) ==
  /\ tree_nodes' = [n \in DOMAIN tree_nodes |->
         LET boxed == [tree_nodes[n] EXCEPT !.box = BoxAlong(b, n)]
         IN  IF n = iter THEN [boxed EXCEPT !.kids = c[1], !.overflow = FALSE] ELSE boxed]
  /\ pending' = c[2] /\ rec' = Head(c[2])
  /\ pc' = "insert" /\ iter' = root
  /\ UNCHANGED <<objects, root, height, learned, fixed, copy>>

\* DirectSplitWithReinsert in terms of the way up.
LEMMA ReinsertUnfolds ==
  ASSUME DirectSplitWithReinsert
  PROVE  Reinserts(RetrieveForReinsert(iter), UpdatedBoxes(iter, MergeRange(objects, RetrieveForReinsert(iter)[1])))
BY Zenon DEF DirectSplitWithReinsert, Reinserts, BoxAlong

\* DirectSplitWithReinsert keeps the invariant.
LEMMA DirectSplitWithReinsertKeeps ==
  ASSUME IInv, DirectSplitWithReinsert
  PROVE  IInv'
<1> DEFINE T == tree_nodes
<1>1. /\ pc = "split" /\ Overflow /\ SplitMode = "reinsert" /\ pending = <<>>
      /\ T[iter].leaf
  <2>1. pc = "split" /\ Overflow /\ SplitMode = "reinsert"
    BY DEF DirectSplitWithReinsert, Splitting
  <2>2. pending = <<>>
    BY <2>1 DEF SplitMode, Reinserting
  <2>3. QED
    BY <2>1, <2>2 DEF IInv, DriverOK
<1>2. PICK c : c = RetrieveForReinsert(iter)
  OBVIOUS
<1>3. PICK b : b = UpdatedBoxes(iter, MergeRange(objects, c[1]))
  OBVIOUS
<1>4. /\ UNCHANGED <<objects, root, height, learned, fixed, copy>>
      /\ pending' = c[2] /\ rec' = Head(c[2]) /\ pc' = "insert" /\ iter' = root
  BY <1>2, ReinsertUnfolds DEF Reinserts
<1>5. /\ Whole(T, objects, root, height, minimum_entry, maximum_entry) /\ iter \in DOMAIN T /\ root \in DOMAIN T
      /\ minimum_entry \in Nat /\ maximum_entry \in Nat
      /\ \A n \in DOMAIN T : T[n] \in NodeT /\ Ids(T[n].kids)
      /\ \A k \in DOMAIN objects : objects[k] \in RectT
  BY TheTree
<1>6. iter \in LeavesOf(T)
  BY <1>1, <1>5 DEF LeavesOf
<1>7. GivenUp(c, T[iter].kids, minimum_entry, maximum_entry)
  BY <1>1, <1>2, LeafGivesUp DEF Entries
<1>8. /\ Ids(c[1]) /\ Ids(c[2])
      /\ ASet(c[1]) \cup ASet(c[2]) = Kids(T, iter) /\ ASet(c[1]) \cap ASet(c[2]) = {}
      /\ Len(c[1]) \in minimum_entry..maximum_entry /\ Len(c[2]) \in Nat /\ Len(c[2]) >= 1
  BY <1>7 DEF GivenUp, Kids
<1>9. Kids(T, iter) \subseteq PlacedIn(T) /\ PlacedIn(T) \subseteq DOMAIN objects
  BY <1>5, <1>6 DEF PlacedIn, Whole
<1>10. MergeRange(objects, c[1]) \in RectT
  <2>1. c[1] # <<>>
    <3>1. Len(c[1]) # 0
      BY <1>8, TheTree
    <3>2. QED
      BY <3>1
  <2>2. \A x \in ASet(c[1]) : objects[x] \in RectT
    BY <1>5, <1>8, <1>9
  <2>3. PICK e : e = c[1]
    OBVIOUS
  <2>4. BoxOf(MergeRange(objects, e), BoxesOf(objects, ASet(e)))
    BY <1>8, <2>1, <2>2, <2>3, MergeRangeBox
  <2>5. QED
    BY <2>3, <2>4 DEF BoxOf
<1>11. /\ DOMAIN Path(iter) = 1..height /\ \A k \in 1..height : b[k] \in RectT
  <2>1. PICK lev : Levels(T, root, height, lev)
    BY <1>5 DEF Whole, Skeleton
  <2>2. Climbs(Path(iter), T, height, iter, lev)
    BY <1>5, <1>6, <2>1, PathClimbs DEF Whole
  <2>3. BoxesClimb(b, Path(iter), T, height, MergeRange(objects, c[1]))
    BY <1>3, <1>6, <1>10, <2>1, BoxesUpdated
  <2>4. QED
    BY <2>2, <2>3 DEF Climbs, BoxesClimb
<1>12. DOMAIN tree_nodes' = DOMAIN T
  BY <1>2, ReinsertUnfolds DEF Reinserts
<1>13. ASSUME NEW n \in DOMAIN T
       PROVE  \E box \in RectT :
                  tree_nodes'[n] = IF n = iter
                                   THEN [[T[n] EXCEPT !.box = box] EXCEPT !.kids = c[1], !.overflow = FALSE]
                                   ELSE [T[n] EXCEPT !.box = box]
  <2>1. PICK box : box = BoxAlong(b, n)
    OBVIOUS
  <2>2. box \in RectT
    <3>1. CASE n \in ASet(Path(iter))
      <4>1. \E k \in 1..height : Path(iter)[k] = n
        BY <1>11, <3>1 DEF ASet
      <4>2. (CHOOSE k \in 1..height : Path(iter)[k] = n) \in 1..height
        BY <4>1
      <4>3. QED
        BY <1>11, <2>1, <3>1, <4>2 DEF BoxAlong
    <3>2. CASE n \notin ASet(Path(iter))
      BY <1>5, <2>1, <3>2 DEF NodeT, BoxAlong
    <3>3. QED
      BY <3>1, <3>2
  <2>3. Reinserts(c, b)
    BY <1>2, <1>3, ReinsertUnfolds
  <2>4. tree_nodes'[n] = IF n = iter
                         THEN [[T[n] EXCEPT !.box = box] EXCEPT !.kids = c[1], !.overflow = FALSE]
                         ELSE [T[n] EXCEPT !.box = box]
    BY <2>1, <2>3 DEF Reinserts
  <2>5. QED
    BY <2>2, <2>4
<1>14. LeafHolds(T, tree_nodes', iter, c[1], FALSE)
  <2>1. ASSUME NEW n \in DOMAIN T \ {iter} PROVE tree_nodes'[n] \in NodeT /\ SameNode(tree_nodes'[n], T[n])
    <3>1. PICK box \in RectT : tree_nodes'[n] = [T[n] EXCEPT !.box = box]
      BY <1>13, <2>1
    <3>2. IsNode([T[n] EXCEPT !.box = box], box, T[n].kids, T[n].overflow, T[n].leaf, T[n].father)
      BY <1>5, NodeReboxed
    <3>3. QED
      BY <3>1, <3>2 DEF IsNode, SameNode
  <2>2. PICK box \in RectT : tree_nodes'[iter] = [[T[iter] EXCEPT !.box = box] EXCEPT !.kids = c[1], !.overflow = FALSE]
    BY <1>5, <1>13
  <2>3. IsNode([T[iter] EXCEPT !.box = box], box, T[iter].kids, T[iter].overflow, T[iter].leaf, T[iter].father)
    BY <1>5, NodeReboxed
  <2>4. PICK m : m = [T[iter] EXCEPT !.box = box]
    OBVIOUS
  <2>5. c[1] \in Seq(Nat)
    BY <1>8 DEF Ids
  <2>6. IsNode([m EXCEPT !.kids = c[1], !.overflow = FALSE], box, c[1], FALSE, T[iter].leaf, T[iter].father)
    BY <2>3, <2>4, <2>5 DEF IsNode, NodeT
  <2>7. QED
    BY <1>12, <2>1, <2>2, <2>4, <2>6 DEF LeafHolds, IsNode
<1>15. /\ Whole(tree_nodes', objects, root, height, minimum_entry, maximum_entry)
       /\ PlacedIn(tree_nodes') = (PlacedIn(T) \ Kids(T, iter)) \cup ASet(c[1])
  <2>1. PICK e : e = c[1]
    OBVIOUS
  <2>2. Fits(e, FALSE, iter = root, minimum_entry, maximum_entry)
    BY <1>5, <1>8, <2>1 DEF Fits
  <2>3. ASet(e) \subseteq DOMAIN objects /\ ASet(e) \cap (PlacedIn(T) \ Kids(T, iter)) = {}
    BY <1>8, <1>9, <2>1
  <2>4. LeafHolds(T, tree_nodes', iter, e, FALSE)
    BY <1>14, <2>1
  <2>5. WholeWith(tree_nodes', objects, root, height, minimum_entry, maximum_entry,
                  (PlacedIn(T) \ Kids(T, iter)) \cup ASet(e))
    BY <1>5, <1>6, <2>2, <2>3, <2>4, LeafChanges
  <2>6. QED
    BY <2>1, <2>5 DEF WholeWith
<1>16. TreeOK'
  <2>1. \A n \in DOMAIN T : n # iter => ~T[n].overflow
    BY DEF IInv, TreeOK
  <2>2. \A n \in DOMAIN tree_nodes' : ~tree_nodes'[n].overflow
    BY <1>14, <2>1 DEF LeafHolds, SameNode
  <2>3. Stored(objects)
    BY DEF IInv, TreeOK
  <2>4. QED
    BY <1>4, <1>5, <1>12, <1>15, <2>2, <2>3 DEF TreeOK, fixed
<1>17. DriverOK'
  BY <1>4 DEF DriverOK, Splittings
<1>18. PlacedIn(T) = DOMAIN objects /\ tmp_sorted_children = <<>>
  <2>1. ASet(pending) = {}
    BY <1>1 DEF ASet
  <2>2. {k \in {rec} : Inserting} = {}
    BY <1>1 DEF Inserting
  <2>3. PlacedIn(T) = DOMAIN objects
    BY <2>1, <2>2 DEF IInv, PlacesOK
  <2>4. QED
    BY <1>1, <2>3 DEF IInv, SortedOK
<1>19. PlacesOK'
  <2>1. PICK w : w = c[2]
    OBVIOUS
  <2>2. w \in Seq(Nat) /\ Len(w) \in Nat /\ Len(w) >= 1 /\ DOMAIN w = 1..Len(w) /\ ASet(w) \subseteq Nat
    BY <1>8, <2>1, SetOf DEF Ids
  <2>3. pending' = w /\ rec' = w[1] /\ 1 \in DOMAIN w
    BY <1>4, <2>1, <2>2
  <2>4. rec' \in ASet(w) /\ rec' \in Nat /\ w # <<>>
    BY <2>2, <2>3 DEF ASet
  <2>5. ASet(w) \cap PlacedIn(tree_nodes') = {}
    BY <1>8, <1>15, <2>1
  <2>6. PlacedIn(tree_nodes') \cup ASet(w) = DOMAIN objects
    BY <1>8, <1>9, <1>15, <1>18, <2>1
  <2>7. \A i \in 2..Len(w) : w[i] \notin PlacedIn(tree_nodes')
    <3>1. \A i \in 2..Len(w) : w[i] \in ASet(w)
      BY <2>2 DEF ASet
    <3>2. QED
      BY <2>5, <3>1
  <2>8. Inserting' /\ {k \in {rec} : Inserting}' = {rec'}
    BY <1>4 DEF Inserting
  <2>9. Ids(pending') /\ ASet(pending)' = ASet(w)
    BY <1>8, <2>1, <2>3
  <2>10. rec' \notin PlacedIn(tree_nodes')
    BY <2>4, <2>5
  <2>11. PlacedIn(tree_nodes)' \cup ASet(pending)' \cup {k \in {rec} : Inserting}' = DOMAIN objects'
    BY <1>4, <2>4, <2>6, <2>8, <2>9
  <2>12. QED
    BY <1>4, <2>3, <2>4, <2>7, <2>8, <2>9, <2>10, <2>11 DEF PlacesOK
<1>20. QED
  BY <1>4, <1>16, <1>17, <1>18, <1>19, NothingSorted, ListsStay, CopyStays, SettingsStay DEF IInv, learned

-------------------------------------------------------------------------------
\* The invariant holds from the start, and every call keeps it.
LEMMA InitIInv ==
  ASSUME Init
  PROVE  IInv
<1>1. /\ setup \in DOMAIN Setups /\ maximum_entry = conf.max /\ minimum_entry = conf.min
      /\ tree_nodes = EmptyTree /\ root = 0 /\ height = 1 /\ objects = NoObjects
      /\ tmp_sorted_children = <<>> /\ sorted_split_loc = <<>>
      /\ split_locations = <<>> /\ candidate_split_action = <<>>
      /\ pc = "idle" /\ iter = 0 /\ rec = 0 /\ pending = <<>> /\ copy = {}
  BY DEF Init
<1>2. Settings
  BY <1>1 DEF Settings
<1>3. minimum_entry \in Nat /\ maximum_entry \in Nat
  BY <1>2, FanOutsOf DEF FanOuts
<1>4. /\ Whole(EmptyTree, NoObjects, 0, 1, minimum_entry, maximum_entry) /\ Stored(NoObjects)
      /\ 0 \in DOMAIN EmptyTree /\ Calm(EmptyTree) /\ PlacedIn(EmptyTree) = {} /\ DOMAIN NoObjects = {}
  BY <1>3, EmptyWhole
<1>5. TreeOK
  BY <1>1, <1>4 DEF TreeOK, Calm
<1>6. DriverOK
  BY <1>1 DEF DriverOK, Splittings
<1>7. PlacesOK
  <2>1. Ids(<<>>) /\ ASet(<<>>) = {} /\ Len(<<>>) = 0 /\ {k \in {rec} : Inserting} = {} /\ ~Inserting
    BY <1>1 DEF Ids, Injective, ASet, Inserting
  <2>2. \A i \in 2..Len(pending) : pending[i] \notin PlacedIn(tree_nodes)
    BY <1>1, <2>1
  <2>3. QED
    BY <1>1, <1>4, <2>1, <2>2 DEF PlacesOK
<1>8. SortedOK /\ ListedOK
  BY <1>1 DEF SortedOK, ListedOK
<1>9. CopyOK
  <2>1. IsFiniteSet({}) /\ Cardinality({}) = 0
    BY FS_EmptySet
  <2>2. QED
    BY <1>1, <2>1 DEF CopyOK
<1>10. QED
  BY <1>2, <1>5, <1>6, <1>7, <1>8, <1>9 DEF IInv

\* The calls of an insertion: they insert, cut or list, or are one of four.
Lists ==
  \/ \E t : RetrieveSortedInsertStates(t)
  \/ RetrieveSortedSplitStates \/ GetNumberOfNonOverlapSplitLocs \/ RetrieveZeroOVLPSplitStates

LEMMA CallIs ==
  ASSUME IInv, Call
  PROVE  Inserts \/ Cuts \/ NoCut \/ Lists \/ TryDescend \/ TryPlace \/ DirectSplitWithReinsert \/ Settle
<1>1. \A n \in Int : \A k \in 0..n - 1 : k \in Nat
  OBVIOUS
<1>2. maximum_entry \in Int
  BY TheTree
<1>3. ASSUME NEW strategy \in InsertStrategies, InsertStepByStep(strategy) PROVE Inserts
  BY <1>3, InsertStepByStepInserts
<1>4. ASSUME NEW loc \in 0..maximum_entry - 1, InsertWithLoc(loc) PROVE Inserts
  BY <1>1, <1>2, <1>4, InsertWithLocInserts
<1>5. ASSUME NEW sorted_loc \in 0..maximum_entry - 1, InsertWithSortedLoc(sorted_loc) PROVE Inserts
  BY <1>1, <1>2, <1>5, InsertWithSortedLocInserts
<1>6. CASE RRInsert
  BY <1>6, RRInsertInserts
<1>7. ASSUME NEW t, RetrieveSortedInsertStates(t) PROVE Lists
  BY <1>7 DEF Lists
<1>8. CASE RetrieveSortedSplitStates \/ GetNumberOfNonOverlapSplitLocs \/ RetrieveZeroOVLPSplitStates
  BY <1>8 DEF Lists
<1>9. ASSUME NEW strategy \in SplitStrategies, SplitStepByStep(strategy) PROVE Cuts
  BY <1>9, SplitStepByStepCuts
<1>10. ASSUME NEW loc \in 0..4 * CutsPerOrder - 1, SplitWithLoc(loc) PROVE Cuts
  BY <1>10, SplitWithLocCuts
<1>11. CASE RRSplit
  BY <1>11, RRSplitCuts
<1>12. ASSUME NEW loc \in Locations, SplitWithSortedLoc(loc) PROVE Cuts
  BY <1>12, SplitWithSortedLocCuts
<1>13. CASE SplitInMinOverlap
  BY <1>13, SplitInMinOverlapCuts
<1>14. ASSUME NEW loc \in {1, 2}, SplitWithCandidateAction(loc) PROVE Cuts
  BY <1>14, SplitWithCandidateActionCuts
<1>15. QED
  BY <1>3, <1>4, <1>5, <1>6, <1>7, <1>8, <1>9, <1>10, <1>11, <1>12, <1>13, <1>14, Zenon DEF Call

\* Every one of them keeps it.
LEMMA CallKeeps ==
  ASSUME IInv, Call
  PROVE  IInv'
<1>1. Inserts \/ Cuts \/ NoCut => IInv'
  BY InsertsKeep, CutsKeep, NoCutKeeps
<1>2. Lists => IInv'
  BY RetrieveSortedInsertStatesKeeps, RetrieveSortedSplitStatesKeeps, GetNumberOfNonOverlapSplitLocsKeeps,
     RetrieveZeroOVLPSplitStatesKeeps DEF Lists
<1>3. TryDescend \/ TryPlace \/ DirectSplitWithReinsert \/ Settle => IInv'
  BY TryDescendKeeps, TryPlaceKeeps, DirectSplitWithReinsertKeeps, SettleKeeps
<1>4. QED
  BY <1>1, <1>2, <1>3, CallIs

\* Nothing happens.
LEMMA StutterKeeps ==
  ASSUME IInv, UNCHANGED vars
  PROVE  IInv'
<1>1. /\ UNCHANGED <<tree_nodes, root, height, objects, tmp_sorted_children>>
      /\ UNCHANGED <<sorted_split_loc, split_locations, candidate_split_action>>
      /\ UNCHANGED fixed /\ UNCHANGED <<pc, iter, rec, pending, copy>>
  BY DEF vars, treeVars, learned
<1>2. Settings' /\ CopyOK' /\ ListedOK'
  BY <1>1, SettingsStay, CopyStays, ListsStay DEF IInv
<1>3. TreeOK' /\ SortedOK'
  BY <1>1 DEF IInv, TreeOK, SortedOK, InsertMode, Reinserting, conf, fixed
<1>4. DriverOK'
  BY <1>1 DEF IInv, DriverOK, SplitMode, Reinserting, conf, fixed
<1>5. PlacesOK'
  BY <1>1 DEF IInv, PlacesOK, Inserting, ObjectCount
<1>6. QED
  BY <1>2, <1>3, <1>4, <1>5 DEF IInv

\* Every step keeps it.
LEMMA NextKeeps ==
  ASSUME IInv, [Next]_vars
  PROVE  IInv'
BY InsertRecKeeps, CallKeeps, ClearKeeps, SaveTreeKeeps, RestoreTreeKeeps, StutterKeeps DEF Next

\* The inductive invariant holds of every behaviour.
LEMMA Inductive ==
  Spec => []IInv
<1>1. Init => IInv
  BY InitIInv
<1>2. IInv /\ [Next]_vars => IInv'
  BY NextKeeps
<1>3. QED
  BY <1>1, <1>2, PTL DEF Spec

-------------------------------------------------------------------------------
\* What follows: the types, and one well-formed tree.
LEMMA TypeFollows ==
  ASSUME IInv
  PROVE  TypeOK
<1>1. /\ Numbered(DOMAIN tree_nodes) /\ Skeleton(tree_nodes, root, height) /\ iter \in DOMAIN tree_nodes
      /\ \A n \in DOMAIN tree_nodes : tree_nodes[n] \in NodeT
  BY DEF IInv, TreeOK, Whole, Typed
<1>2. Nodes = 0..NodeCount - 1 /\ \A n \in Nodes : tree_nodes[n] \in NodeT
  BY <1>1 DEF Nodes, NodeCount, Numbered
<1>3. DOMAIN objects = 0..ObjectCount - 1 /\ \A k \in DOMAIN objects : objects[k] \in RectT
  BY DEF IInv, TreeOK, Stored, Numbered, ObjectCount
<1>4. root \in Nodes /\ iter \in Nodes /\ height \in Nat \ {0}
  <2>1. PICK lev : Levels(tree_nodes, root, height, lev)
    BY <1>1 DEF Skeleton
  <2>2. height \in Nat /\ root \in DOMAIN tree_nodes /\ lev \in [DOMAIN tree_nodes -> 1..height] /\ lev[root] = height
    BY <1>1, <2>1 DEF Skeleton, Levels
  <2>3. height \in 1..height
    BY <2>2
  <2>4. QED
    BY <1>1, <2>2, <2>3 DEF Nodes
<1>5. setup \in DOMAIN Setups /\ maximum_entry = conf.max /\ minimum_entry = conf.min
  BY DEF IInv, Settings
<1>6. tmp_sorted_children \in Seq(Nodes)
  <2>1. CASE tmp_sorted_children = <<>>
    BY <2>1
  <2>2. CASE tmp_sorted_children # <<>>
    <3>1. PICK s : s = tmp_sorted_children
      OBVIOUS
    <3>2. s \in Seq(Nat) /\ ASet(s) \subseteq Kids(tree_nodes, iter) /\ ~tree_nodes[iter].leaf
      BY <2>2, <3>1 DEF IInv, SortedOK
    <3>3. ASet(s) \subseteq Nodes
      BY <1>1, <3>2 DEF Skeleton, Nodes
    <3>4. Len(s) \in Nat /\ DOMAIN s = 1..Len(s)
      BY <3>2, SetOf
    <3>5. s \in [1..Len(s) -> Nodes]
      <4>1. \A i \in 1..Len(s) : s[i] \in Nodes
        BY <3>3, <3>4 DEF ASet
      <4>2. s = [i \in 1..Len(s) |-> s[i]]
        BY <3>2
      <4>3. QED
        BY <4>1, <4>2
    <3>6. s \in Seq(Nodes)
      BY <3>4, <3>5, SeqDef
    <3>7. QED
      BY <3>1, <3>6
  <2>3. QED
    BY <2>1, <2>2
<1>7. candidate_split_action \in Seq(Locations)
  <2>1. CASE candidate_split_action = <<>>
    BY <2>1
  <2>2. CASE candidate_split_action # <<>>
    <3>1. candidate_split_action \in [1..2 -> Locations]
      BY <2>2 DEF IInv, ListedOK
    <3>2. 2 \in Nat
      OBVIOUS
    <3>3. QED
      BY <3>1, <3>2, SeqDef
  <2>3. QED
    BY <2>1, <2>2
<1>8. {Len(sorted_split_loc), Cardinality(DOMAIN split_locations)} \subseteq {0, 2 * CutsPerOrder}
  <2>1. PICK n \in Nat : n = 2 * CutsPerOrder
    <3>1. FanOuts
      BY FanOutsOf DEF IInv
    <3>2. CutsPerOrder \in Nat
      BY <3>1, CutsPositive
    <3>3. 2 * CutsPerOrder \in Nat
      BY <3>2
    <3>4. QED
      BY <3>3
  <2>2. Len(sorted_split_loc) \in {0, n}
    <3>1. CASE sorted_split_loc = <<>>
      BY <3>1
    <3>2. CASE sorted_split_loc # <<>>
      BY <2>1, <3>2 DEF IInv, ListedOK
    <3>3. QED
      BY <3>1, <3>2
  <2>3. Cardinality(DOMAIN split_locations) \in {0, n}
    <3>1. CASE split_locations = <<>>
      <4>1. DOMAIN split_locations = {}
        BY <3>1
      <4>2. QED
        BY <4>1, FS_EmptySet
    <3>2. CASE split_locations # <<>>
      <4>1. DOMAIN split_locations = 1..n
        BY <2>1, <3>2 DEF IInv, ListedOK, Locations
      <4>2. Cardinality(1..n) = IF 1 > n THEN 0 ELSE n - 1 + 1
        BY FS_Interval
      <4>3. Cardinality(1..n) = n
        BY <4>2
      <4>4. QED
        BY <4>1, <4>3
    <3>3. QED
      BY <3>1, <3>2
  <2>4. QED
    BY <2>1, <2>2, <2>3
<1>9. pc \in {"idle", "try", "insert", "split", "sorted", "candidates", "action", "weighted", "undefined"}
  BY DEF IInv, DriverOK, Splittings
<1>10. rec \in Nat /\ ASet(pending) \subseteq DOMAIN objects
  BY DEF IInv, PlacesOK
<1>11. Cardinality(copy) <= 1 /\ \A c \in copy : DOMAIN c = {"tree_nodes", "objects", "root", "height"}
  BY DEF IInv, CopyOK, CopyIs
<1>12. QED
  BY <1>2, <1>3, <1>4, <1>5, <1>6, <1>7, <1>8, <1>9, <1>10, <1>11 DEF TypeOK

\* The entries of a node are as many as its row is long.
LEMMA RowCounts ==
  ASSUME NEW e, Ids(e)
  PROVE  Cardinality(ASet(e)) = Len(e)
<1>1. Len(e) \in Nat /\ DOMAIN e = 1..Len(e) /\ e \in [1..Len(e) -> ASet(e)]
  <2>1. e \in Seq(Nat) /\ Len(e) \in Nat /\ DOMAIN e = 1..Len(e)
    BY SetOf DEF Ids
  <2>2. \A i \in 1..Len(e) : e[i] \in ASet(e)
    BY <2>1 DEF ASet
  <2>3. e = [i \in 1..Len(e) |-> e[i]]
    BY <2>1
  <2>4. QED
    BY <2>1, <2>2, <2>3
<1>2. e \in Bijection(1..Len(e), ASet(e))
  <2>1. \A x \in ASet(e) : \E i \in 1..Len(e) : e[i] = x
    BY <1>1 DEF ASet
  <2>2. \A i, j \in 1..Len(e) : e[i] = e[j] => i = j
    BY <1>1 DEF Ids, Injective
  <2>3. QED
    BY <1>1, <2>1, <2>2 DEF Bijection, Injection, Surjection, IsInjective
<1>3. ExistsBijection(1..Len(e), ASet(e))
  BY <1>2 DEF ExistsBijection
<1>4. QED
  BY <1>1, <1>3, FS_CountingElements

\* The levels that Linked counts from the root are those of the invariant.
LEMMA LevelsReachLeaves ==
  ASSUME Skeleton(tree_nodes, root, height)
  PROVE  LET level[h \in 1..height] ==
               IF h = 1 THEN {root} ELSE UNION {ASet(Entries(m)) : m \in level[h - 1]}
         IN  level[height] = Leaves
<1> DEFINE T == tree_nodes
           E(f, k) == IF k = 1 THEN {root} ELSE UNION {ASet(Entries(m)) : m \in f[k - 1]}
           g == CHOOSE level : level = [k \in 1..height |-> E(level, k)]
<1>1. PICK lev : Levels(T, root, height, lev)
  BY DEF Skeleton
<1>2. /\ lev \in [DOMAIN T -> 1..height] /\ lev[root] = height /\ root \in DOMAIN T
      /\ height \in Nat /\ height >= 1 /\ \A n \in DOMAIN T : T[n].leaf <=> lev[n] = 1
  <2>1. lev \in [DOMAIN T -> 1..height] /\ lev[root] = height /\ root \in DOMAIN T /\ height \in Nat
    BY <1>1 DEF Levels, Skeleton
  <2>2. height \in 1..height
    BY <2>1
  <2>3. QED
    BY <1>1, <2>1, <2>2 DEF Levels
<1>3. ASSUME NEW n \in DOMAIN T, n # root
      PROVE  \E m \in DOMAIN T : n \in Kids(T, m) /\ lev[m] = lev[n] + 1
  <2>1. PICK m \in DOMAIN T : m = T[n].father /\ ~T[m].leaf /\ n \in Kids(T, m)
    BY <1>3 DEF Skeleton
  <2>2. lev[n] = lev[m] - 1
    BY <1>1, <2>1 DEF Levels
  <2>3. lev[n] \in Int /\ lev[m] \in Int
    BY <1>2
  <2>4. QED
    BY <2>1, <2>2, <2>3
<1>4. ASSUME NEW m \in DOMAIN T, lev[m] # 1, NEW n \in Kids(T, m)
      PROVE  n \in DOMAIN T /\ lev[n] = lev[m] - 1
  BY <1>1, <1>2, <1>4 DEF Levels, Skeleton
<1>5. PICK f : f = [k \in 1..height |-> {n \in DOMAIN T : lev[n] = height - k + 1}]
  OBVIOUS
<1>6. f[1] = {root}
  <2>1. f[1] = {n \in DOMAIN T : lev[n] = height}
    BY <1>2, <1>5
  <2>2. ASSUME NEW n \in DOMAIN T, n # root PROVE lev[n] # height
    <3>1. PICK m \in DOMAIN T : lev[m] = lev[n] + 1
      BY <1>3, <2>2
    <3>2. lev[m] \in 1..height
      BY <1>2
    <3>3. QED
      BY <1>2, <3>1, <3>2
  <2>3. QED
    BY <1>2, <2>1, <2>2
<1>7. ASSUME NEW k \in 2..height PROVE f[k] = UNION {ASet(Entries(m)) : m \in f[k - 1]}
  <2>1. PICK j \in 1..height : j = k - 1
    BY <1>2
  <2>2. f[k] = {n \in DOMAIN T : lev[n] = height - k + 1} /\ f[j] = {n \in DOMAIN T : lev[n] = height - j + 1}
    BY <1>2, <1>5
  <2>3. height - j + 1 = (height - k + 1) + 1 /\ height - j + 1 # 1 /\ height - k + 1 # height
    BY <1>2, <2>1
  <2>4. ASSUME NEW n \in f[k] PROVE \E m \in f[j] : n \in Kids(T, m)
    <3>1. n \in DOMAIN T /\ lev[n] = height - k + 1 /\ n # root
      BY <1>2, <2>2, <2>3
    <3>2. PICK m \in DOMAIN T : n \in Kids(T, m) /\ lev[m] = lev[n] + 1
      BY <1>3, <3>1
    <3>3. QED
      BY <2>2, <2>3, <3>1, <3>2
  <2>5. ASSUME NEW m \in f[j], NEW n \in Kids(T, m) PROVE n \in f[k]
    <3>1. m \in DOMAIN T /\ lev[m] = height - j + 1 /\ lev[m] # 1
      BY <2>2, <2>3
    <3>2. n \in DOMAIN T /\ lev[n] = lev[m] - 1
      BY <1>4, <2>5, <3>1
    <3>3. lev[n] = height - k + 1
      BY <1>2, <2>3, <3>1, <3>2
    <3>4. QED
      BY <2>2, <3>2, <3>3
  <2>6. \A m : ASet(Entries(m)) = Kids(T, m)
    BY DEF Entries, Kids
  <2>7. f[k] = UNION {ASet(Entries(m)) : m \in f[j]}
    BY <2>4, <2>5, <2>6
  <2>8. QED
    BY <2>1, <2>7
<1>8. \A k \in 2..height : k - 1 \in 1..height /\ k \in 1..height /\ k # 1
  BY <1>2
<1>9. f = [k \in 1..height |-> E(f, k)]
  <2>1. \A k \in 1..height : k # 1 => k \in 2..height
    BY <1>2
  <2>2. \A k \in 1..height : f[k] = E(f, k)
    BY <1>6, <1>7, <2>1
  <2> HIDE DEF E
  <2>3. QED
    BY <1>5, <2>2
<1>10. g = [k \in 1..height |-> E(g, k)]
  <2> HIDE DEF E
  <2>1. QED
    BY Zenon, <1>9
<1>11. (g[height] = Leaves) =>
           LET level[h \in 1..height] ==
               IF h = 1 THEN {root} ELSE UNION {ASet(Entries(m)) : m \in level[h - 1]}
           IN  level[height] = Leaves
  BY Zenon
<1> HIDE DEF g
<1>12. \A k \in 1..height : g[k] = E(g, k)
  <2> HIDE DEF E
  <2>1. QED
    BY <1>10
<1>13. \A k \in 1..height : g[k] = f[k]
  <2>1. PICK S : S = {k \in 1..height : g[k] = f[k]}
    OBVIOUS
  <2>2. 1 \in S
    <3>1. 1 \in 1..height
      BY <1>2
    <3>2. g[1] = {root}
      BY <1>12, <3>1
    <3>3. QED
      BY <1>6, <2>1, <3>1, <3>2
  <2>3. ASSUME NEW k \in 2..height, k - 1 \in S PROVE k \in S
    <3>1. g[k - 1] = f[k - 1]
      BY <2>1, <2>3
    <3>2. g[k] = UNION {ASet(Entries(m)) : m \in g[k - 1]}
      BY <1>8, <1>12
    <3>3. QED
      BY <1>7, <1>8, <2>1, <3>1, <3>2
  <2>4. 1..height \subseteq S
    BY <1>2, <2>2, <2>3, StepsReach
  <2>5. QED
    BY <2>1, <2>4
<1>14. f[height] = Leaves
  <2>1. height \in 1..height /\ height - height + 1 = 1
    BY <1>2
  <2>2. f[height] = {n \in DOMAIN T : lev[n] = 1}
    BY <1>5, <2>1
  <2>3. QED
    BY <1>2, <2>2 DEF Leaves, Nodes
<1>15. g[height] = Leaves
  BY <1>2, <1>13, <1>14
<1>16. QED
  BY <1>11, <1>15

\* Whatever is inserted, by whichever strategy or policy, and however the
\* nodes are split, the tree and what the driver knows of it have their types.
THEOREM TreeTypeCorrect ==
  Spec => []TypeOK
<1>1. IInv => TypeOK
  BY TypeFollows
<1>2. QED
  BY <1>1, Inductive, PTL

-------------------------------------------------------------------------------
\* What whoever sees only the collection sees.
Fresh == Inserting /\ pending = <<>>       \* the object being inserted is not in the collection yet
Collected == [k \in Kept |-> objects[k]]
Saved == {c.objects : c \in copy}

\* The objects kept are those of the tree without the one being inserted for
\* the first time.
LEMMA KeptIs ==
  ASSUME IInv
  PROVE  /\ ObjectCount \in Nat /\ DOMAIN objects = 0..ObjectCount - 1 /\ objects \in [DOMAIN objects -> RectT]
         /\ Kept = IF Fresh THEN 0..ObjectCount - 2 ELSE 0..ObjectCount - 1
         /\ Fresh => ObjectCount >= 1
<1>1. PICK n \in Nat : n = ObjectCount
  <2>1. ObjectCount \in Nat
    BY FS_CardinalityType DEF IInv, TreeOK, Stored, Numbered, ObjectCount
  <2>2. QED
    BY <2>1
<1>2. DOMAIN objects = 0..n - 1 /\ objects \in [DOMAIN objects -> RectT]
  BY <1>1 DEF IInv, TreeOK, Stored, Numbered, ObjectCount
<1>3. Placed = PlacedIn(tree_nodes)
  BY DEF Placed, PlacedIn, Leaves, LeavesOf, Nodes, Entries, Kids
<1>4. /\ rec \in Nat /\ Kept \cup {k \in {rec} : Inserting} = DOMAIN objects
      /\ Inserting => rec \notin Placed
      /\ Fresh => rec = n - 1 /\ Kept = Placed
      /\ pending # <<>> => rec \in ASet(pending)
  <2>1. PlacesOK
    BY DEF IInv
  <2>2. rec \in Nat /\ Kept \cup {k \in {rec} : Inserting} = DOMAIN objects /\ (Inserting => rec \notin Placed)
    BY <1>3, <2>1 DEF PlacesOK, Kept
  <2>3. pending # <<>> => rec \in ASet(pending)
    <3>1. ASSUME pending # <<>> PROVE rec \in ASet(pending)
      <4>1. pending \in Seq(Nat) /\ rec = pending[1] /\ Len(pending) \in Nat /\ DOMAIN pending = 1..Len(pending)
        BY <2>1, <3>1, SetOf DEF PlacesOK, Ids
      <4>2. 1 \in DOMAIN pending
        BY <3>1, <4>1
      <4>3. QED
        BY <4>1, <4>2 DEF ASet
    <3>2. QED
      BY <3>1
  <2>4. Fresh => rec = n - 1
    BY <1>1, <2>1 DEF PlacesOK, Fresh
  <2>5. Fresh => Kept = Placed
    BY DEF Fresh, Kept, ASet
  <2>6. QED
    BY <2>2, <2>3, <2>4, <2>5
<1>5. CASE Fresh
  <2>1. {k \in {rec} : Inserting} = {rec} /\ rec = n - 1 /\ rec \notin Kept
    BY <1>4, <1>5 DEF Fresh
  <2>2. Kept = (0..n - 1) \ {n - 1} /\ n >= 1
    BY <1>2, <1>4, <2>1
  <2>3. (0..n - 1) \ {n - 1} = 0..n - 2
    OBVIOUS
  <2>4. QED
    BY <1>1, <1>2, <1>5, <2>2, <2>3
<1>6. CASE ~Fresh
  <2>1. {k \in {rec} : Inserting} \subseteq Kept
    BY <1>4, <1>6 DEF Fresh, Kept
  <2>2. Kept = 0..n - 1
    BY <1>2, <1>4, <2>1
  <2>3. QED
    BY <1>1, <1>2, <1>6, <2>2
<1>7. QED
  BY <1>5, <1>6

\* The object being inserted enters the collection in one step and never
\* leaves it: no call but InsertRec begins with a new one.
LEMMA CallCollects ==
  ASSUME IInv, Call
  PROVE  UNCHANGED <<objects, copy>> /\ (Fresh' => Fresh)
<1>1. ASSUME NEW children, InsertAt(children), pc = "insert"
      PROVE  UNCHANGED <<objects, copy>> /\ (Fresh' => Fresh)
  BY <1>1 DEF InsertAt, Fresh, Inserting
<1>2. ASSUME NEW d, Link(d) PROVE UNCHANGED <<objects, copy>> /\ (Fresh' => Fresh)
  BY <1>2 DEF Link, Fresh, Inserting
<1>3. ASSUME UNCHANGED <<objects, copy, pending>>, pc' \notin {"try", "insert"} \/ pc \in {"try", "insert"}
      PROVE  UNCHANGED <<objects, copy>> /\ (Fresh' => Fresh)
  BY <1>3 DEF Fresh, Inserting
<1>4. ASSUME NEW strategy, InsertStepByStep(strategy) PROVE UNCHANGED <<objects, copy>> /\ (Fresh' => Fresh)
  BY <1>1, <1>4 DEF InsertStepByStep
<1>5. ASSUME NEW loc, InsertWithLoc(loc) PROVE UNCHANGED <<objects, copy>> /\ (Fresh' => Fresh)
  BY <1>1, <1>5 DEF InsertWithLoc
<1>6. ASSUME NEW loc, InsertWithSortedLoc(loc) PROVE UNCHANGED <<objects, copy>> /\ (Fresh' => Fresh)
  BY <1>1, <1>6 DEF InsertWithSortedLoc
<1>7. ASSUME RRInsert PROVE UNCHANGED <<objects, copy>> /\ (Fresh' => Fresh)
  BY <1>1, <1>7 DEF RRInsert
<1>8. ASSUME TryDescend \/ TryPlace PROVE UNCHANGED <<objects, copy>> /\ (Fresh' => Fresh)
  BY <1>3, <1>8 DEF TryDescend, TryPlace
<1>9. ASSUME NEW t, RetrieveSortedInsertStates(t) PROVE UNCHANGED <<objects, copy>> /\ (Fresh' => Fresh)
  BY <1>3, <1>9 DEF RetrieveSortedInsertStates
<1>10. ASSUME NEW strategy, SplitStepByStep(strategy) PROVE UNCHANGED <<objects, copy>> /\ (Fresh' => Fresh)
  BY <1>2, <1>3, <1>10 DEF SplitStepByStep
<1>11. ASSUME NEW loc, SplitWithLoc(loc) \/ SplitWithSortedLoc(loc) \/ SplitWithCandidateAction(loc)
       PROVE  UNCHANGED <<objects, copy>> /\ (Fresh' => Fresh)
  BY <1>2, <1>11 DEF SplitWithLoc, SplitWithSortedLoc, SplitWithCandidateAction
<1>12. ASSUME RRSplit PROVE UNCHANGED <<objects, copy>> /\ (Fresh' => Fresh)
  BY <1>2, <1>3, <1>12 DEF RRSplit
<1>13. ASSUME RetrieveSortedSplitStates \/ GetNumberOfNonOverlapSplitLocs \/ RetrieveZeroOVLPSplitStates
       PROVE  UNCHANGED <<objects, copy>> /\ (Fresh' => Fresh)
  <2>1. UNCHANGED <<objects, copy, pending>> /\ pc' \in {"sorted", "candidates", "action", "weighted"}
    BY <1>13 DEF RetrieveSortedSplitStates, GetNumberOfNonOverlapSplitLocs, RetrieveZeroOVLPSplitStates
  <2>2. QED
    BY <1>3, <2>1
<1>14. ASSUME SplitInMinOverlap PROVE UNCHANGED <<objects, copy>> /\ (Fresh' => Fresh)
  BY <1>2, <1>14 DEF SplitInMinOverlap
<1>15. ASSUME DirectSplitWithReinsert PROVE UNCHANGED <<objects, copy>> /\ (Fresh' => Fresh)
  <2>1. Overflow /\ tree_nodes[iter].leaf
    BY <1>15 DEF DirectSplitWithReinsert, Splitting, IInv, DriverOK
  <2>2. PICK c : c = RetrieveForReinsert(iter)
    OBVIOUS
  <2>3. Len(c[2]) >= 1
    BY <2>1, <2>2, LeafGivesUp DEF GivenUp
  <2>4. UNCHANGED <<objects, copy>> /\ pending' = c[2]
    BY <1>15, <2>2, ReinsertUnfolds DEF Reinserts
  <2>5. pending' # <<>>
    BY <2>3, <2>4
  <2>6. QED
    BY <2>4, <2>5 DEF Fresh
<1>16. ASSUME Settle PROVE UNCHANGED <<objects, copy>> /\ (Fresh' => Fresh)
  BY <1>16 DEF Settle, Fresh, Inserting
<1>17. QED
  BY <1>4, <1>5, <1>6, <1>7, <1>8, <1>9, <1>10, <1>11, <1>12, <1>13, <1>14, <1>15, <1>16, Zenon DEF Call

\* How many they are.
LEMMA CountIs ==
  ASSUME NEW n \in Int, Kept = 0..n - 1, n >= 0
  PROVE  Contents!Count = n
<1>1. Cardinality(0..n - 1) = n
  <2>1. Cardinality(0..n - 1) = IF 0 > n - 1 THEN 0 ELSE n - 1 - 0 + 1
    BY FS_Interval
  <2>2. QED
    BY <2>1
<1>2. DOMAIN [k \in Kept |-> objects[k]] = 0..n - 1
  OBVIOUS
<1>3. Contents!Count = Cardinality(DOMAIN [k \in Kept |-> objects[k]])
  BY Zenon DEF Contents!Count, Contents!Cardinality, Cardinality
<1>4. QED
  BY <1>1, <1>2, <1>3

\* The collection starts empty.
LEMMA CollectionInit ==
  ASSUME Init
  PROVE  Contents!Init
<1>1. IInv /\ ~Fresh /\ objects = NoObjects /\ copy = {}
  BY InitIInv DEF Init, Fresh, Inserting
<1>2. Kept = {}
  <2>1. DOMAIN objects = {}
    BY <1>1 DEF NoObjects
  <2>2. Kept = DOMAIN objects
    BY <1>1, KeptIs
  <2>3. QED
    BY <2>1, <2>2
<1>3. DOMAIN [k \in Kept |-> objects[k]] = {} /\ {c.objects : c \in copy} = {}
  BY <1>1, <1>2
<1>4. QED
  BY <1>3 DEF Contents!Init

\* Every step adds an object, or empties, saves or restores the collection, or
\* leaves it as it is.
LEMMA CollectionSteps ==
  ASSUME IInv, IInv', [Next]_vars
  PROVE  Contents!Next \/ UNCHANGED <<Collected, Saved>>
<1>1. /\ ObjectCount \in Nat /\ DOMAIN objects = 0..ObjectCount - 1 /\ objects \in [DOMAIN objects -> RectT]
      /\ Kept = IF Fresh THEN 0..ObjectCount - 2 ELSE 0..ObjectCount - 1
      /\ Fresh => ObjectCount >= 1
  BY KeptIs
<1>2. /\ ObjectCount' \in Nat /\ DOMAIN objects' = 0..ObjectCount' - 1 /\ objects' \in [DOMAIN objects' -> RectT]
      /\ Kept' = IF Fresh' THEN 0..ObjectCount' - 2 ELSE 0..ObjectCount' - 1
  <2>1. (IInv => /\ ObjectCount \in Nat /\ DOMAIN objects = 0..ObjectCount - 1 /\ objects \in [DOMAIN objects -> RectT]
                 /\ Kept = IF Fresh THEN 0..ObjectCount - 2 ELSE 0..ObjectCount - 1)'
    BY KeptIs, PTL
  <2>2. QED
    BY <2>1
<1>3. Collected' = [k \in Kept' |-> objects'[k]] /\ Saved' = {c.objects : c \in copy'}
  BY DEF Collected, Saved
<1>4. ASSUME UNCHANGED <<objects, copy>>, Fresh' <=> Fresh PROVE UNCHANGED <<Collected, Saved>>
  <2>1. Kept' = Kept
    BY <1>1, <1>2, <1>4 DEF ObjectCount
  <2>2. QED
    BY <1>4, <2>1 DEF Collected, Saved
<1>5. ASSUME UNCHANGED <<objects, copy>>, Fresh, ~Fresh' PROVE Contents!Insert
  <2>1. PICK n \in Nat : n = ObjectCount - 1 /\ n + 1 = ObjectCount /\ ObjectCount' = ObjectCount
    <3>1. ObjectCount >= 1 /\ ObjectCount \in Nat
      BY <1>1, <1>5
    <3>2. PICK m \in Nat : m = ObjectCount /\ m >= 1
      BY <3>1
    <3>3. m - 1 \in Nat /\ m - 1 + 1 = m
      BY <3>2
    <3>4. ObjectCount' = ObjectCount
      BY <1>5 DEF ObjectCount
    <3>5. QED
      BY <3>2, <3>3, <3>4
  <2>2. Kept = 0..n - 1 /\ Kept' = 0..n
    <3>1. ObjectCount - 2 = n - 1 /\ ObjectCount' - 1 = n
      BY <1>1, <2>1
    <3>2. QED
      BY <1>1, <1>2, <1>5, <3>1
  <2>3. Contents!Count = n
    <3>1. n \in Int /\ n >= 0
      OBVIOUS
    <3>2. QED
      BY <2>2, <3>1, CountIs
  <2>4. n \in 0..n /\ \A k \in 0..n - 1 : k \in 0..n
    OBVIOUS
  <2>5. objects[n] \in RectT
    BY <1>1, <2>1, <2>4
  <2>6. /\ DOMAIN [k \in Kept' |-> objects'[k]] = 0..n
        /\ [k \in Kept' |-> objects'[k]][n] \in RectT
    BY <1>5, <2>2, <2>4, <2>5
  <2>7. \A j \in DOMAIN [k \in Kept |-> objects[k]] : [k \in Kept' |-> objects'[k]][j] = [k \in Kept |-> objects[k]][j]
    BY <1>5, <2>2, <2>4
  <2>8. {c.objects : c \in copy'} = {c.objects : c \in copy}
    BY <1>5
  <2>9. QED
    BY <2>3, <2>6, <2>7, <2>8 DEF Contents!Insert
<1>6. CASE InsertRec
  <2>1. PICK n \in Nat : n = ObjectCount
    BY <1>1
  <2>2. ~Fresh /\ Fresh'
    BY <1>6 DEF InsertRec, Fresh, Inserting, IInv, PlacesOK
  <2>3. PICK r : objects' = [k \in 0..n |-> IF k = n THEN r ELSE objects[k]]
    BY <1>6, <2>1 DEF InsertRec
  <2>4. ObjectCount' = n + 1
    <3>1. DOMAIN objects' = 0..n /\ ObjectCount' = Cardinality(DOMAIN objects')
      BY <2>3 DEF ObjectCount
    <3>2. Cardinality(0..n) = IF 0 > n THEN 0 ELSE n - 0 + 1
      BY FS_Interval
    <3>3. QED
      BY <3>1, <3>2
  <2>5. Kept = 0..n - 1 /\ Kept' = 0..n - 1
    BY <1>1, <1>2, <2>1, <2>2, <2>4
  <2>6. \A k \in 0..n - 1 : objects'[k] = objects[k]
    BY <2>3
  <2>7. Collected' = Collected
    BY <1>3, <2>5, <2>6 DEF Collected
  <2>8. Saved' = Saved
    BY <1>6 DEF InsertRec, Saved
  <2>9. QED
    BY <2>7, <2>8
<1>7. CASE Call
  <2>1. UNCHANGED <<objects, copy>> /\ (Fresh' => Fresh)
    BY <1>7, CallCollects
  <2>2. QED
    BY <1>4, <1>5, <2>1 DEF Contents!Next
<1>8. CASE Clear
  <2>1. objects' = NoObjects /\ copy' = copy /\ pc = "idle" /\ pc' = "idle"
    BY <1>8 DEF Clear
  <2>2. Kept' = {}
    <3>1. ~Fresh' /\ DOMAIN objects' = {}
      BY <2>1 DEF Fresh, Inserting, NoObjects
    <3>2. Kept' = DOMAIN objects'
      BY <1>2, <3>1
    <3>3. QED
      BY <3>1, <3>2
  <2>3. DOMAIN [k \in Kept' |-> objects'[k]] = {} /\ {c.objects : c \in copy'} = {c.objects : c \in copy}
    BY <2>1, <2>2
  <2>4. QED
    BY <2>3 DEF Contents!Next, Contents!Clear
<1>9. ASSUME ~Fresh PROVE [k \in Kept |-> objects[k]] = objects
  BY <1>1, <1>9
<1>10. ASSUME ~Fresh' PROVE [k \in Kept' |-> objects'[k]] = objects'
  BY <1>2, <1>10
<1>11. CASE SaveTree
  <2>1. /\ objects' = objects /\ pc = "idle" /\ pc' = "idle"
        /\ copy' = {[tree_nodes |-> tree_nodes, objects |-> objects, root |-> root, height |-> height]}
    BY <1>11 DEF SaveTree
  <2>2. ~Fresh /\ ~Fresh'
    BY <2>1 DEF Fresh, Inserting
  <2>3. {c.objects : c \in copy'} = {objects}
    BY <2>1
  <2>4. [k \in Kept |-> objects[k]] = objects /\ [k \in Kept' |-> objects'[k]] = objects
    BY <1>9, <1>10, <2>1, <2>2
  <2>5. QED
    BY <2>3, <2>4 DEF Contents!Next, Contents!Save
<1>12. CASE RestoreTree
  <2>1. pc' = "idle" /\ copy' = copy /\ objects' \in {c.objects : c \in copy}
    BY <1>12 DEF RestoreTree
  <2>2. ~Fresh'
    BY <2>1 DEF Fresh, Inserting
  <2>3. [k \in Kept' |-> objects'[k]] = objects'
    BY <1>10, <2>2
  <2>4. {c.objects : c \in copy'} = {c.objects : c \in copy}
    BY <2>1
  <2>5. QED
    BY <2>1, <2>3, <2>4 DEF Contents!Next, Contents!Restore
<1>13. CASE UNCHANGED vars
  <2>1. UNCHANGED <<objects, copy, pending, pc>>
    BY <1>13 DEF vars
  <2>2. QED
    BY <1>4, <2>1 DEF Fresh, Inserting
<1>14. QED
  BY <1>6, <1>7, <1>8, <1>11, <1>12, <1>13 DEF Next

\* No step loses, changes or invents an object, whatever the splits and the
\* reinsertions do: to whoever sees only the collection, the R-tree is one.
THEOREM Collects ==
  Spec => ContentsSpec
<1>1. Init => IInv /\ Contents!Init
  BY InitIInv, CollectionInit
<1>2. IInv /\ [Next]_vars => IInv' /\ [Contents!Next]_<<[k \in Kept |-> objects[k]], {c.objects : c \in copy}>>
  BY NextKeeps, CollectionSteps DEF Collected, Saved
<1>3. QED
  BY <1>1, <1>2, PTL DEF Spec, ContentsSpec, Contents!Spec

-------------------------------------------------------------------------------
\* The boxes.  What a node's box is the box of, and whether it is; and that it
\* is the box of that and r, which is on its way down from there.
Held(T, O, n) == IF T[n].leaf THEN {O[k] : k \in Kids(T, n)} ELSE {T[m].box : m \in Kids(T, n)}
Exact(T, O, n) == T[n].kids # <<>> => BoxOf(T[n].box, Held(T, O, n))
Grown(T, O, n, r) == BoxOf(T[n].box, Held(T, O, n) \cup {r})
Tight(T, O) == \A n \in DOMAIN T : Exact(T, O, n)
TightBut(T, O, f, r) == \A n \in DOMAIN T : IF n = f THEN Grown(T, O, n, r) ELSE Exact(T, O, n)

\* What a node holds are rectangles.
LEMMA HeldAreRects ==
  ASSUME NEW T, NEW O, NEW r, NEW h, NEW lo, NEW hi, Whole(T, O, r, h, lo, hi), Stored(O), NEW n \in DOMAIN T
  PROVE  \A x \in Held(T, O, n) : x \in RectT
<1>1. CASE T[n].leaf
  <2>1. Held(T, O, n) = {O[k] : k \in Kids(T, n)}
    BY <1>1 DEF Held
  <2>2. Kids(T, n) \subseteq DOMAIN O
    BY <1>1 DEF Whole, PlacedIn, LeavesOf
  <2>3. \A k \in DOMAIN O : O[k] \in RectT
    BY DEF Stored
  <2>4. QED
    BY <2>1, <2>2, <2>3
<1>2. CASE ~T[n].leaf
  <2>1. Held(T, O, n) = {T[m].box : m \in Kids(T, n)}
    BY <1>2 DEF Held
  <2>2. Kids(T, n) \subseteq DOMAIN T
    BY <1>2 DEF Whole, Skeleton
  <2>3. \A m \in DOMAIN T : T[m].box \in RectT
    BY DEF Whole, Typed, NodeT
  <2>4. QED
    BY <2>1, <2>2, <2>3
<1>3. QED
  BY <1>1, <1>2

\* One of the rectangles grows by r, which the box includes already.
LEMMA OneGrows ==
  ASSUME NEW S, \A x \in S : x \in RectT, NEW b \in RectT, NEW r \in RectT,
         NEW F, BoxOf(F, (S \cup {b}) \cup {r})
  PROVE  BoxOf(F, S \cup {Merge(b, r)})
<1>1. PICK m : m = Merge(b, r)
  OBVIOUS
<1>2. /\ m \in RectT
      /\ m.left = Lower(b.left, r.left) /\ m.right = Higher(b.right, r.right)
      /\ m.bottom = Lower(b.bottom, r.bottom) /\ m.top = Higher(b.top, r.top)
  BY <1>1, MergeIs
<1>3. F \in RectT /\ Contains(F, b) /\ Contains(F, r) /\ \A a \in S : Contains(F, a)
  BY DEF BoxOf
<1>4. \A a \in {F, b, r, m} : a.left \in Int /\ a.right \in Int /\ a.bottom \in Int /\ a.top \in Int
  BY <1>2, <1>3, RectFields
<1>5. Contains(F, m)
  BY <1>2, <1>3, <1>4 DEF Contains, Lower, Higher
<1>6. b.left = F.left \/ r.left = F.left => m.left = F.left
  BY <1>2, <1>3, <1>4 DEF Contains, Lower
<1>7. b.right = F.right \/ r.right = F.right => m.right = F.right
  BY <1>2, <1>3, <1>4 DEF Contains, Higher
<1>8. b.bottom = F.bottom \/ r.bottom = F.bottom => m.bottom = F.bottom
  BY <1>2, <1>3, <1>4 DEF Contains, Lower
<1>9. b.top = F.top \/ r.top = F.top => m.top = F.top
  BY <1>2, <1>3, <1>4 DEF Contains, Higher
<1>10. \E a \in S \cup {m} : a.left = F.left
  BY <1>6 DEF BoxOf
<1>11. \E a \in S \cup {m} : a.right = F.right
  BY <1>7 DEF BoxOf
<1>12. \E a \in S \cup {m} : a.bottom = F.bottom
  BY <1>8 DEF BoxOf
<1>13. \E a \in S \cup {m} : a.top = F.top
  BY <1>9 DEF BoxOf
<1>14. QED
  BY <1>1, <1>3, <1>5, <1>10, <1>11, <1>12, <1>13 DEF BoxOf

\* One of the rectangles is divided in two.
LEMMA OneDivides ==
  ASSUME NEW S, NEW b1, NEW b2, NEW F, NEW M, NEW N, \A x \in S : x \in RectT, b1 \in RectT, b2 \in RectT,
         M = S \cup {Merge(b1, b2)}, N = (S \cup {b1}) \cup {b2}, BoxOf(F, M)
  PROVE  BoxOf(F, N) /\ Merge(F, b2) = F
<1>1. PICK m : m = Merge(b1, b2)
  OBVIOUS
<1>2. /\ m \in RectT
      /\ m.left = Lower(b1.left, b2.left) /\ m.right = Higher(b1.right, b2.right)
      /\ m.bottom = Lower(b1.bottom, b2.bottom) /\ m.top = Higher(b1.top, b2.top)
  BY <1>1, MergeIs
<1>3. F \in RectT /\ Contains(F, m) /\ \A a \in S : Contains(F, a)
  BY <1>1 DEF BoxOf
<1>4. \A a \in {F, b1, b2, m} : a.left \in Int /\ a.right \in Int /\ a.bottom \in Int /\ a.top \in Int
  BY <1>2, <1>3, RectFields
<1>5. Contains(F, b1) /\ Contains(F, b2)
  BY <1>2, <1>3, <1>4 DEF Contains, Lower, Higher
<1>6. m.left = F.left => b1.left = F.left \/ b2.left = F.left
  BY <1>2, <1>4 DEF Lower
<1>7. m.right = F.right => b1.right = F.right \/ b2.right = F.right
  BY <1>2, <1>4 DEF Higher
<1>8. m.bottom = F.bottom => b1.bottom = F.bottom \/ b2.bottom = F.bottom
  BY <1>2, <1>4 DEF Lower
<1>9. m.top = F.top => b1.top = F.top \/ b2.top = F.top
  BY <1>2, <1>4 DEF Higher
<1>10. \E a \in (S \cup {b1}) \cup {b2} : a.left = F.left
  BY <1>1, <1>6 DEF BoxOf
<1>11. \E a \in (S \cup {b1}) \cup {b2} : a.right = F.right
  BY <1>1, <1>7 DEF BoxOf
<1>12. \E a \in (S \cup {b1}) \cup {b2} : a.bottom = F.bottom
  BY <1>1, <1>8 DEF BoxOf
<1>13. \E a \in (S \cup {b1}) \cup {b2} : a.top = F.top
  BY <1>1, <1>9 DEF BoxOf
<1>14. BoxOf(F, (S \cup {b1}) \cup {b2})
  BY <1>3, <1>5, <1>10, <1>11, <1>12, <1>13 DEF BoxOf
<1>15. PICK g : g = Merge(F, b2)
  OBVIOUS
<1>16. /\ g \in RectT
       /\ g.left = Lower(F.left, b2.left) /\ g.right = Higher(F.right, b2.right)
       /\ g.bottom = Lower(F.bottom, b2.bottom) /\ g.top = Higher(F.top, b2.top)
  BY <1>3, <1>15, MergeIs
<1>17. g.left = F.left /\ g.right = F.right /\ g.bottom = F.bottom /\ g.top = F.top
  BY <1>4, <1>5, <1>16 DEF Contains, Lower, Higher
<1>18. QED
  BY <1>3, <1>14, <1>15, <1>16, <1>17, SameRect

\* Include gives the box of what the node held and of r.
LEMMA IncludesBox ==
  ASSUME NEW n \in NodeT, NEW r \in RectT, NEW S, \A x \in S : x \in RectT,
         n.kids = <<>> => S = {}, n.kids # <<>> => BoxOf(n.box, S)
  PROVE  BoxOf(Included(n, r), S \cup {r})
<1>1. BoxOf(r, {r})
  BY BoxOfOne
<1>2. CASE n.kids = <<>>
  BY <1>1, <1>2 DEF Included
<1>3. CASE n.kids # <<>>
  <2>1. BoxOf(Merge(n.box, r), S \cup {r})
    BY <1>1, <1>3, BoxOfBoth
  <2>2. QED
    BY <1>3, <2>1 DEF Included
<1>4. QED
  BY <1>2, <1>3

\* A node holds what it held.
LEMMA HeldSame ==
  ASSUME NEW T, NEW T2, NEW O, NEW n, T2[n].leaf = T[n].leaf, Kids(T2, n) = Kids(T, n),
         ~T[n].leaf => \A m \in Kids(T, n) : T2[m].box = T[m].box
  PROVE  Held(T2, O, n) = Held(T, O, n)
<1>1. CASE T[n].leaf
  BY <1>1 DEF Held
<1>2. CASE ~T[n].leaf
  <2>1. {T2[m].box : m \in Kids(T, n)} = {T[m].box : m \in Kids(T, n)}
    BY <1>2
  <2>2. QED
    BY <1>2, <2>1 DEF Held
<1>3. QED
  BY <1>1, <1>2

\* The boxes of the other children, and that of one child.
Others(T, n, i) == {T[m].box : m \in Kids(T, n) \ {i}}
LEMMA HeldApart ==
  ASSUME NEW T, NEW O, NEW n, ~T[n].leaf, NEW i \in Kids(T, n)
  PROVE  Held(T, O, n) = Others(T, n, i) \cup {T[i].box}
BY DEF Held, Others

\* A child grows by r, which its father includes already.
LEMMA ChildGrows ==
  ASSUME NEW T, NEW T2, NEW O, NEW f, ~T[f].leaf, ~T2[f].leaf, Kids(T2, f) = Kids(T, f),
         NEW i \in Kids(T, f), \A m \in Kids(T, f) : m # i => T2[m].box = T[m].box,
         NEW r \in RectT, T2[i].box = Merge(T[i].box, r),
         \A x \in Held(T, O, f) : x \in RectT, NEW F, BoxOf(F, Held(T, O, f) \cup {r})
  PROVE  BoxOf(F, Held(T2, O, f))
<1>1. Held(T, O, f) = Others(T, f, i) \cup {T[i].box}
  BY HeldApart
<1>2. Held(T2, O, f) = Others(T2, f, i) \cup {T2[i].box}
  BY HeldApart
<1>3. Others(T2, f, i) = Others(T, f, i)
  BY DEF Others
<1>4. PICK S : S = Others(T, f, i)
  OBVIOUS
<1>5. (\A x \in S : x \in RectT) /\ T[i].box \in RectT
  BY <1>1, <1>4
<1>6. BoxOf(F, (S \cup {T[i].box}) \cup {r})
  BY <1>1, <1>4
<1>7. PICK b \in RectT : b = T[i].box
  BY <1>5
<1>8. BoxOf(F, S \cup {Merge(b, r)})
  BY <1>5, <1>6, <1>7, OneGrows
<1>9. QED
  BY <1>2, <1>3, <1>4, <1>7, <1>8

\* One node includes r, which its father includes already.
GrowsAt(T, T2, i, r) ==
  /\ DOMAIN T2 = DOMAIN T /\ \A n \in DOMAIN T : n # i => T2[n] = T[n]
  /\ T2[i].leaf = T[i].leaf /\ T2[i].box = Included(T[i], r)
LEMMA OneNodeGrows ==
  ASSUME NEW T, NEW O, NEW r, NEW h, NEW lo \in Nat, NEW hi, Whole(T, O, r, h, lo, hi), Stored(O), lo >= 1,
         NEW i \in DOMAIN T, NEW x \in RectT, NEW T2, GrowsAt(T, T2, i, x), TightBut(T, O, T[i].father, x)
  PROVE  /\ \A n \in DOMAIN T : n # i => Exact(T2, O, n)
         /\ BoxOf(T2[i].box, Held(T, O, i) \cup {x})
<1>1. PICK f : f = T[i].father
  OBVIOUS
<1>2. /\ Skeleton(T, r, h) /\ i \in DOMAIN T /\ T[i] \in NodeT /\ Roomy(T, r, lo, hi)
      /\ \A n \in DOMAIN T : ~T[n].leaf => \A c \in Kids(T, n) : T[c].father = n
  BY DEF Whole, Typed, Skeleton
<1>3. f # i
  <2>1. SUFFICES ASSUME f = i PROVE FALSE
    OBVIOUS
  <2>2. i # r
    <3>1. i \in Nat /\ T[r].father = -1
      BY <1>2 DEF Skeleton
    <3>2. i # -1
      BY <3>1
    <3>3. QED
      BY <1>1, <2>1, <3>1, <3>2
  <2>3. ~T[i].leaf /\ i \in Kids(T, i)
    BY <1>1, <1>2, <2>1, <2>2 DEF Skeleton
  <2>4. QED
    BY <1>2, <2>3, LevelsApart
<1>4. Exact(T, O, i)
  BY <1>1, <1>3 DEF TightBut
<1>5. T[i].kids = <<>> => Held(T, O, i) = {}
  <2>1. T[i].kids = <<>> => Kids(T, i) = {}
    BY DEF Kids, ASet
  <2>2. QED
    BY <2>1 DEF Held
<1>6. BoxOf(T2[i].box, Held(T, O, i) \cup {x})
  <2>1. \A y \in Held(T, O, i) : y \in RectT
    BY HeldAreRects
  <2>2. BoxOf(Included(T[i], x), Held(T, O, i) \cup {x})
    BY <1>2, <1>4, <1>5, <2>1, IncludesBox DEF Exact
  <2>3. QED
    BY <2>2 DEF GrowsAt
<1>7. ASSUME NEW n \in DOMAIN T, n # i PROVE Exact(T2, O, n)
  <2>1. T2[n] = T[n] /\ Kids(T2, n) = Kids(T, n)
    BY <1>7 DEF GrowsAt, Kids
  <2>2. CASE n = f
    <3>1. i # r /\ i \in Kids(T, f) /\ ~T[f].leaf
      <4>1. i # r
        BY <1>1, <1>2, <2>2 DEF Skeleton
      <4>2. QED
        BY <1>1, <1>2, <4>1 DEF Skeleton
    <3>2. T[i].kids # <<>>
      <4>1. Len(T[i].kids) >= lo
        BY <1>2, <3>1 DEF Roomy
      <4>2. Len(T[i].kids) # 0
        BY <4>1
      <4>3. QED
        BY <4>2
    <3>3. T2[i].box = Merge(T[i].box, x)
      BY <3>2 DEF GrowsAt, Included
    <3>4. BoxOf(T[f].box, Held(T, O, f) \cup {x})
      BY <1>1, <2>2 DEF TightBut, Grown
    <3>5. \A y \in Held(T, O, f) : y \in RectT
      BY <2>2, HeldAreRects
    <3>6. \A m \in Kids(T, f) : m # i => T2[m].box = T[m].box
      BY <1>2, <2>2, <3>1 DEF Skeleton, GrowsAt
    <3>7. BoxOf(T[f].box, Held(T2, O, f))
      BY <2>1, <2>2, <3>1, <3>3, <3>4, <3>5, <3>6, ChildGrows
    <3>8. QED
      BY <2>1, <2>2, <3>7 DEF Exact
  <2>3. CASE n # f
    <3>1. ~T[n].leaf => i \notin Kids(T, n) /\ Kids(T, n) \subseteq DOMAIN T
      BY <1>1, <1>2, <2>3 DEF Skeleton
    <3>2. ~T[n].leaf => \A m \in Kids(T, n) : T2[m].box = T[m].box
      BY <3>1 DEF GrowsAt
    <3>3. Held(T2, O, n) = Held(T, O, n)
      BY <2>1, <3>2, HeldSame
    <3>4. Exact(T, O, n)
      BY <1>1, <2>3 DEF TightBut
    <3>5. QED
      BY <2>1, <3>3, <3>4 DEF Exact
  <2>4. QED
    BY <2>2, <2>3
<1>8. QED
  BY <1>6, <1>7

\* What the boxes are now, and those of the copy.
NowTight ==
  IF pc = "insert" THEN TightBut(tree_nodes, objects, tree_nodes[iter].father, objects[rec])
  ELSE Tight(tree_nodes, objects)
CopyTight == \A c \in copy : Tight(c.tree_nodes, c.objects)
BoxesOK == NowTight /\ CopyTight

\* The root has no father, so no box that includes more.
LEMMA AtRoot ==
  ASSUME NEW T, NEW O, NEW r, NEW h, NEW lo, NEW hi, Whole(T, O, r, h, lo, hi), NEW x
  PROVE  TightBut(T, O, T[r].father, x) <=> Tight(T, O)
<1>1. T[r].father = -1 /\ DOMAIN T \subseteq Nat
  BY DEF Whole, Skeleton
<1>2. T[r].father \notin DOMAIN T
  BY <1>1
<1>3. QED
  BY <1>2 DEF TightBut, Tight

\* A call that changes no box.
LEMMA BoxesStay ==
  ASSUME NowTight, UNCHANGED <<tree_nodes, objects>>,
         \/ pc # "insert" /\ pc' # "insert"
         \/ pc = "insert" /\ pc' = "insert" /\ iter' = iter /\ rec' = rec
  PROVE  NowTight'
<1>1. CASE pc # "insert" /\ pc' # "insert"
  BY <1>1 DEF NowTight
<1>2. CASE pc = "insert" /\ pc' = "insert" /\ iter' = iter /\ rec' = rec
  BY <1>2 DEF NowTight
<1>3. QED
  BY <1>1, <1>2

\* An insertion starts at the root.
LEMMA BoxesFromRoot ==
  ASSUME NEW lo, NEW hi, Tight(tree_nodes', objects'),
         Whole(tree_nodes', objects', root', height', lo, hi), pc' = "insert" => iter' = root'
  PROVE  NowTight'
<1>1. PICK x : x = objects'[rec']
  OBVIOUS
<1>2. TightBut(tree_nodes', objects', tree_nodes'[root'].father, x)
  BY AtRoot
<1>3. QED
  BY <1>1, <1>2 DEF NowTight

\* The calls that only list, and RRSplit without a cut.
LEMMA ListsBoxes ==
  ASSUME NowTight, Lists \/ NoCut
  PROVE  NowTight'
<1>1. ASSUME NEW t, RetrieveSortedInsertStates(t) PROVE NowTight'
  BY <1>1, BoxesStay DEF RetrieveSortedInsertStates, treeVars
<1>2. CASE RetrieveSortedSplitStates
  BY <1>2, BoxesStay DEF RetrieveSortedSplitStates, Splitting, treeVars
<1>3. CASE GetNumberOfNonOverlapSplitLocs
  BY <1>3, BoxesStay DEF GetNumberOfNonOverlapSplitLocs, Splitting, treeVars
<1>4. CASE RetrieveZeroOVLPSplitStates
  <2>1. pc = "candidates" /\ pc' \in {"action", "weighted"} /\ UNCHANGED <<tree_nodes, objects>>
    BY <1>4 DEF RetrieveZeroOVLPSplitStates, treeVars
  <2>2. QED
    BY <2>1, BoxesStay
<1>5. CASE NoCut
  BY <1>5, BoxesStay DEF NoCut, treeVars
<1>6. QED
  BY <1>1, <1>2, <1>3, <1>4, <1>5 DEF Lists

\* TryInsert on its way down, and the end of the splits.
LEMMA WaysBoxes ==
  ASSUME IInv, NowTight, TryDescend \/ Settle
  PROVE  NowTight'
<1>1. CASE TryDescend
  BY <1>1, BoxesStay DEF TryDescend, treeVars
<1>2. CASE Settle
  <2>1. /\ pc = "split" /\ UNCHANGED <<tree_nodes, objects, root, height, fixed>>
        /\ pc' = "insert" => iter' = root
    BY <1>2 DEF Settle, treeVars
  <2>2. Tight(tree_nodes, objects)
    BY <2>1 DEF NowTight
  <2>3. Whole(tree_nodes, objects, root, height, minimum_entry, maximum_entry)
    BY TheTree
  <2>4. QED
    BY <2>1, <2>2, <2>3, BoxesFromRoot
<1>3. QED
  BY <1>1, <1>2

\* A step of an insertion: the leaf's box is exact again, or the box that
\* includes the object already is that of the next node's father.
LEMMA InsertsBoxes ==
  ASSUME IInv, NowTight, Inserts
  PROVE  NowTight'
<1> DEFINE T == tree_nodes
           T2 == tree_nodes'
<1>1. PICK children : InsertAt(children) /\ (~T[iter].leaf => children \subseteq Kids(T, iter))
  BY DEF Inserts
<1>2. pc = "insert" /\ Inserting
  BY DEF Inserts, Inserting
<1>3. PICK x \in RectT : x = objects[rec]
  BY <1>2, TheObject
<1>4. /\ Whole(T, objects, root, height, minimum_entry, maximum_entry) /\ iter \in DOMAIN T
      /\ minimum_entry \in Nat /\ minimum_entry >= 1 /\ T[iter] \in NodeT /\ Ids(T[iter].kids) /\ Stored(objects)
      /\ rec \in Nat /\ rec \notin PlacedIn(T)
  BY <1>2, TheTree, TheObject DEF IInv, TreeOK
<1>5. TightBut(T, objects, T[iter].father, x)
  BY <1>2, <1>3 DEF NowTight
<1>6. PICK m : m = Include(T[iter], x)
  OBVIOUS
<1>7. /\ m \in NodeT /\ m.box = Included(T[iter], x) /\ m.kids = T[iter].kids /\ m.leaf = T[iter].leaf
      /\ m.father = T[iter].father
  BY <1>3, <1>4, <1>6, NodeIncludes DEF IsNode
<1>8. UNCHANGED <<objects, rec>>
  BY <1>1 DEF InsertAt
<1>9. CASE T[iter].leaf
  <2>1. T2 = [T EXCEPT ![iter] = AddChildren(m, rec)] /\ pc' = "split"
    BY <1>1, <1>3, <1>6, <1>9 DEF InsertAt
  <2>2. PICK a : a = AddChildren(m, rec)
    OBVIOUS
  <2>3. a.box = Included(T[iter], x) /\ a.leaf = T[iter].leaf /\ a.kids = Append(T[iter].kids, rec)
    <3>1. IsNode(AddChildren(m, rec), m.box, Append(m.kids, rec), m.overflow \/ Len(m.kids) + 1 > maximum_entry,
                 m.leaf, m.father)
      BY <1>4, <1>7, NodeAdds
    <3>2. QED
      BY <1>7, <2>2, <3>1 DEF IsNode
  <2>4. DOMAIN T2 = DOMAIN T /\ T2[iter] = a /\ \A n \in DOMAIN T : n # iter => T2[n] = T[n]
    BY <1>4, <2>1, <2>2
  <2>5. GrowsAt(T, T2, iter, x)
    BY <2>3, <2>4 DEF GrowsAt
  <2>6. /\ \A n \in DOMAIN T : n # iter => Exact(T2, objects, n)
        /\ BoxOf(T2[iter].box, Held(T, objects, iter) \cup {x})
    BY <1>3, <1>4, <1>5, <2>5, OneNodeGrows
  <2>7. Kids(T2, iter) = Kids(T, iter) \cup {rec}
    BY <1>4, <2>3, <2>4, RowGrows DEF Kids
  <2>8. Held(T2, objects, iter) = Held(T, objects, iter) \cup {x}
    BY <1>3, <1>9, <2>3, <2>4, <2>7 DEF Held
  <2>9. Exact(T2, objects, iter)
    BY <2>6, <2>8 DEF Exact
  <2>10. Tight(T2, objects)
    BY <2>4, <2>6, <2>9 DEF Tight
  <2>11. QED
    BY <1>8, <2>1, <2>10 DEF NowTight
<1>10. CASE ~T[iter].leaf
  <2>1. T2 = [T EXCEPT ![iter] = m] /\ iter' \in children /\ pc' = "insert"
    BY <1>1, <1>2, <1>3, <1>6, <1>10 DEF InsertAt
  <2>2. DOMAIN T2 = DOMAIN T /\ T2[iter] = m /\ \A n \in DOMAIN T : n # iter => T2[n] = T[n]
    BY <1>4, <2>1
  <2>3. GrowsAt(T, T2, iter, x)
    BY <1>7, <2>2 DEF GrowsAt
  <2>4. /\ \A n \in DOMAIN T : n # iter => Exact(T2, objects, n)
        /\ BoxOf(T2[iter].box, Held(T, objects, iter) \cup {x})
    BY <1>3, <1>4, <1>5, <2>3, OneNodeGrows
  <2>5. Skeleton(T, root, height)
    BY <1>4 DEF Whole
  <2>6. iter \notin Kids(T, iter)
    BY <1>4, <1>10, <2>5, LevelsApart
  <2>7. Kids(T, iter) \subseteq DOMAIN T /\ \A c \in Kids(T, iter) : T[c].father = iter
    BY <1>4, <1>10, <2>5 DEF Skeleton
  <2>8. \A c \in Kids(T, iter) : T2[c] = T[c]
    BY <2>2, <2>6, <2>7
  <2>9. T2[iter'].father = iter
    BY <1>1, <1>10, <2>1, <2>7, <2>8
  <2>10. Kids(T2, iter) = Kids(T, iter)
    BY <1>7, <2>2 DEF Kids
  <2>11. Held(T2, objects, iter) = Held(T, objects, iter)
    BY <1>7, <2>2, <2>8, <2>10, HeldSame
  <2>12. Grown(T2, objects, iter, x)
    BY <2>4, <2>11 DEF Grown
  <2>13. TightBut(T2, objects, iter, x)
    BY <2>2, <2>4, <2>12 DEF TightBut
  <2>14. QED
    BY <1>3, <1>8, <2>1, <2>9, <2>13 DEF NowTight
<1>11. QED
  BY <1>9, <1>10

\* The entries' boxes are what the node holds.
LEMMA EntryBoxesAre ==
  ASSUME IInv, NEW n \in DOMAIN tree_nodes
  PROVE  /\ \A x \in Kids(tree_nodes, n) : EntryBoxes(n)[x] \in RectT
         /\ BoxesOf(EntryBoxes(n), Kids(tree_nodes, n)) = Held(tree_nodes, objects, n)
         /\ \A x \in Kids(tree_nodes, n) :
                EntryBoxes(n)[x] = IF tree_nodes[n].leaf THEN objects[x] ELSE tree_nodes[x].box
<1>1. /\ Whole(tree_nodes, objects, root, height, minimum_entry, maximum_entry) /\ Stored(objects)
  BY TheTree DEF IInv, TreeOK
<1>2. \A y \in Held(tree_nodes, objects, n) : y \in RectT
  BY <1>1, HeldAreRects
<1>3. CASE tree_nodes[n].leaf
  <2>1. EntryBoxes(n) = objects
    BY <1>3 DEF EntryBoxes
  <2>2. QED
    BY <1>2, <1>3, <2>1 DEF Held, BoxesOf
<1>4. CASE ~tree_nodes[n].leaf
  <2>1. Kids(tree_nodes, n) \subseteq DOMAIN tree_nodes
    BY <1>1, <1>4 DEF Whole, Skeleton
  <2>2. EntryBoxes(n) = [m \in DOMAIN tree_nodes |-> tree_nodes[m].box]
    BY <1>4 DEF EntryBoxes
  <2>3. \A x \in Kids(tree_nodes, n) : EntryBoxes(n)[x] = tree_nodes[x].box
    BY <2>1, <2>2
  <2>4. QED
    BY <1>2, <1>4, <2>3 DEF Held, BoxesOf
<1>5. QED
  BY <1>3, <1>4

\* All other boxes are the same.
SameBoxes(T, T2, i) == \A m \in DOMAIN T : m # i => T2[m].box = T[m].box
\* R are the boxes of what i holds.
RectsIn(T, O, i, R) == \A x \in Kids(T, i) : R[x] = IF T[i].leaf THEN O[x] ELSE T[x].box

\* A half n of the node i has the box of what it got.
LEMMA HalfExact ==
  ASSUME NEW T, NEW O, NEW r, NEW h, Skeleton(T, r, h), NEW i \in DOMAIN T,
         NEW T2, SameBoxes(T, T2, i), NEW R, RectsIn(T, O, i, R),
         NEW n, T2[n].leaf = T[i].leaf, Kids(T2, n) \subseteq Kids(T, i),
         BoxOf(T2[n].box, BoxesOf(R, Kids(T2, n)))
  PROVE  Exact(T2, O, n)
<1>1. CASE T[i].leaf
  <2>1. \A x \in Kids(T2, n) : R[x] = O[x]
    BY <1>1 DEF RectsIn
  <2>2. Held(T2, O, n) = BoxesOf(R, Kids(T2, n))
    BY <1>1, <2>1 DEF Held, BoxesOf
  <2>3. QED
    BY <2>2 DEF Exact
<1>2. CASE ~T[i].leaf
  <2>1. i \notin Kids(T, i) /\ Kids(T, i) \subseteq DOMAIN T
    BY <1>2, LevelsApart DEF Skeleton
  <2>2. \A x \in Kids(T2, n) : R[x] = T[x].box
    BY <1>2 DEF RectsIn
  <2>3. \A x \in Kids(T2, n) : T2[x].box = T[x].box
    BY <2>1 DEF SameBoxes
  <2>4. Held(T2, O, n) = BoxesOf(R, Kids(T2, n))
    BY <1>2, <2>2, <2>3 DEF Held, BoxesOf
  <2>5. QED
    BY <2>4 DEF Exact
<1>3. QED
  BY <1>1, <1>2

\* The node's box is that of its halves together.
LEMMA HalvesBox ==
  ASSUME NEW d, NEW R, NEW e, Shares(d, e), Boxed(d, R), \A x \in ASet(e) : R[x] \in RectT,
         NEW box, BoxOf(box, BoxesOf(R, ASet(e)))
  PROVE  box = Merge(d.box1, d.box2) /\ d.box1 \in RectT /\ d.box2 \in RectT
<1>1. BoxesOf(R, ASet(e)) = BoxesOf(R, ASet(d.low)) \cup BoxesOf(R, ASet(d.high))
  BY BoxesJoin DEF Shares
<1>2. \A x \in BoxesOf(R, ASet(e)) : x \in RectT
  BY DEF BoxesOf
<1>3. PICK L, H : L = BoxesOf(R, ASet(d.low)) /\ H = BoxesOf(R, ASet(d.high))
  OBVIOUS
<1>4. BoxOf(d.box1, L) /\ BoxOf(d.box2, H)
  BY <1>3 DEF Boxed
<1>5. BoxOf(Merge(d.box1, d.box2), L \cup H)
  BY <1>1, <1>2, <1>3, <1>4, BoxOfBoth
<1>6. box = Merge(d.box1, d.box2)
  BY <1>1, <1>2, <1>3, <1>5, OneBox
<1>7. QED
  BY <1>4, <1>6 DEF BoxOf

\* What neither the node nor its father is holds what it held.
LEMMA TornElsewhere ==
  ASSUME NEW T, NEW O, NEW r, NEW h, Skeleton(T, r, h), NEW i \in DOMAIN T, Tight(T, O),
         NEW T2, NEW s, NEW f, NEW d, NEW top, NEW hi, Torn(T, T2, i, s, f, d, top, hi),
         SameBoxes(T, T2, i), T[i].father \in DOMAIN T => f = T[i].father,
         NEW n \in DOMAIN T, n # i, n # f
  PROVE  Exact(T2, O, n)
<1>1. T2[n].box = T[n].box /\ T2[n].kids = T[n].kids /\ T2[n].leaf = T[n].leaf
  <2>1. n \in DOMAIN T \ {i, f}
    OBVIOUS
  <2>2. IsNode(T2[n], T[n].box, T[n].kids, T[n].overflow, T[n].leaf,
                IF ~T[i].leaf /\ n \in ASet(d.high) THEN s ELSE T[n].father)
    BY <2>1 DEF Torn
  <2>3. QED
    BY <2>2 DEF IsNode
<1>2. Kids(T2, n) = Kids(T, n)
  BY <1>1 DEF Kids
<1>3. ~T[n].leaf => Kids(T, n) \subseteq DOMAIN T /\ \A c \in Kids(T, n) : T[c].father = n
  BY DEF Skeleton
<1>4. ~T[n].leaf => i \notin Kids(T, n)
  BY <1>3
<1>5. ~T[n].leaf => \A m \in Kids(T, n) : T2[m].box = T[m].box
  BY <1>3, <1>4 DEF SameBoxes
<1>6. Held(T2, O, n) = Held(T, O, n)
  BY <1>1, <1>2, <1>5, HeldSame
<1>7. QED
  BY <1>1, <1>6 DEF Tight, Exact

\* The halves of a torn node.
LEMMA TornHalves ==
  ASSUME NEW T, NEW O, NEW r, NEW h, Skeleton(T, r, h), NEW i \in DOMAIN T,
         NEW T2, NEW s, NEW f, NEW d, NEW top, NEW hi, Torn(T, T2, i, s, f, d, top, hi),
         SameBoxes(T, T2, i), NEW R, RectsIn(T, O, i, R), Shares(d, T[i].kids), Boxed(d, R)
  PROVE  /\ Exact(T2, O, i) /\ Exact(T2, O, s)
         /\ T2[i].box = d.box1 /\ T2[s].box = d.box2
<1>1. /\ T2[i].box = d.box1 /\ T2[i].kids = d.low /\ T2[i].leaf = T[i].leaf
      /\ T2[s].box = d.box2 /\ T2[s].kids = d.high /\ T2[s].leaf = T[i].leaf
  BY DEF Torn, IsNode
<1>2. Kids(T2, i) = ASet(d.low) /\ Kids(T2, s) = ASet(d.high)
  BY <1>1 DEF Kids
<1>3. Kids(T2, i) \subseteq Kids(T, i) /\ Kids(T2, s) \subseteq Kids(T, i)
  BY <1>2 DEF Shares, Kids
<1>4. /\ BoxOf(T2[i].box, BoxesOf(R, Kids(T2, i)))
      /\ BoxOf(T2[s].box, BoxesOf(R, Kids(T2, s)))
  BY <1>1, <1>2 DEF Boxed
<1>5. Exact(T2, O, i)
  BY <1>1, <1>3, <1>4, HalfExact
<1>6. Exact(T2, O, s)
  BY <1>1, <1>3, <1>4, HalfExact
<1>7. QED
  BY <1>1, <1>5, <1>6

\* Below a father: its box is as it was.
LEMMA BelowTight ==
  ASSUME NEW T, NEW O, NEW r, NEW h, NEW lo, NEW hi, Whole(T, O, r, h, lo, hi), Stored(O), Tight(T, O),
         NEW i \in DOMAIN T, i # r, T[i].kids # <<>>, NEW d, NEW R, RectsIn(T, O, i, R),
         Shares(d, T[i].kids), Boxed(d, R), BoxesOf(R, Kids(T, i)) = Held(T, O, i),
         NEW s, s \notin DOMAIN T, s \in Nat, NEW f, f = T[i].father,
         NEW T2, Torn(T, T2, i, s, f, d, T[f], hi), T2[f].box = Merge(T[f].box, d.box2)
  PROVE  Tight(T2, O)
<1>1. Skeleton(T, r, h) /\ \A n \in DOMAIN T : T[n] \in NodeT /\ Ids(T[n].kids)
  BY DEF Whole, Typed, Ids, NodeT
<1>2. f \in DOMAIN T /\ ~T[f].leaf /\ i \in Kids(T, f) /\ Kids(T, f) \subseteq DOMAIN T
  BY <1>1 DEF Skeleton
<1>3. i # f
  BY <1>1, <1>2, LevelsApart
<1>4. \A x \in Kids(T, i) : R[x] \in RectT
  <2>1. \A y \in Held(T, O, i) : y \in RectT
    BY HeldAreRects
  <2>2. QED
    BY <2>1 DEF BoxesOf
<1>5. T[i].box = Merge(d.box1, d.box2) /\ d.box1 \in RectT /\ d.box2 \in RectT
  <2>1. BoxOf(T[i].box, BoxesOf(R, ASet(T[i].kids)))
    BY DEF Tight, Exact, Kids
  <2>2. \A x \in ASet(T[i].kids) : R[x] \in RectT
    BY <1>4 DEF Kids
  <2>3. QED
    BY <2>1, <2>2, HalvesBox
<1>6. PICK S : S = Others(T, f, i)
  OBVIOUS
<1>7. Held(T, O, f) = S \cup {Merge(d.box1, d.box2)}
  BY <1>2, <1>5, <1>6, HeldApart
<1>8. \A y \in Held(T, O, f) : y \in RectT
  BY <1>2, HeldAreRects
<1>9. T[f].kids # <<>>
  BY <1>2 DEF Kids, ASet
<1>10. BoxOf(T[f].box, S \cup {Merge(d.box1, d.box2)})
  BY <1>2, <1>7, <1>9 DEF Tight, Exact
<1>11. PICK F : F = T[f].box
  OBVIOUS
<1>12. BoxOf(F, (S \cup {d.box1}) \cup {d.box2}) /\ Merge(F, d.box2) = F
  <2>1. \A y \in S : y \in RectT
    BY <1>7, <1>8
  <2>2. PICK b1 \in RectT, b2 \in RectT : b1 = d.box1 /\ b2 = d.box2
    BY <1>5
  <2>3. BoxOf(F, S \cup {Merge(b1, b2)})
    BY <1>10, <1>11, <2>2
  <2>4. BoxOf(F, (S \cup {b1}) \cup {b2}) /\ Merge(F, b2) = F
    <3>1. b1 \in RectT /\ b2 \in RectT
      BY <2>2
    <3>2. PICK M, N : M = S \cup {Merge(b1, b2)} /\ N = (S \cup {b1}) \cup {b2}
      OBVIOUS
    <3>3. BoxOf(F, M)
      BY <2>3, <3>2
    <3>4. BoxOf(F, N) /\ Merge(F, b2) = F
      BY ONLY <2>1, <3>1, <3>2, <3>3, OneDivides
    <3>5. QED
      BY <3>2, <3>4
  <2>5. QED
    BY <2>2, <2>4
<1>13. T2[f].box = T[f].box
  BY <1>11, <1>12
<1>14. SameBoxes(T, T2, i)
  <2>1. ASSUME NEW m \in DOMAIN T, m # i, m # f PROVE T2[m].box = T[m].box
    <3>1. m \in DOMAIN T \ {i, f}
      BY <2>1
    <3>2. IsNode(T2[m], T[m].box, T[m].kids, T[m].overflow, T[m].leaf,
                IF ~T[i].leaf /\ m \in ASet(d.high) THEN s ELSE T[m].father)
      BY <3>1 DEF Torn
    <3>3. QED
      BY <3>2 DEF IsNode
  <2>2. QED
    BY <1>13, <2>1 DEF SameBoxes
<1>15. Exact(T2, O, i) /\ Exact(T2, O, s) /\ T2[i].box = d.box1 /\ T2[s].box = d.box2
  BY <1>1, <1>14, TornHalves
<1>16. Exact(T2, O, f)
  <2>1. Kids(T2, f) = Kids(T, f) \cup {s} /\ ~T2[f].leaf
    BY <1>1, <1>2, RowGrows DEF Torn, Kids
  <2>2. \A m \in Kids(T, f) \ {i} : T2[m].box = T[m].box
    BY <1>2, <1>14 DEF SameBoxes
  <2>3. Held(T2, O, f) = {T2[m].box : m \in Kids(T2, f)}
    BY <2>1 DEF Held
  <2>4. {T2[m].box : m \in Kids(T, f) \ {i}} = S
    BY <1>6, <2>2 DEF Others
  <2>5. Kids(T2, f) = (Kids(T, f) \ {i}) \cup {i} \cup {s}
    BY <1>2, <2>1
  <2>6. Held(T2, O, f) = (S \cup {d.box1}) \cup {d.box2}
    BY <1>15, <2>3, <2>4, <2>5
  <2>7. QED
    BY <1>11, <1>12, <1>13, <2>6 DEF Exact
<1>17. ASSUME NEW n \in DOMAIN T, n # i, n # f PROVE Exact(T2, O, n)
  BY <1>1, <1>14, <1>17, TornElsewhere
<1>18. DOMAIN T2 = DOMAIN T \cup {s}
  BY <1>2 DEF Torn
<1>19. QED
  BY <1>15, <1>16, <1>17, <1>18 DEF Tight

\* Under a new root: its box is that of the two.
LEMMA AboveTight ==
  ASSUME NEW T, NEW O, NEW r, NEW h, NEW lo, NEW hi, Whole(T, O, r, h, lo, hi), Stored(O), Tight(T, O),
         r \in DOMAIN T, NEW d, NEW R, RectsIn(T, O, r, R),
         Shares(d, T[r].kids), Boxed(d, R),
         NEW s, s \notin DOMAIN T, s \in Nat, NEW f, f \notin DOMAIN T,
         NEW T2, NEW top, top.kids = <<r>>, Torn(T, T2, r, s, f, d, top, hi), T2[f].box = Merge(d.box1, d.box2)
  PROVE  Tight(T2, O)
<1>1. Skeleton(T, r, h) /\ r \in Nat /\ T[r].father = -1 /\ T[r].father \notin DOMAIN T
  <2>1. Skeleton(T, r, h) /\ r \in Nat /\ T[r].father = -1 /\ DOMAIN T \subseteq Nat
    BY DEF Whole, Skeleton
  <2>2. QED
    BY <2>1
<1>2. SameBoxes(T, T2, r)
  <2>1. ASSUME NEW m \in DOMAIN T, m # r PROVE T2[m].box = T[m].box
    <3>1. m \in DOMAIN T \ {r, f}
      BY <2>1
    <3>2. IsNode(T2[m], T[m].box, T[m].kids, T[m].overflow, T[m].leaf,
                IF ~T[r].leaf /\ m \in ASet(d.high) THEN s ELSE T[m].father)
      BY <3>1 DEF Torn
    <3>3. QED
      BY <3>2 DEF IsNode
  <2>2. QED
    BY <2>1 DEF SameBoxes
<1>3. Exact(T2, O, r) /\ Exact(T2, O, s) /\ T2[r].box = d.box1 /\ T2[s].box = d.box2
  BY <1>1, <1>2, TornHalves
<1>4. d.box1 \in RectT /\ d.box2 \in RectT
  BY DEF Boxed, BoxOf
<1>5. Exact(T2, O, f)
  <2>1. Kids(T2, f) = {r, s} /\ ~T2[f].leaf
    <3>1. Ids(<<r>>) /\ ASet(<<r>>) = {r}
      BY <1>1, OneId
    <3>2. QED
      BY <3>1, RowGrows DEF Torn, Kids
  <2>2. Held(T2, O, f) = {d.box1, d.box2}
    BY <1>3, <2>1 DEF Held
  <2>3. PICK b1 \in RectT, b2 \in RectT : b1 = d.box1 /\ b2 = d.box2
    BY <1>4
  <2>4. BoxOf(b1, {b1}) /\ BoxOf(b2, {b2})
    BY BoxOfOne
  <2>5. BoxOf(Merge(b1, b2), {b1} \cup {b2})
    BY <2>4, BoxOfBoth
  <2>6. {b1} \cup {b2} = {d.box1, d.box2}
    BY <2>3
  <2>7. QED
    BY <2>2, <2>3, <2>5, <2>6 DEF Exact
<1>6. ASSUME NEW n \in DOMAIN T, n # r, n # f PROVE Exact(T2, O, n)
  BY <1>1, <1>2, <1>6, TornElsewhere
<1>7. DOMAIN T2 = DOMAIN T \cup {s, f}
  BY DEF Torn
<1>8. QED
  BY <1>3, <1>5, <1>6, <1>7 DEF Tight

\* A cut leaves all boxes exact, whoever chose it.
LEMMA CutsBoxes ==
  ASSUME IInv, NowTight, Cuts
  PROVE  NowTight'
<1> DEFINE T == tree_nodes
<1>1. pc # "insert" /\ Overflow /\ Tight(T, objects)
  BY DEF Cuts, NowTight, Splittings
<1>2. PICK d : Divides(d, EntryBoxes(iter), Entries(iter)) /\ Link(d)
  BY DEF Cuts
<1>3. PICK s, f : s = Cardinality(DOMAIN T) /\ LinkDid(d, s, f)
  BY <1>1, <1>2, LinkDoes
<1>4. /\ Whole(T, objects, root, height, minimum_entry, maximum_entry) /\ Stored(objects)
      /\ iter \in DOMAIN T /\ root \in DOMAIN T
  BY TheTree DEF IInv, TreeOK
<1>5. Shares(d, T[iter].kids) /\ Boxed(d, EntryBoxes(iter))
  BY <1>2 DEF Divides, Entries
<1>6. PICK R : R = EntryBoxes(iter)
  OBVIOUS
<1>7. RectsIn(T, objects, iter, R) /\ BoxesOf(R, Kids(T, iter)) = Held(T, objects, iter)
  BY <1>4, <1>6, EntryBoxesAre DEF RectsIn
<1>8. s \in Nat /\ s \notin DOMAIN T /\ s + 1 \notin DOMAIN T
  BY <1>1, <1>2, <1>3, LinkDistinct DEF NodeCount
<1>9. T[iter].kids # <<>>
  <2>1. Overfull(Entries(iter)) /\ maximum_entry \in Nat
    BY <1>1, OverfullNode, TheTree
  <2>2. Len(T[iter].kids) # 0
    BY <2>1 DEF Overfull, Entries
  <2>3. QED
    BY <2>2
<1>10. pc' = "split" /\ objects' = objects
  BY <1>3 DEF LinkDid
<1>11. PICK T2 : T2 = tree_nodes'
  OBVIOUS
<1>12. Tight(T2, objects)
  <2>1. CASE iter # root
    <3>1. /\ f = T[iter].father /\ Torn(T, T2, iter, s, f, d, T[f], maximum_entry)
          /\ T2[f].box = Merge(T[f].box, d.box2)
      BY <1>3, <1>11, <2>1 DEF LinkDid, LinksBelow
    <3>2. QED
      BY <1>1, <1>4, <1>5, <1>6, <1>7, <1>8, <1>9, <2>1, <3>1, BelowTight
  <2>2. CASE iter = root
    <3>1. f = s + 1 /\ T2[f].box = Merge(d.box1, d.box2)
      BY <1>3, <1>11, <2>2 DEF LinkDid, LinksAbove
    <3>2. PICK top : top.kids = <<iter>> /\ Torn(T, T2, iter, s, f, d, top, maximum_entry)
      BY <1>3, <1>11, <2>2 DEF LinkDid, LinksAbove
    <3>3. f \notin DOMAIN T
      BY <1>8, <3>1
    <3>4. QED
      BY <1>1, <1>4, <1>5, <1>6, <1>7, <1>8, <2>2, <3>1, <3>2, <3>3, AboveTight
  <2>3. QED
    BY <2>1, <2>2
<1>13. QED
  BY <1>10, <1>11, <1>12 DEF NowTight

\* On the way up every node is the only child there of the next, and what is
\* beside the way has no child on it.
LEMMA WayApart ==
  ASSUME NEW T, NEW r, NEW h, Skeleton(T, r, h), NEW lev, Levels(T, r, h, lev),
         NEW at, NEW n, Climbs(at, T, h, n, lev)
  PROVE  /\ \A k \in 2..h : \A c \in Kids(T, at[k]) : c \in ASet(at) => c = at[k - 1]
         /\ \A m \in DOMAIN T : ~T[m].leaf /\ m \notin ASet(at) => \A c \in Kids(T, m) : c \notin ASet(at)
<1>1. /\ DOMAIN at = 1..h /\ h \in Nat
      /\ \A k \in 1..h : at[k] \in DOMAIN T /\ lev[at[k]] = k
      /\ \A k \in 2..h : at[k] = T[at[k - 1]].father /\ ~T[at[k]].leaf
  BY DEF Climbs, Skeleton
<1>2. /\ \A m \in DOMAIN T : lev[m] \in 1..h
      /\ \A m \in DOMAIN T : ~T[m].leaf => \A c \in Kids(T, m) : lev[c] = lev[m] - 1 /\ T[c].father = m
  BY DEF Levels, Skeleton
<1>3. ASSUME NEW k \in 2..h, NEW c \in Kids(T, at[k]), c \in ASet(at) PROVE c = at[k - 1]
  <2>1. PICK j \in 1..h : c = at[j]
    BY <1>1, <1>3 DEF ASet
  <2>2. k \in 1..h /\ k - 1 \in 1..h
    BY <1>1
  <2>3. lev[c] = k - 1 /\ lev[c] = j
    BY <1>1, <1>2, <2>1, <2>2
  <2>4. QED
    BY <2>1, <2>3
<1>4. ASSUME NEW m \in DOMAIN T, ~T[m].leaf, m \notin ASet(at), NEW c \in Kids(T, m), c \in ASet(at) PROVE FALSE
  <2>1. PICK j \in 1..h : c = at[j]
    BY <1>1, <1>4 DEF ASet
  <2>2. lev[c] = j /\ lev[c] = lev[m] - 1 /\ T[c].father = m /\ lev[m] \in 1..h
    BY <1>1, <1>2, <1>4, <2>1
  <2>3. PICK k : k = j + 1 /\ k - 1 = j /\ k \in 2..h
    BY <1>1, <2>2
  <2>4. at[k] = m /\ k \in DOMAIN at
    BY <1>1, <2>1, <2>2, <2>3
  <2>5. QED
    BY <1>4, <2>4 DEF ASet
<1>5. QED
  BY <1>3, <1>4

\* Every node on the way from a leaf includes x, and the leaf holds it.
GrowsAlong(T, T2, at, x) ==
  /\ DOMAIN T2 = DOMAIN T
  /\ \A n \in DOMAIN T : /\ T2[n].leaf = T[n].leaf
                         /\ T2[n].box = IF n \in ASet(at) THEN Included(T[n], x) ELSE T[n].box
                         /\ n # at[1] => T2[n].kids = T[n].kids

\* All boxes are exact again.
LEMMA WayGrows ==
  ASSUME NEW T, NEW O, NEW r, NEW h, NEW lo \in Nat, NEW hi, Whole(T, O, r, h, lo, hi), Stored(O), lo >= 1,
         Tight(T, O), NEW lev, Levels(T, r, h, lev), NEW at, NEW i, Climbs(at, T, h, i, lev),
         NEW x \in RectT, NEW T2, GrowsAlong(T, T2, at, x), Held(T2, O, i) = Held(T, O, i) \cup {x}
  PROVE  Tight(T2, O)
<1>1. /\ Skeleton(T, r, h) /\ Roomy(T, r, lo, hi) /\ \A n \in DOMAIN T : T[n] \in NodeT
  BY DEF Whole, Typed
<1>2. /\ DOMAIN at = 1..h /\ at[1] = i /\ h \in Nat /\ h >= 1
      /\ \A k \in 1..h : at[k] \in DOMAIN T
      /\ \A k \in 2..h : ~T[at[k]].leaf /\ at[k - 1] \in Kids(T, at[k]) /\ lev[at[k]] = k
  <2>1. /\ DOMAIN at = 1..h /\ at[1] = i /\ h \in Nat /\ h >= 1
        /\ \A k \in 1..h : at[k] \in DOMAIN T /\ lev[at[k]] = k
        /\ \A k \in 2..h : at[k] = T[at[k - 1]].father /\ ~T[at[k]].leaf
    BY <1>1 DEF Climbs, Skeleton
  <2>2. \A k \in 2..h : at[k - 1] \in Kids(T, at[k])
    BY DEF Climbs
  <2>3. \A k \in 2..h : k \in 1..h
    BY <2>1
  <2>4. QED
    BY <2>1, <2>2, <2>3
<1>3. /\ \A k \in 2..h : \A c \in Kids(T, at[k]) : c \in ASet(at) => c = at[k - 1]
      /\ \A m \in DOMAIN T : ~T[m].leaf /\ m \notin ASet(at) => \A c \in Kids(T, m) : c \notin ASet(at)
  BY <1>1, WayApart
<1>4. ASSUME NEW n \in DOMAIN T, n \in ASet(at)
      PROVE  BoxOf(T2[n].box, Held(T, O, n) \cup {x})
  <2>1. T[n].kids = <<>> => Held(T, O, n) = {}
    <3>1. T[n].kids = <<>> => Kids(T, n) = {}
      BY DEF Kids, ASet
    <3>2. QED
      BY <3>1 DEF Held
  <2>2. \A y \in Held(T, O, n) : y \in RectT
    BY HeldAreRects
  <2>3. BoxOf(Included(T[n], x), Held(T, O, n) \cup {x})
    BY <1>1, <2>1, <2>2, IncludesBox DEF Tight, Exact
  <2>4. QED
    BY <1>4, <2>3 DEF GrowsAlong
<1>5. ASSUME NEW k \in 2..h PROVE Exact(T2, O, at[k])
  <2>1. PICK f \in DOMAIN T : f = at[k] /\ ~T[f].leaf /\ f \in ASet(at) /\ f # i
    <3>1. k \in 1..h /\ k # 1 /\ lev[at[1]] = 1 /\ lev[at[k]] = k
      BY <1>2 DEF Climbs
    <3>2. QED
      BY <1>2, <3>1 DEF ASet
  <2>2. PICK c \in DOMAIN T : c = at[k - 1] /\ c \in Kids(T, f) /\ c \in ASet(at)
    <3>1. k - 1 \in 1..h
      BY <1>2
    <3>2. QED
      BY <1>2, <2>1, <3>1 DEF ASet
  <2>3. T[c].kids # <<>>
    <3>1. c # r
      BY <1>1, <2>1, <2>2 DEF Skeleton
    <3>2. Len(T[c].kids) >= lo
      BY <1>1, <3>1 DEF Roomy
    <3>3. Len(T[c].kids) # 0
      BY <3>2
    <3>4. QED
      BY <3>3
  <2>4. T2[c].box = Merge(T[c].box, x)
    BY <2>2, <2>3 DEF GrowsAlong, Included
  <2>5. Kids(T, f) \subseteq DOMAIN T
    BY <1>1, <2>1 DEF Skeleton
  <2>6. \A m \in Kids(T, f) : m # c => T2[m].box = T[m].box
    BY <1>3, <2>1, <2>2, <2>5 DEF GrowsAlong
  <2>7. ~T2[f].leaf /\ Kids(T2, f) = Kids(T, f)
    BY <1>2, <2>1 DEF GrowsAlong, Kids
  <2>8. BoxOf(T2[f].box, Held(T, O, f) \cup {x})
    BY <1>4, <2>1
  <2>9. \A y \in Held(T, O, f) : y \in RectT
    BY HeldAreRects
  <2>10. BoxOf(T2[f].box, Held(T2, O, f))
    BY <2>1, <2>2, <2>4, <2>6, <2>7, <2>8, <2>9, ChildGrows
  <2>11. QED
    BY <2>1, <2>10 DEF Exact
<1>6. ASSUME NEW n \in DOMAIN T, n \notin ASet(at) PROVE Exact(T2, O, n)
  <2>1. n # i
    <3>1. 1 \in DOMAIN at
      BY <1>2
    <3>2. QED
      BY <1>2, <1>6, <3>1 DEF ASet
  <2>2. T2[n].leaf = T[n].leaf /\ T2[n].box = T[n].box /\ T2[n].kids = T[n].kids /\ Kids(T2, n) = Kids(T, n)
    BY <1>2, <1>6, <2>1 DEF GrowsAlong, Kids
  <2>3. ~T[n].leaf => \A m \in Kids(T, n) : T2[m].box = T[m].box
    BY <1>1, <1>3, <1>6 DEF GrowsAlong, Skeleton
  <2>4. Held(T2, O, n) = Held(T, O, n)
    BY <2>2, <2>3, HeldSame
  <2>5. QED
    BY <2>2, <2>4 DEF Tight, Exact
<1>7. Exact(T2, O, i)
  <2>1. i \in DOMAIN T /\ i \in ASet(at)
    <3>1. 1 \in DOMAIN at /\ 1 \in 1..h
      BY <1>2
    <3>2. QED
      BY <1>2, <3>1 DEF ASet
  <2>2. QED
    BY <1>4, <2>1 DEF Exact
<1>8. ASSUME NEW n \in DOMAIN T PROVE Exact(T2, O, n)
  <2>1. CASE n \in ASet(at)
    <3>1. PICK k \in 1..h : n = at[k]
      BY <1>2, <2>1 DEF ASet
    <3>2. CASE k = 1
      BY <1>2, <1>7, <3>1, <3>2
    <3>3. CASE k # 1
      <4>1. k \in 2..h
        BY <1>2, <3>3
      <4>2. QED
        BY <1>5, <3>1, <4>1
    <3>4. QED
      BY <3>2, <3>3
  <2>2. QED
    BY <1>6, <2>1
<1>9. QED
  BY <1>8 DEF Tight, GrowsAlong

\* TryInsert at a leaf.
LEMMA TryPlaceBoxes ==
  ASSUME IInv, NowTight, TryPlace
  PROVE  NowTight'
<1> DEFINE T == tree_nodes
           T2 == tree_nodes'
<1>1. /\ pc = "try" /\ T[iter].leaf /\ Inserting
      /\ UNCHANGED <<objects, root, height, rec>>
  BY DEF TryPlace, Inserting
<1>2. Tight(T, objects)
  BY <1>1 DEF NowTight
<1>3. /\ Whole(T, objects, root, height, minimum_entry, maximum_entry) /\ iter \in DOMAIN T /\ Stored(objects)
      /\ minimum_entry \in Nat /\ minimum_entry >= 1
      /\ \A n \in DOMAIN T : T[n] \in NodeT /\ Ids(T[n].kids)
  BY TheTree DEF IInv, TreeOK
<1>4. PICK x \in RectT : x = objects[rec] /\ rec \in Nat
  BY <1>1, TheObject
<1>5. CASE Len(T[iter].kids) < maximum_entry
  <2>1. PICK at : at = Path(iter)
    OBVIOUS
  <2>2. /\ T2 = [n \in DOMAIN T |->
               LET node == Include(T[n], x)
               IN  IF n = iter THEN AddChildren(node, rec)
                   ELSE IF n \in ASet(at) THEN node ELSE T[n]]
        /\ pc' = "idle"
    BY <1>4, <1>5, <2>1 DEF TryPlace, Entries
  <2>3. PICK lev : Levels(T, root, height, lev)
    BY <1>3 DEF Whole, Skeleton
  <2>4. Climbs(at, T, height, iter, lev)
    BY <1>1, <1>3, <2>1, <2>3, PathClimbs DEF Whole, LeavesOf
  <2>5. iter \in ASet(at) /\ at[1] = iter
    <3>1. 1 \in 1..height
      BY <1>3, <2>4 DEF Climbs, Whole, Skeleton
    <3>2. QED
      BY <2>4, <3>1 DEF Climbs, ASet
  <2>6. ASSUME NEW n \in DOMAIN T
        PROVE  /\ Include(T[n], x) \in NodeT /\ Include(T[n], x).box = Included(T[n], x)
               /\ Include(T[n], x).kids = T[n].kids /\ Include(T[n], x).leaf = T[n].leaf
    BY <1>3, NodeIncludes DEF IsNode
  <2>7. PICK m \in NodeT : m = Include(T[iter], x)
    BY <1>3, <2>6
  <2>8. /\ T2[iter] = AddChildren(m, rec)
        /\ AddChildren(m, rec).box = m.box /\ AddChildren(m, rec).leaf = m.leaf
        /\ AddChildren(m, rec).kids = Append(m.kids, rec)
    BY <1>3, <1>4, <2>2, <2>7, NodeAdds DEF IsNode
  <2>9. /\ T2[iter].box = Included(T[iter], x) /\ T2[iter].leaf /\ T2[iter].kids = Append(T[iter].kids, rec)
    BY <1>1, <1>3, <2>6, <2>7, <2>8
  <2>10. GrowsAlong(T, T2, at, x)
    <3>1. ASSUME NEW n \in DOMAIN T, n # iter
          PROVE  /\ T2[n].leaf = T[n].leaf
                 /\ T2[n].box = IF n \in ASet(at) THEN Included(T[n], x) ELSE T[n].box
                 /\ T2[n].kids = T[n].kids
      <4>1. T2[n] = IF n \in ASet(at) THEN Include(T[n], x) ELSE T[n]
        BY <2>2, <3>1
      <4>2. QED
        BY <2>6, <4>1
    <3>2. DOMAIN T2 = DOMAIN T
      BY <2>2
    <3>3. ASSUME NEW n \in DOMAIN T
          PROVE  /\ T2[n].leaf = T[n].leaf
                 /\ T2[n].box = IF n \in ASet(at) THEN Included(T[n], x) ELSE T[n].box
                 /\ n # at[1] => T2[n].kids = T[n].kids
      <4>1. CASE n = iter
        BY <1>1, <2>5, <2>9, <4>1
      <4>2. CASE n # iter
        BY <3>1, <4>2
      <4>3. QED
        BY <4>1, <4>2
    <3>4. QED
      BY <3>2, <3>3 DEF GrowsAlong
  <2>11. Kids(T2, iter) = Kids(T, iter) \cup {rec}
    BY <1>3, <1>4, <2>9, RowGrows DEF Kids
  <2>12. Held(T2, objects, iter) = Held(T, objects, iter) \cup {x}
    BY <1>1, <1>4, <2>9, <2>11 DEF Held
  <2>13. Tight(T2, objects)
    BY <1>2, <1>3, <2>3, <2>4, <2>10, <2>12, WayGrows
  <2>14. QED
    BY <1>1, <2>2, <2>13 DEF NowTight
<1>6. CASE ~(Len(T[iter].kids) < maximum_entry)
  <2>1. iter' = root /\ T2 = T
    BY <1>6 DEF TryPlace, Entries
  <2>2. Tight(T2, objects') /\ Whole(T2, objects', root', height', minimum_entry, maximum_entry)
    BY <1>1, <1>2, <1>3, <2>1
  <2>3. QED
    BY <1>1, <2>1, <2>2, BoxesFromRoot
<1>7. QED
  BY <1>5, <1>6

\* A leaf has given up objects: every box on the way up is built anew.
Rebuilt(T, T2, O, at, b, h, low) ==
  /\ DOMAIN T2 = DOMAIN T
  /\ \A n \in DOMAIN T : /\ T2[n].leaf = T[n].leaf
                         /\ n \notin ASet(at) => T2[n].box = T[n].box
                         /\ n # at[1] => T2[n].kids = T[n].kids
  /\ \A k \in 1..h : T2[at[k]].box = b[k]
  /\ T2[at[1]].kids = low

\* All boxes are exact again.
LEMMA WayRebuilt ==
  ASSUME NEW T, NEW O, NEW r, NEW h, NEW lo \in Nat, NEW hi, Whole(T, O, r, h, lo, hi), Stored(O), lo >= 1,
         Tight(T, O), NEW lev, Levels(T, r, h, lev), NEW at, NEW i \in LeavesOf(T), Climbs(at, T, h, i, lev),
         NEW low, Ids(low), low # <<>>, ASet(low) \subseteq DOMAIN O,
         NEW b, BoxesClimb(b, at, T, h, MergeRange(O, low)),
         NEW T2, Rebuilt(T, T2, O, at, b, h, low)
  PROVE  Tight(T2, O)
<1>1. /\ Skeleton(T, r, h) /\ Roomy(T, r, lo, hi) /\ \A n \in DOMAIN T : T[n] \in NodeT /\ Ids(T[n].kids)
      /\ i \in DOMAIN T /\ T[i].leaf
  BY DEF Whole, Typed, LeavesOf, Ids, NodeT
<1>2. /\ DOMAIN at = 1..h /\ at[1] = i /\ h \in Nat /\ h >= 1
      /\ \A k \in 1..h : at[k] \in DOMAIN T
      /\ \A k \in 2..h : ~T[at[k]].leaf /\ at[k - 1] \in Kids(T, at[k])
  BY <1>1 DEF Climbs, Skeleton
<1>3. /\ \A k \in 2..h : \A c \in Kids(T, at[k]) : c \in ASet(at) => c = at[k - 1]
      /\ \A m \in DOMAIN T : ~T[m].leaf /\ m \notin ASet(at) => \A c \in Kids(T, m) : c \notin ASet(at)
  BY <1>1, WayApart
<1>4. Exact(T2, O, i)
  <2>1. \A x \in ASet(low) : O[x] \in RectT
    BY DEF Stored
  <2>2. BoxOf(MergeRange(O, low), BoxesOf(O, ASet(low)))
    BY <2>1, MergeRangeBox
  <2>3. 1 \in 1..h
    BY <1>2
  <2>4. T2[i].box = MergeRange(O, low) /\ T2[i].leaf /\ Kids(T2, i) = ASet(low)
    BY <1>1, <1>2, <2>3 DEF Rebuilt, BoxesClimb, Kids
  <2>5. Held(T2, O, i) = BoxesOf(O, ASet(low))
    BY <2>4 DEF Held, BoxesOf
  <2>6. QED
    BY <2>2, <2>4, <2>5 DEF Exact
<1>5. ASSUME NEW k \in 2..h PROVE Exact(T2, O, at[k])
  <2>1. PICK f \in DOMAIN T : f = at[k] /\ ~T[f].leaf /\ f # i
    <3>1. k \in 1..h
      BY <1>2
    <3>2. QED
      BY <1>1, <1>2, <3>1
  <2>2. PICK c \in DOMAIN T : c = at[k - 1] /\ c \in Kids(T, f)
    <3>1. k - 1 \in 1..h
      BY <1>2
    <3>2. QED
      BY <1>2, <2>1, <3>1
  <2>3. T2[f].box = b[k] /\ T2[c].box = b[k - 1] /\ b[k - 1] \in RectT
    <3>1. k \in 1..h /\ k - 1 \in 1..h
      BY <1>2
    <3>2. QED
      BY <2>1, <2>2, <3>1 DEF Rebuilt, BoxesClimb
  <2>4. Kids(T, f) \subseteq DOMAIN T
    BY <1>1, <2>1 DEF Skeleton
  <2>5. \A m \in Kids(T, f) : m # c => T2[m].box = T[m].box
    BY <1>3, <2>1, <2>2, <2>4 DEF Rebuilt
  <2>6. ~T2[f].leaf /\ T2[f].kids = T[f].kids /\ Kids(T2, f) = Kids(T, f)
    BY <1>2, <2>1 DEF Rebuilt, Kids
  <2>7. PICK R : R = [m \in DOMAIN T |-> IF m = at[k - 1] THEN b[k - 1] ELSE T[m].box]
    OBVIOUS
  <2>8. \A m \in Kids(T, f) : R[m] = T2[m].box
    BY <2>2, <2>3, <2>4, <2>5, <2>7
  <2>9. \A m \in Kids(T, f) : R[m] \in RectT
    BY <1>1, <2>2, <2>3, <2>4, <2>7 DEF NodeT
  <2>10. PICK e : e = T[f].kids /\ Ids(e) /\ e # <<>> /\ ASet(e) = Kids(T, f)
    BY <1>1, <2>2 DEF Kids, ASet
  <2>11. b[k] = MergeRange(R, e)
    BY <2>1, <2>7, <2>10 DEF BoxesClimb
  <2>12. BoxOf(MergeRange(R, e), BoxesOf(R, ASet(e)))
    BY <2>9, <2>10, MergeRangeBox
  <2>13. Held(T2, O, f) = BoxesOf(R, ASet(e))
    BY <2>6, <2>8, <2>10 DEF Held, BoxesOf
  <2>14. QED
    BY <2>1, <2>3, <2>11, <2>12, <2>13 DEF Exact
<1>6. ASSUME NEW n \in DOMAIN T, n \notin ASet(at) PROVE Exact(T2, O, n)
  <2>1. n # i
    <3>1. 1 \in DOMAIN at
      BY <1>2
    <3>2. QED
      BY <1>2, <1>6, <3>1 DEF ASet
  <2>2. T2[n].leaf = T[n].leaf /\ T2[n].box = T[n].box /\ T2[n].kids = T[n].kids /\ Kids(T2, n) = Kids(T, n)
    BY <1>2, <1>6, <2>1 DEF Rebuilt, Kids
  <2>3. ~T[n].leaf => \A m \in Kids(T, n) : T2[m].box = T[m].box
    BY <1>1, <1>3, <1>6 DEF Rebuilt, Skeleton
  <2>4. Held(T2, O, n) = Held(T, O, n)
    BY <2>2, <2>3, HeldSame
  <2>5. QED
    BY <2>2, <2>4 DEF Tight, Exact
<1>7. ASSUME NEW n \in DOMAIN T PROVE Exact(T2, O, n)
  <2>1. CASE n \in ASet(at)
    <3>1. PICK k \in 1..h : n = at[k]
      BY <1>2, <2>1 DEF ASet
    <3>2. CASE k = 1
      BY <1>2, <1>4, <3>1, <3>2
    <3>3. CASE k # 1
      <4>1. k \in 2..h
        BY <1>2, <3>3
      <4>2. QED
        BY <1>5, <3>1, <4>1
    <3>4. QED
      BY <3>2, <3>3
  <2>2. QED
    BY <1>6, <2>1
<1>8. QED
  BY <1>7 DEF Tight, Rebuilt

\* DirectSplitWithReinsert gives boxes back up to the root.
LEMMA ReinsertBoxes ==
  ASSUME IInv, NowTight, DirectSplitWithReinsert
  PROVE  NowTight'
<1> DEFINE T == tree_nodes
           T2 == tree_nodes'
<1>1. pc = "split" /\ Overflow /\ SplitMode = "reinsert" /\ T[iter].leaf
  BY DEF DirectSplitWithReinsert, Splitting, IInv, DriverOK
<1>2. Tight(T, objects)
  BY <1>1 DEF NowTight
<1>3. /\ Whole(T, objects, root, height, minimum_entry, maximum_entry) /\ iter \in DOMAIN T /\ Stored(objects)
      /\ minimum_entry \in Nat /\ minimum_entry >= 1 /\ iter \in LeavesOf(T)
      /\ \A n \in DOMAIN T : T[n] \in NodeT /\ Ids(T[n].kids)
  BY <1>1, TheTree DEF IInv, TreeOK, LeavesOf
<1>4. PICK c : c = RetrieveForReinsert(iter)
  OBVIOUS
<1>5. PICK low : low = c[1]
  OBVIOUS
<1>6. PICK b : b = UpdatedBoxes(iter, MergeRange(objects, low))
  OBVIOUS
<1>7. Reinserts(c, b)
  BY <1>4, <1>5, <1>6, ReinsertUnfolds
<1>8. UNCHANGED <<objects, root, height>> /\ pc' = "insert" /\ iter' = root
  BY <1>7 DEF Reinserts
<1>9. Ids(low) /\ low # <<>> /\ ASet(low) \subseteq DOMAIN objects
  <2>1. GivenUp(c, T[iter].kids, minimum_entry, maximum_entry)
    BY <1>1, <1>4, LeafGivesUp DEF Entries
  <2>2. Len(low) \in minimum_entry..maximum_entry /\ Ids(low) /\ ASet(low) \subseteq Kids(T, iter)
    BY <1>5, <2>1 DEF GivenUp, Kids
  <2>3. Len(low) # 0
    BY <1>3, <2>2, TheTree
  <2>4. Kids(T, iter) \subseteq DOMAIN objects
    BY <1>3 DEF Whole, PlacedIn
  <2>5. QED
    BY <2>2, <2>3, <2>4
<1>10. PICK box \in RectT : box = MergeRange(objects, low)
  <2>1. \A x \in ASet(low) : objects[x] \in RectT
    BY <1>3, <1>9 DEF Stored
  <2>2. QED
    BY <1>9, <2>1, MergeRangeBox DEF BoxOf
<1>11. PICK at : at = Path(iter)
  OBVIOUS
<1>12. PICK lev : Levels(T, root, height, lev)
  BY <1>3 DEF Whole, Skeleton
<1>13. Climbs(at, T, height, iter, lev) /\ BoxesClimb(b, at, T, height, MergeRange(objects, low))
  <2>1. Climbs(at, T, height, iter, lev)
    BY <1>3, <1>11, <1>12, PathClimbs DEF Whole
  <2>2. BoxesClimb(UpdatedBoxes(iter, box), at, T, height, box)
    BY <1>3, <1>11, <1>12, BoxesUpdated
  <2>3. QED
    BY <1>6, <1>10, <2>1, <2>2
<1>14. /\ DOMAIN at = 1..height /\ at[1] = iter /\ height \in Nat /\ height >= 1
       /\ \A k \in 1..height : at[k] \in DOMAIN T /\ lev[at[k]] = k
  BY <1>3, <1>13 DEF Climbs, Whole, Skeleton
<1>15. \A k \in 1..height : BoxAlong(b, at[k]) = b[k]
  <2> SUFFICES ASSUME NEW k \in 1..height PROVE BoxAlong(b, at[k]) = b[k]
    OBVIOUS
  <2>1. at[k] \in ASet(at)
    BY <1>14 DEF ASet
  <2>2. \A j \in 1..height : at[j] = at[k] => j = k
    BY <1>14
  <2>3. (CHOOSE j \in 1..height : at[j] = at[k]) = k
    BY <2>2
  <2>4. QED
    BY <1>11, <2>1, <2>3 DEF BoxAlong
<1>16. \A n \in DOMAIN T : n \notin ASet(at) => BoxAlong(b, n) = T[n].box
  BY <1>11 DEF BoxAlong
<1>17. DOMAIN T2 = DOMAIN T
  BY <1>7 DEF Reinserts
<1>18. ASSUME NEW n \in DOMAIN T
       PROVE  /\ T2[n].box = BoxAlong(b, n) /\ T2[n].leaf = T[n].leaf
              /\ n # iter => T2[n].kids = T[n].kids
              /\ n = iter => T2[n].kids = low
  <2>1. PICK v : v = BoxAlong(b, n)
    OBVIOUS
  <2>2. T2[n] = IF n = iter THEN [[T[n] EXCEPT !.box = v] EXCEPT !.kids = low, !.overflow = FALSE]
                ELSE [T[n] EXCEPT !.box = v]
    BY <1>5, <1>7, <2>1 DEF Reinserts
  <2>3. T[n] \in NodeT
    BY <1>3
  <2>4. QED
    BY <2>1, <2>2, <2>3 DEF NodeT
<1>19. Rebuilt(T, T2, objects, at, b, height, low)
  BY <1>3, <1>14, <1>15, <1>16, <1>17, <1>18 DEF Rebuilt
<1>20. Tight(T2, objects)
  BY <1>2, <1>3, <1>9, <1>12, <1>13, <1>19, WayRebuilt
<1>21. Whole(T2, objects, root, height, minimum_entry, maximum_entry)
  <2>1. IInv'
    BY DirectSplitWithReinsertKeeps
  <2>2. Whole(tree_nodes', objects', root', height', minimum_entry', maximum_entry')
    BY <2>1 DEF IInv, TreeOK
  <2>3. minimum_entry' = minimum_entry /\ maximum_entry' = maximum_entry
    BY <1>7 DEF Reinserts, fixed
  <2>4. QED
    BY <1>8, <2>2, <2>3
<1>22. QED
  BY <1>8, <1>20, <1>21, BoxesFromRoot

\* A new object is in no node yet.
LEMMA InsertRecBoxes ==
  ASSUME IInv, NowTight, InsertRec
  PROVE  NowTight'
<1>1. /\ pc = "idle" /\ iter' = root /\ UNCHANGED <<tree_nodes, root, height, fixed>>
      /\ objects' = [k \in 0..ObjectCount |-> objects'[k]]
      /\ \A k \in 0..ObjectCount : k # ObjectCount => objects'[k] = objects[k]
  BY DEF InsertRec, treeVars
<1>2. /\ Whole(tree_nodes, objects, root, height, minimum_entry, maximum_entry) /\ Tight(tree_nodes, objects)
  BY <1>1, TheTree DEF NowTight
<1>3. PICK n : n = ObjectCount
  OBVIOUS
<1>4. \A k \in DOMAIN objects : k \in 0..n /\ k # n
  <2>1. Numbered(DOMAIN objects) /\ n = Cardinality(DOMAIN objects)
    BY <1>3 DEF IInv, TreeOK, Stored, ObjectCount
  <2>2. n \in Nat /\ DOMAIN objects = 0..n - 1
    BY <2>1, NumberedNext
  <2>3. QED
    BY <2>2
<1>5. \A k \in DOMAIN objects : objects'[k] = objects[k]
  BY <1>1, <1>3, <1>4
<1>6. PICK O2 : O2 = objects'
  OBVIOUS
<1>7. ASSUME NEW m \in DOMAIN tree_nodes PROVE Exact(tree_nodes, O2, m)
  <2>1. tree_nodes[m].leaf => Kids(tree_nodes, m) \subseteq DOMAIN objects
    BY <1>2 DEF Whole, PlacedIn, LeavesOf
  <2>2. Held(tree_nodes, O2, m) = Held(tree_nodes, objects, m)
    BY <1>5, <1>6, <2>1 DEF Held
  <2>3. QED
    BY <1>2, <2>2 DEF Tight, Exact
<1>8. Tight(tree_nodes', objects')
  BY <1>1, <1>6, <1>7 DEF Tight
<1>9. Whole(tree_nodes', objects', root', height', minimum_entry', maximum_entry')
  <2>1. IInv'
    BY InsertRecKeeps
  <2>2. QED
    BY <2>1 DEF IInv, TreeOK
<1>10. iter' = root'
  BY <1>1
<1>11. QED
  BY <1>8, <1>9, <1>10, BoxesFromRoot

\* The empty tree has no boxes to speak of.
LEMMA EmptyTight ==
  ASSUME NEW O
  PROVE  Tight(EmptyTree, O)
<1>1. DOMAIN EmptyTree = {0} /\ EmptyTree[0].kids = <<>>
  BY DEF EmptyTree, TreeNode
<1>2. QED
  BY <1>1 DEF Tight, Exact

\* The boxes hold from the start.
LEMMA BoxesInit ==
  Init => BoxesOK
BY EmptyTight DEF Init, BoxesOK, NowTight, CopyTight

\* A call is made during an insertion and leaves the objects and the copy alone.
LEMMA CallSpares ==
  ASSUME IInv, Call
  PROVE  pc # "idle" /\ objects' = objects /\ copy' = copy
<1> DEFINE Spares == pc # "idle" /\ objects' = objects /\ copy' = copy
<1>1. Inserts => Spares
  BY DEF Inserts, InsertAt
<1>2. Cuts => Spares
  <2>1. SUFFICES ASSUME Cuts PROVE Spares
    OBVIOUS
  <2>2. PICK d : Divides(d, EntryBoxes(iter), Entries(iter)) /\ Link(d)
    BY <2>1 DEF Cuts
  <2>3. PICK s, f : LinkDid(d, s, f)
    BY <2>1, <2>2, LinkDoes DEF Cuts
  <2>4. QED
    BY <2>1, <2>3 DEF LinkDid, Cuts, Splittings
<1>3. NoCut => Spares
  BY DEF NoCut
<1>4. Lists => Spares
  BY DEF Lists, RetrieveSortedInsertStates, RetrieveSortedSplitStates, GetNumberOfNonOverlapSplitLocs,
         RetrieveZeroOVLPSplitStates, Splitting
<1>5. TryDescend \/ TryPlace \/ Settle => Spares
  BY DEF TryDescend, TryPlace, Settle
<1>6. DirectSplitWithReinsert => Spares
  <2>1. DirectSplitWithReinsert => objects' = objects /\ copy' = copy
    BY ReinsertUnfolds DEF Reinserts
  <2>2. DirectSplitWithReinsert => pc # "idle"
    BY DEF DirectSplitWithReinsert, Splitting
  <2>3. QED
    BY <2>1, <2>2
<1>7. QED
  BY <1>1, <1>2, <1>3, <1>4, <1>5, <1>6, CallIs

\* Every call of an insertion keeps the boxes.
LEMMA CallBoxes ==
  ASSUME IInv, BoxesOK, Call
  PROVE  BoxesOK'
<1>1. NowTight /\ CopyTight
  BY DEF BoxesOK
<1>2. NowTight'
  BY <1>1, CallIs, InsertsBoxes, CutsBoxes, ListsBoxes, WaysBoxes, TryPlaceBoxes, ReinsertBoxes
<1>3. CopyTight'
  BY <1>1, CallSpares DEF CopyTight
<1>4. QED
  BY <1>2, <1>3 DEF BoxesOK

\* So do the calls on the whole tree.
LEMMA WholeTreeBoxes ==
  ASSUME IInv, BoxesOK, Clear \/ SaveTree \/ RestoreTree
  PROVE  BoxesOK'
<1>1. /\ pc = "idle" /\ pc' = "idle"
  BY DEF Clear, SaveTree, RestoreTree
<1>2. Tight(tree_nodes, objects) /\ CopyTight
  BY <1>1 DEF BoxesOK, NowTight
<1>3. CASE Clear
  <2>1. tree_nodes' = EmptyTree /\ copy' = copy
    BY <1>3 DEF Clear
  <2>2. QED
    BY <1>1, <1>2, <2>1, EmptyTight DEF BoxesOK, NowTight, CopyTight
<1>4. CASE SaveTree
  <2>1. PICK c : c = [tree_nodes |-> tree_nodes, objects |-> objects, root |-> root, height |-> height]
    OBVIOUS
  <2>2. copy' = {c} /\ UNCHANGED <<tree_nodes, objects>> /\ c.tree_nodes = tree_nodes /\ c.objects = objects
    BY <1>4, <2>1 DEF SaveTree, treeVars
  <2>3. QED
    BY <1>1, <1>2, <2>2 DEF BoxesOK, NowTight, CopyTight
<1>5. CASE RestoreTree
  <2>1. PICK c \in copy : tree_nodes' = c.tree_nodes /\ objects' = c.objects /\ copy' = copy
    BY <1>5 DEF RestoreTree
  <2>2. QED
    BY <1>1, <1>2, <2>1 DEF BoxesOK, NowTight, CopyTight
<1>6. QED
  BY <1>3, <1>4, <1>5

\* And so does every step.
LEMMA BoxesStep ==
  ASSUME IInv, BoxesOK, [Next]_vars
  PROVE  BoxesOK'
<1>1. CASE InsertRec
  <2>1. copy' = copy
    BY <1>1 DEF InsertRec
  <2>2. QED
    BY <1>1, <2>1, InsertRecBoxes DEF BoxesOK, CopyTight
<1>2. CASE UNCHANGED vars
  BY <1>2 DEF vars, treeVars, BoxesOK, NowTight, CopyTight
<1>3. QED
  BY <1>1, <1>2, CallBoxes, WholeTreeBoxes DEF Next

\* A box of more rectangles contains the box of some.
LEMMA MoreContains ==
  ASSUME NEW S, \A x \in S : x \in RectT, NEW a, BoxOf(a, S), NEW U, NEW b, BoxOf(b, S \cup U)
  PROVE  Contains(b, a)
<1>1. a \in RectT /\ b \in RectT
  BY DEF BoxOf
<1>2. PICK x \in S : x.left = a.left
  BY DEF BoxOf
<1>3. PICK y \in S : y.right = a.right
  BY DEF BoxOf
<1>4. PICK z \in S : z.bottom = a.bottom
  BY DEF BoxOf
<1>5. PICK w \in S : w.top = a.top
  BY DEF BoxOf
<1>6. Contains(b, x) /\ Contains(b, y) /\ Contains(b, z) /\ Contains(b, w)
  BY DEF BoxOf
<1>7. QED
  BY <1>2, <1>3, <1>4, <1>5, <1>6 DEF Contains

\* What the boxes are, as TightBoxes states it.
LEMMA TightBoxesFollow ==
  ASSUME IInv, NowTight
  PROVE  /\ TightBoxes
         /\ Tight(tree_nodes, objects) => \A n \in DOMAIN tree_nodes :
                Entries(n) # <<>> => tree_nodes[n].box = MergeRange(EntryBoxes(n), Entries(n))
<1> DEFINE T == tree_nodes
           of(n) == MergeRange(EntryBoxes(n), Entries(n))
<1>1. /\ Whole(T, objects, root, height, minimum_entry, maximum_entry) /\ Stored(objects)
      /\ \A n \in DOMAIN T : T[n] \in NodeT /\ Ids(T[n].kids)
  BY TheTree DEF IInv, TreeOK
<1>2. ASSUME NEW n \in DOMAIN T, Entries(n) # <<>>
      PROVE  /\ BoxOf(of(n), Held(T, objects, n)) /\ \A y \in Held(T, objects, n) : y \in RectT
  <2>1. PICK e : e = Entries(n) /\ Ids(e) /\ ASet(e) = Kids(T, n)
    BY <1>1 DEF Entries, Kids
  <2>2. PICK R : R = EntryBoxes(n)
    OBVIOUS
  <2>3. (\A x \in ASet(e) : R[x] \in RectT) /\ BoxesOf(R, ASet(e)) = Held(T, objects, n)
    BY <2>1, <2>2, EntryBoxesAre
  <2>4. BoxOf(MergeRange(R, e), BoxesOf(R, ASet(e)))
    BY <1>2, <2>1, <2>3, MergeRangeBox
  <2>5. QED
    BY <2>1, <2>2, <2>3, <2>4 DEF BoxesOf
<1> HIDE DEF of
<1>3. ASSUME NEW n \in DOMAIN T, Entries(n) # <<>>, Exact(T, objects, n)
      PROVE  T[n].box = of(n) /\ Contains(T[n].box, of(n))
  <2>1. BoxOf(T[n].box, Held(T, objects, n))
    BY <1>3 DEF Exact, Entries
  <2>2. BoxOf(of(n), Held(T, objects, n)) /\ \A y \in Held(T, objects, n) : y \in RectT
    BY <1>2, <1>3
  <2>3. T[n].box = of(n)
    BY <2>1, <2>2, OneBox
  <2>4. Held(T, objects, n) = Held(T, objects, n) \cup {}
    OBVIOUS
  <2>5. Contains(T[n].box, of(n))
    BY <2>1, <2>2, <2>4, MoreContains
  <2>6. QED
    BY <2>3, <2>5
<1>4. ASSUME NEW n \in DOMAIN T, Entries(n) # <<>>, NEW x, Grown(T, objects, n, x)
      PROVE  Contains(T[n].box, of(n))
  <2>1. BoxOf(T[n].box, Held(T, objects, n) \cup {x})
    BY <1>4 DEF Grown
  <2>2. BoxOf(of(n), Held(T, objects, n)) /\ \A y \in Held(T, objects, n) : y \in RectT
    BY <1>2, <1>4
  <2>3. QED
    BY <2>1, <2>2, MoreContains
<1>5. ASSUME NEW n \in DOMAIN T, Entries(n) # <<>>
      PROVE  IF pc \in {"idle", "try"} THEN T[n].box = of(n) ELSE Contains(T[n].box, of(n))
  <2>1. CASE pc = "insert"
    <3>1. TightBut(T, objects, T[iter].father, objects[rec])
      BY <2>1 DEF NowTight
    <3>2. Exact(T, objects, n) \/ Grown(T, objects, n, objects[rec])
      BY <1>5, <3>1 DEF TightBut
    <3>3. Contains(T[n].box, of(n))
      BY <1>3, <1>4, <1>5, <3>2
    <3>4. QED
      BY <2>1, <3>3
  <2>2. CASE pc # "insert"
    <3>1. Exact(T, objects, n)
      BY <1>5, <2>2 DEF NowTight, Tight
    <3>2. QED
      BY <1>3, <1>5, <3>1
  <2>3. QED
    BY <2>1, <2>2
<1>6. TightBoxes
  BY <1>5 DEF TightBoxes, Nodes, of
<1>7. ASSUME Tight(T, objects) PROVE \A n \in DOMAIN T : Entries(n) # <<>> => T[n].box = of(n)
  BY <1>3, <1>7 DEF Tight
<1>8. QED
  BY <1>6, <1>7 DEF of

\* Every box is exactly the box of the entries below it whenever no insertion
\* is under way, and contains them at every call: Link and UpdateMBRForReinsert
\* give back what a box loses, Include and TryInsert add what it gains, and a
\* father whose child is divided keeps a box that was exact.
THEOREM BoxesStayTight ==
  Spec => []TightBoxes
<1>1. Init => IInv /\ BoxesOK
  BY InitIInv, BoxesInit
<1>2. (IInv /\ BoxesOK) /\ [Next]_vars => (IInv /\ BoxesOK)'
  BY NextKeeps, BoxesStep
<1>3. IInv /\ BoxesOK => TightBoxes
  BY TightBoxesFollow DEF BoxesOK
<1>4. QED
  BY <1>1, <1>2, <1>3, PTL DEF Spec

-------------------------------------------------------------------------------
\* RRSplit finds no cut only where there is no extent to cut along.
Stuck == pc = "undefined" => Overflow /\ WithoutExtent(iter)

LEMMA NoCutWithoutExtent ==
  ASSUME IInv, NowTight, NoCut
  PROVE  WithoutExtent(iter)
<1>1. PICK R, e, node, leaf :
         R = EntryBoxes(iter) /\ e = Entries(iter) /\ node = tree_nodes[iter].box /\ leaf = tree_nodes[iter].leaf
  OBVIOUS
<1>2. pc = "split" /\ Overflow /\ RRCuts(R, e, node, leaf) = {}
  BY <1>1 DEF NoCut
<1>3. Overfull(e) /\ FanOuts /\ iter \in DOMAIN tree_nodes /\ tree_nodes[iter] \in NodeT
  BY <1>1, <1>2, OverfullNode, TheTree
<1>4. \A o \in RROrders(R, e, leaf) : ~(Length(node, o) > 0)
  <2>1. 1 \in 1..CutsPerOrder
    BY <1>3, CutsPositive
  <2>2. ASSUME NEW o \in RROrders(R, e, leaf), Length(node, o) > 0 PROVE FALSE
    <3>1. SweptCut(R, Sorted(R, e, o), 1) \in RRCuts(R, e, node, leaf)
      BY <2>1, <2>2 DEF RRCuts
    <3>2. QED
      BY <1>2, <3>1
  <2>3. QED
    BY <2>2
<1>5. node = MergeRange(R, e)
  <2>1. Tight(tree_nodes, objects)
    BY <1>2 DEF NowTight
  <2>2. e # <<>>
    <3>1. Len(e) = maximum_entry + 1 /\ maximum_entry \in Nat
      BY <1>3 DEF Overfull, FanOuts
    <3>2. Len(<<>>) = 0
      OBVIOUS
    <3>3. QED
      BY <3>1, <3>2
  <2>3. QED
    BY <1>1, <1>3, <2>1, <2>2, TightBoxesFollow
<1>6. \A o \in {"left", "bottom"} : ~(Length(node, o) > 0) => Length(node, o) <= 0
  <2>1. node \in RectT
    BY <1>1, <1>3 DEF NodeT
  <2>2. QED
    BY <2>1, RectFields DEF Length
<1>7. PICK flat : flat = {o \in {"left", "bottom"} : Length(MergeRange(R, e), o) <= 0}
  OBVIOUS
<1>8. leaf => flat # {}
  <2>1. leaf => RROrders(R, e, leaf) \in {{"left"}, {"bottom"}}
    BY DEF RROrders
  <2>2. QED
    BY <1>4, <1>5, <1>6, <1>7, <2>1
<1>9. ~leaf => flat = {"left", "bottom"}
  <2>1. ~leaf => RROrders(R, e, leaf) = {"left", "bottom"}
    BY DEF RROrders
  <2>2. QED
    BY <1>4, <1>5, <1>6, <1>7, <2>1
<1>10. iter \in Leaves <=> leaf
  BY <1>1, <1>3 DEF Leaves, Nodes
<1>11. QED
  BY <1>1, <1>7, <1>8, <1>9, <1>10 DEF WithoutExtent

\* Only such a step leads there, and none leads on.
LEMMA StuckStep ==
  ASSUME IInv, NowTight, Stuck, [Next]_vars
  PROVE  Stuck'
<1>1. CASE NoCut
  <2>1. Overflow /\ WithoutExtent(iter) /\ UNCHANGED <<tree_nodes, objects, iter>>
    BY <1>1, NoCutWithoutExtent DEF NoCut, treeVars
  <2>2. Overflow' /\ WithoutExtent(iter)'
    BY <2>1 DEF Overflow, WithoutExtent, EntryBoxes, Entries, Leaves, Nodes
  <2>3. QED
    BY <2>2 DEF Stuck
<1>2. CASE UNCHANGED vars
  <2>1. UNCHANGED <<tree_nodes, objects, iter, pc>>
    BY <1>2 DEF vars, treeVars
  <2>2. QED
    BY <2>1 DEF Stuck, Overflow, WithoutExtent, EntryBoxes, Entries, Leaves, Nodes
<1>3. CASE InsertRec \/ Clear \/ SaveTree \/ RestoreTree
  <2>1. pc' # "undefined"
    BY <1>3 DEF InsertRec, Clear, SaveTree, RestoreTree
  <2>2. QED
    BY <2>1 DEF Stuck
<1>4. CASE Call /\ ~NoCut
  <2>1. Inserts \/ TryDescend \/ TryPlace \/ Settle => pc' # "undefined"
    BY DEF Inserts, InsertAt, TryDescend, TryPlace, Settle
  <2>2. Cuts => pc' # "undefined"
    <3>1. SUFFICES ASSUME Cuts PROVE pc' # "undefined"
      OBVIOUS
    <3>2. PICK d : Divides(d, EntryBoxes(iter), Entries(iter)) /\ Link(d)
      BY <3>1 DEF Cuts
    <3>3. PICK s, f : LinkDid(d, s, f)
      BY <3>1, <3>2, LinkDoes DEF Cuts
    <3>4. QED
      BY <3>3 DEF LinkDid
  <2>3. Lists => pc' # "undefined"
    BY DEF Lists, RetrieveSortedInsertStates, RetrieveSortedSplitStates, GetNumberOfNonOverlapSplitLocs,
           RetrieveZeroOVLPSplitStates, Splitting
  <2>4. DirectSplitWithReinsert => pc' # "undefined"
    BY DEF DirectSplitWithReinsert, Splitting
  <2>5. pc' # "undefined"
    BY <1>4, <2>1, <2>2, <2>3, <2>4, CallIs
  <2>6. QED
    BY <2>5 DEF Stuck
<1>5. QED
  BY <1>1, <1>2, <1>3, <1>4 DEF Next

\* One well-formed tree follows from the invariant.
LEMMA OneTreeFollows ==
  ASSUME IInv, Stuck
  PROVE  OneTree
<1> DEFINE T == tree_nodes
<1>1. /\ Typed(T) /\ Skeleton(T, root, height) /\ Apart(T) /\ Roomy(T, root, minimum_entry, maximum_entry)
  BY DEF IInv, TreeOK, Whole
<1>2. /\ Nodes = DOMAIN T /\ Leaves = LeavesOf(T)
      /\ \A n : ASet(Entries(n)) = Kids(T, n) /\ Entries(n) = T[n].kids
  BY DEF Nodes, Leaves, LeavesOf, Entries, Kids
<1>3. T[root].father = -1
  BY <1>1 DEF Skeleton
<1>4. \A n \in Nodes \ {root} : \E m \in Nodes \ Leaves : T[n].father = m /\ n \in ASet(Entries(m))
  BY <1>1, <1>2 DEF Skeleton, LeavesOf
<1>5. \A n \in Nodes : Cardinality(ASet(Entries(n))) = Len(Entries(n))
  <2>1. \A n \in Nodes : Ids(Entries(n))
    BY <1>2, TheTree
  <2>2. QED
    BY <2>1, RowCounts
<1>6. \A m, n \in Nodes : m # n /\ (m \in Leaves <=> n \in Leaves) => ASet(Entries(m)) \cap ASet(Entries(n)) = {}
  <2>1. SUFFICES ASSUME NEW m \in Nodes, NEW n \in Nodes, m # n, m \in Leaves <=> n \in Leaves
                 PROVE  Kids(T, m) \cap Kids(T, n) = {}
    BY <1>2
  <2>2. CASE m \in Leaves
    BY <1>1, <1>2, <2>1, <2>2 DEF Apart
  <2>3. CASE m \notin Leaves
    <3>1. ~T[m].leaf /\ ~T[n].leaf
      BY <1>2, <2>1, <2>3 DEF LeavesOf
    <3>2. (\A c \in Kids(T, m) : T[c].father = m) /\ (\A c \in Kids(T, n) : T[c].father = n)
      BY <1>1, <1>2, <3>1 DEF Skeleton
    <3>3. QED
      BY <2>1, <3>2
  <2>4. QED
    BY <2>2, <2>3
<1>7. Linked
  <2>1. LET level[h \in 1..height] ==
              IF h = 1 THEN {root} ELSE UNION {ASet(Entries(m)) : m \in level[h - 1]}
        IN  level[height] = Leaves
    BY <1>1, LevelsReachLeaves
  <2>2. QED
    BY <1>3, <1>4, <1>5, <1>6, <2>1, Zenon DEF Linked
<1>8. FanOut
  <2>1. pc # "exited" /\ (pc = "undefined" => T[iter].overflow /\ WithoutExtent(iter))
    BY DEF IInv, DriverOK, Splittings, Stuck, Overflow
  <2>2. \A n \in Nodes : T[n].overflow => n = iter /\ pc \in {"split", "sorted", "candidates", "action", "weighted", "undefined"}
    BY <1>2 DEF IInv, TreeOK, Splittings
  <2>3. ASSUME NEW n \in Nodes
        PROVE  LET k == Len(Entries(n))
               IN  /\ T[n].overflow <=> k > maximum_entry
                   /\ k > maximum_entry => n = iter /\ pc \in {"split", "sorted", "candidates", "action", "weighted", "undefined"}
                   /\ n # root => k >= minimum_entry
                   /\ n = root /\ n \notin Leaves => k >= 2
    BY <1>1, <1>2, <2>2 DEF Roomy, LeavesOf
  <2>4. QED
    BY <2>1, <2>3 DEF FanOut
<1>9. QED
  BY <1>7, <1>8 DEF OneTree

\* The nodes form one balanced tree and are as full as they may be, at every call
\* in between: no split loses a child, gives it to two nodes or leaves a father
\* field behind, none is refused by CopyChildren, which would end the program,
\* and RRSplit uses the index it has not set only for a leaf whose objects lie
\* on a line, or an inner node on a point.
THEOREM TreeStaysOne ==
  Spec => []OneTree
<1>1. Init => IInv /\ BoxesOK /\ Stuck
  <2>1. Init => pc = "idle"
    BY DEF Init
  <2>2. QED
    BY <2>1, InitIInv, BoxesInit DEF Stuck
<1>2. (IInv /\ BoxesOK /\ Stuck) /\ [Next]_vars => (IInv /\ BoxesOK /\ Stuck)'
  BY NextKeeps, BoxesStep, StuckStep DEF BoxesOK
<1>3. IInv /\ BoxesOK /\ Stuck => OneTree
  BY OneTreeFollows
<1>4. QED
  BY <1>1, <1>2, <1>3, PTL DEF Spec

===============================================================================
