---------------------------- MODULE QuadTreeProofs ----------------------------
(***************************************************************************)
(* The quadtree of QuadTree.tla: its types, the agreement of pointers and  *)
(* buckets, the migration's outcome and the exactness of its queries, for  *)
(* any objects, places, capacity, depth, queries and cells.                *)
(*                                                                         *)
(* The recursive functions of the model (bounds, Resting, Reached, the     *)
(* joining in discardEmptyBuckets) are loops that run at most a fixed      *)
(* number of times.  Loop says that the table of such a loop exists, so    *)
(* that the model's CHOOSE is one; what holds of every entry follows from  *)
(* the least entry of which it does not (LeastNumber, of FiniteSums).      *)
(***************************************************************************)
EXTENDS QuadTree, FiniteSums, SequenceTheorems

-------------------------------------------------------------------------------
\* Paths, children and parents.
Paths == Seq(0..3)
Upto(n, k) == SubSeq(n, 1, k)

LEMMA ChildOf ==
  ASSUME NEW n \in Paths, NEW i \in 0..3
  PROVE  /\ n \o <<i>> \in Paths /\ n \o <<i>> \in children(n)
         /\ Len(n \o <<i>>) = Len(n) + 1 /\ Len(n) \in Nat
         /\ (n \o <<i>>)[Len(n) + 1] = i
         /\ \A k \in 1..Len(n) : (n \o <<i>>)[k] = n[k]
<1>1. <<i>> \in Seq(0..3) /\ Len(<<i>>) = 1 /\ <<i>>[1] = i
  OBVIOUS
<1>2. Len(n) \in Nat
  BY LenProperties DEF Paths
<1>3. /\ n \o <<i>> \in Seq(0..3)
      /\ Len(n \o <<i>>) = Len(n) + Len(<<i>>)
      /\ \A k \in 1 .. Len(n) + Len(<<i>>) : (n \o <<i>>)[k] =
                     IF k <= Len(n) THEN n[k] ELSE <<i>>[k - Len(n)]
  BY <1>1, ConcatProperties DEF Paths
<1>4. QED
  BY <1>1, <1>2, <1>3 DEF Paths, children

\* A bucket is the child of one bucket, under one number.
LEMMA OneParent ==
  ASSUME NEW n \in Paths, NEW m \in Paths, NEW i \in 0..3, NEW j \in 0..3, n \o <<i>> = m \o <<j>>
  PROVE  n = m /\ i = j
<1>1. Len(n) = Len(m) /\ Len(n) \in Nat
  <2>1. Len(n \o <<i>>) = Len(n) + 1 /\ Len(m \o <<j>>) = Len(m) + 1 /\ Len(n) \in Nat /\ Len(m) \in Nat
    BY ChildOf
  <2>2. QED
    BY <2>1
<1>2. i = j
  <2>1. (n \o <<i>>)[Len(n) + 1] = i /\ (m \o <<j>>)[Len(m) + 1] = j
    BY ChildOf
  <2>2. QED
    BY <1>1, <2>1
<1>3. \A k \in 1..Len(n) : n[k] = m[k]
  <2>1. \A k \in 1..Len(n) : (n \o <<i>>)[k] = n[k]
    BY ChildOf
  <2>2. \A k \in 1..Len(m) : (m \o <<j>>)[k] = m[k]
    BY ChildOf
  <2>3. QED
    BY <1>1, <2>1, <2>2
<1>4. n = m
  BY <1>1, <1>3, SeqEqual DEF Paths
<1>5. QED
  BY <1>2, <1>4

LEMMA OneParentOf ==
  ASSUME NEW n \in Paths, NEW m \in Paths, NEW c \in children(n), c \in children(m)
  PROVE  n = m
<1>1. PICK i \in 0..3, j \in 0..3 : c = n \o <<i>> /\ c = m \o <<j>>
  BY DEF children
<1>2. QED
  BY <1>1, OneParent

\* Children are buckets, one level below, and not the root.
LEMMA ChildLevel ==
  ASSUME NEW n \in Paths, NEW c \in children(n)
  PROVE  /\ c \in Paths /\ Len(c) = Len(n) + 1 /\ Len(n) \in Nat /\ c # Root /\ c # n
         /\ \E i \in 0..3 : c = n \o <<i>>
<1>1. PICK i \in 0..3 : c = n \o <<i>>
  BY DEF children
<1>2. c \in Paths /\ Len(c) = Len(n) + 1 /\ Len(n) \in Nat
  BY <1>1, ChildOf
<1>3. Len(Root) = 0
  BY EmptySeq DEF Root
<1>4. QED
  BY <1>1, <1>2, <1>3

\* The first k steps of a path.
LEMMA UptoOf ==
  ASSUME NEW n \in Paths, NEW k \in 0..Len(n)
  PROVE  /\ Upto(n, k) \in Paths /\ Len(Upto(n, k)) = k /\ Len(n) \in Nat
         /\ \A j \in 1..k : Upto(n, k)[j] = n[j]
         /\ Upto(n, 0) = Root /\ Upto(n, Len(n)) = n
         /\ k # 0 => n[k] \in 0..3 /\ Upto(n, k) = Upto(n, k - 1) \o <<n[k]>>
                     /\ Upto(n, k) \in children(Upto(n, k - 1)) /\ Upto(n, k - 1) \in Paths
<1>1. Len(n) \in Nat /\ \A j \in 1..Len(n) : n[j] \in 0..3
  BY LenProperties, ElementOfSeq DEF Paths
<1>2. \A i \in 0..Len(n) : /\ SubSeq(n, 1, i) \in Seq(0..3) /\ Len(SubSeq(n, 1, i)) = i
                           /\ \A j \in 1..i : SubSeq(n, 1, i)[j] = n[j]
  <2> SUFFICES ASSUME NEW i \in 0..Len(n)
               PROVE  /\ SubSeq(n, 1, i) \in Seq(0..3) /\ Len(SubSeq(n, 1, i)) = i
                      /\ \A j \in 1..i : SubSeq(n, 1, i)[j] = n[j]
    OBVIOUS
  <2>1. i \in Int /\ 1 \in Int /\ \A j \in 1..i : n[j] \in 0..3
    BY <1>1
  <2>2. /\ SubSeq(n, 1, i) \in Seq(0..3)
        /\ Len(SubSeq(n, 1, i)) = IF 1 <= i THEN i - 1 + 1 ELSE 0
        /\ \A j \in 1 .. i - 1 + 1 : SubSeq(n, 1, i)[j] = n[1 + j - 1]
    BY <2>1, SubSeqProperties
  <2>3. i - 1 + 1 = i /\ \A j \in 1..i : 1 + j - 1 = j
    BY <1>1
  <2>4. QED
    BY <1>1, <2>2, <2>3
<1>3. Upto(n, 0) = Root
  BY SubSeqEmpty DEF Upto, Root
<1>4. Upto(n, Len(n)) = n
  BY SubSeqFull DEF Upto, Paths
<1>5. ASSUME k # 0
      PROVE  n[k] \in 0..3 /\ Upto(n, k) = Upto(n, k - 1) \o <<n[k]>>
             /\ Upto(n, k) \in children(Upto(n, k - 1)) /\ Upto(n, k - 1) \in Paths
  <2>1. k \in 1..Len(n) /\ 1 \in 1..Len(n) /\ k - 1 \in 0..Len(n)
    BY <1>1, <1>5
  <2>2. SubSeq(n, 1, k) = SubSeq(n, 1, k - 1) \o <<n[k]>>
    BY <2>1, SubSeqRecursiveSecond DEF Paths
  <2>3. n[k] \in 0..3 /\ SubSeq(n, 1, k - 1) \in Seq(0..3)
    BY <1>1, <1>2, <2>1
  <2>4. QED
    BY <2>2, <2>3 DEF Upto, children, Paths
<1>6. QED
  BY <1>1, <1>2, <1>3, <1>4, <1>5 DEF Upto, Paths

LEMMA UptoChild ==
  ASSUME NEW n \in Paths, NEW i \in 0..3, NEW k \in 0..Len(n)
  PROVE  Upto(n \o <<i>>, k) = Upto(n, k)
<1> DEFINE c == n \o <<i>>
<1>1. c \in Paths /\ Len(c) = Len(n) + 1 /\ Len(n) \in Nat /\ \A j \in 1..Len(n) : c[j] = n[j]
  BY ChildOf
<1> HIDE DEF c
<1>2. k \in 0..Len(c)
  BY <1>1
<1>3. Upto(c, k) \in Paths /\ Len(Upto(c, k)) = k /\ \A j \in 1..k : Upto(c, k)[j] = c[j]
  BY <1>1, <1>2, UptoOf
<1>4. Upto(n, k) \in Paths /\ Len(Upto(n, k)) = k /\ \A j \in 1..k : Upto(n, k)[j] = n[j]
  BY UptoOf
<1>5. \A j \in 1..k : Upto(c, k)[j] = Upto(n, k)[j]
  BY <1>1, <1>3, <1>4
<1>6. Upto(c, k) = Upto(n, k)
  BY <1>3, <1>4, <1>5, SeqEqual DEF Paths
<1>7. QED
  BY <1>6 DEF c

\* Every bucket but the root is a child.
LEMMA ParentOf ==
  ASSUME NEW n \in Paths, n # Root
  PROVE  \E m \in Paths : n \in children(m)
<1>1. Len(n) \in Nat /\ Len(n) # 0
  BY EmptySeq, LenProperties DEF Paths, Root
<1>2. Len(n) \in 0..Len(n)
  BY <1>1
<1>3. Upto(n, Len(n)) = n /\ Upto(n, Len(n)) \in children(Upto(n, Len(n) - 1)) /\ Upto(n, Len(n) - 1) \in Paths
  BY <1>1, <1>2, UptoOf
<1>4. QED
  BY <1>3

-------------------------------------------------------------------------------
\* The squares of the buckets.
Squares == [x : Nat, y : Nat, width : Nat, height : Nat]
Whole == Rect(0, 0, Side, Side)
Quarter(a, i) ==
  Rect(IF i \in {0, 3} THEN a.x + a.width \div 2 ELSE a.x,
       IF i \in {2, 3} THEN a.y + a.height \div 2 ELSE a.y, a.width \div 2, a.height \div 2)

LEMMA Squared ==
  /\ Whole \in Squares
  /\ \A a \in Squares : \A i \in 0..3 : Quarter(a, i) \in Squares
<1>1. Whole \in Squares
  BY SideAssumption DEF Whole, Squares, Rect
<1>2. ASSUME NEW a \in Squares, NEW i \in 0..3 PROVE Quarter(a, i) \in Squares
  <2>1. a.x \in Nat /\ a.y \in Nat /\ a.width \in Nat /\ a.height \in Nat
    BY DEF Squares
  <2>2. a.width \div 2 \in Nat /\ a.height \div 2 \in Nat
    BY <2>1
  <2>3. QED
    BY <2>1, <2>2 DEF Quarter, Squares, Rect
<1>3. QED
  BY <1>1, <1>2

\* f holds the squares on the way to n.
Halved(f, n) ==
  /\ f[0] = Whole
  /\ \A k \in 1..Len(n) : f[k] = Quarter(f[k - 1], n[k])

LEMMA BoundsRun ==
  ASSUME NEW n \in Paths
  PROVE  \E f : Halved(f, n) /\ (\A k \in 0..Len(n) : f[k] \in Squares) /\ bounds(n) = f[Len(n)]
<1>1. Len(n) \in Nat /\ \A k \in 1..Len(n) : n[k] \in 0..3
  BY LenProperties, ElementOfSeq DEF Paths
<1>2. PICK G : G = [p \in (1..Len(n)) \X Squares |-> Quarter(p[2], n[p[1]])]
  OBVIOUS
<1>3. /\ G \in [(1..Len(n)) \X Squares -> Squares]
      /\ \A k \in 1..Len(n) : \A a \in Squares : G[<<k, a>>] = Quarter(a, n[k])
  <2>1. \A p \in (1..Len(n)) \X Squares : Quarter(p[2], n[p[1]]) \in Squares
    BY <1>1, Squared
  <2>2. QED
    BY <1>2, <2>1
<1>4. PICK g \in [0..Len(n) -> Squares] : g[0] = Whole /\ \A k \in 1..Len(n) : g[k] = G[<<k, g[k - 1]>>]
  <2>1. Len(n) \in Nat /\ Whole \in Squares /\ G \in [(1..Len(n)) \X Squares -> Squares]
    BY <1>1, <1>3, Squared
  <2>2. LoopRuns(Len(n), Squares, Whole, G)
    BY <2>1, Loop
  <2>3. QED
    BY <2>2 DEF LoopRuns
<1> DEFINE e(f, k) == IF k = 0 THEN Whole ELSE Quarter(f[k - 1], n[k])
<1>5. g = [k \in 0..Len(n) |-> e(g, k)]
  <2>1. \A k \in 0..Len(n) : g[k] = e(g, k)
    <3>1. \A k \in 1..Len(n) : k - 1 \in 0..Len(n)
      BY <1>1
    <3>2. \A k \in 0..Len(n) : k # 0 => k \in 1..Len(n)
      BY <1>1
    <3>3. QED
      BY <1>3, <1>4, <3>1, <3>2
  <2> HIDE DEF e
  <2>2. QED
    BY <1>4, <2>1
<1>6. PICK f : f = CHOOSE of : of = [k \in 0..Len(n) |-> e(of, k)]
  OBVIOUS
<1>7. f = [k \in 0..Len(n) |-> e(f, k)]
  BY <1>5, <1>6, Zenon
<1>8. bounds(n) = f[Len(n)]
  BY <1>6, Zenon DEF bounds, Quarter, Whole
<1>9. Halved(f, n)
  <2>1. \A k \in 0..Len(n) : f[k] = e(f, k)
    <3> HIDE DEF e
    <3>1. QED
      BY <1>7
  <2>2. \A k \in 1..Len(n) : k \in 0..Len(n) /\ k # 0
    BY <1>1
  <2>3. QED
    BY <1>1, <2>1, <2>2 DEF Halved
<1>10. \A k \in 0..Len(n) : f[k] \in Squares
  <2>1. f[0] \in Squares
    BY <1>9, Squared DEF Halved
  <2>2. \A k \in 1..Len(n) : f[k - 1] \in Squares => f[k] = G[<<k, f[k - 1]>>]
    BY <1>3, <1>9 DEF Halved
  <2> HIDE DEF e
  <2>3. QED
    BY <1>1, <1>3, <2>1, <2>2, LoopStays
<1>11. QED
  BY <1>8, <1>9, <1>10

\* The square of a child is a quarter of its parent's.
LEMMA BoundsOf ==
  /\ bounds(Root) = Whole
  /\ \A n \in Paths : bounds(n) \in Squares
  /\ \A n \in Paths : \A i \in 0..3 : bounds(n \o <<i>>) = Quarter(bounds(n), i)
<1>1. bounds(Root) = Whole
  <2>1. Root \in Paths /\ Len(Root) = 0
    BY EmptySeq DEF Root, Paths
  <2>2. QED
    BY <2>1, BoundsRun DEF Halved
<1>2. ASSUME NEW n \in Paths PROVE bounds(n) \in Squares
  <2>1. Len(n) \in 0..Len(n)
    BY LenProperties DEF Paths
  <2>2. QED
    BY <2>1, BoundsRun
<1>3. ASSUME NEW n \in Paths, NEW i \in 0..3 PROVE bounds(n \o <<i>>) = Quarter(bounds(n), i)
  <2>1. PICK c : c = n \o <<i>>
    OBVIOUS
  <2>2. /\ c \in Paths /\ Len(c) = Len(n) + 1 /\ Len(n) \in Nat /\ c[Len(n) + 1] = i
        /\ \A k \in 1..Len(n) : c[k] = n[k]
    BY <2>1, ChildOf
  <2>3. PICK f : Halved(f, n) /\ bounds(n) = f[Len(n)]
    BY BoundsRun
  <2>4. PICK g : Halved(g, c) /\ bounds(c) = g[Len(c)]
    BY <2>2, BoundsRun
  <2> DEFINE off == {k \in 0..Len(n) : f[k] # g[k]}
  <2>5. off = {}
    <3> SUFFICES ASSUME off # {} PROVE FALSE
      OBVIOUS
    <3>1. PICK k \in off : \A j \in off : k <= j
      <4> off \subseteq Nat
        BY <2>2
      <4> HIDE DEF off
      <4>1. QED
        BY LeastNumber
    <3>2. k # 0
      BY <2>3, <2>4 DEF Halved
    <3>3. k \in 1..Len(n) /\ k \in 1..Len(c) /\ k - 1 \in 0..Len(n) /\ ~(k <= k - 1)
      BY <2>2, <3>2
    <3>4. f[k - 1] = g[k - 1]
      BY <3>1, <3>3
    <3>5. f[k] = Quarter(f[k - 1], n[k]) /\ g[k] = Quarter(g[k - 1], c[k]) /\ c[k] = n[k]
      BY <2>2, <2>3, <2>4, <3>3 DEF Halved
    <3>6. f[k] = g[k]
      BY <3>4, <3>5, Zenon
    <3>7. QED
      BY <3>6
  <2>6. f[Len(n)] = g[Len(n)]
    BY <2>2, <2>5
  <2>7. g[Len(n) + 1] = Quarter(g[Len(n) + 1 - 1], c[Len(n) + 1])
    <3>1. Len(n) + 1 \in 1..Len(c)
      BY <2>2
    <3>2. QED
      BY <2>4, <3>1 DEF Halved
  <2>8. Len(n) + 1 - 1 = Len(n)
    BY <2>2
  <2>9. g[Len(c)] = Quarter(f[Len(n)], i)
    BY <2>2, <2>6, <2>7, <2>8, Zenon
  <2>10. QED
    BY <2>1, <2>3, <2>4, <2>9
<1>4. QED
  BY <1>1, <1>2, <1>3

-------------------------------------------------------------------------------
\* The buckets of a tree: the root and four children for each inner bucket.
TreeOf(I) == {Root} \cup UNION {children(n) : n \in I}

\* A tree has inner buckets that hang together and are not too deep, and holds
\* its objects in its buckets.
InnerOK(I) ==
  /\ I \subseteq Paths /\ IsFiniteSet(I) /\ \A n \in I : Len(n) < maxLevel
  /\ \A m \in Paths : \A n \in I : n \in children(m) => m \in I
Shape(t) ==
  /\ t = [objects |-> t.objects, inner |-> t.inner]
  /\ InnerOK(t.inner)
  /\ t.objects \in [TreeOf(t.inner) -> SUBSET Objects]

LEMMA RootPath == Root \in Paths /\ Len(Root) = 0
BY EmptySeq DEF Root, Paths

LEMMA Buckets4 ==
  ASSUME NEW I, InnerOK(I)
  PROVE  /\ TreeOf(I) \subseteq Paths /\ I \subseteq TreeOf(I) /\ Root \in TreeOf(I)
         /\ \A n \in TreeOf(I) : Len(n) \in Nat /\ Len(n) <= maxLevel
         /\ \A n \in Paths : n \in I <=> \E c \in children(n) : c \in TreeOf(I)
         /\ \A n \in Paths : n \in I <=> children(n) \subseteq TreeOf(I)
<1>1. Root \in TreeOf(I) /\ \A n \in I : children(n) \subseteq TreeOf(I)
  BY DEF TreeOf
<1>2. ASSUME NEW n \in TreeOf(I)
      PROVE  n \in Paths /\ Len(n) \in Nat /\ Len(n) <= maxLevel
  <2>1. CASE n = Root
    BY <2>1, RootPath, CapacityAssumption
  <2>2. CASE n # Root
    <3>1. PICK m \in I : n \in children(m)
      BY <2>2 DEF TreeOf
    <3>2. m \in Paths /\ Len(m) < maxLevel
      BY DEF InnerOK
    <3>3. n \in Paths /\ Len(n) = Len(m) + 1 /\ Len(m) \in Nat
      BY <3>1, <3>2, ChildLevel
    <3>4. QED
      BY <3>2, <3>3, CapacityAssumption
  <2>3. QED
    BY <2>1, <2>2
<1>3. I \subseteq TreeOf(I)
  <2> SUFFICES ASSUME NEW n \in I PROVE n \in TreeOf(I)
    OBVIOUS
  <2>1. CASE n = Root
    BY <2>1 DEF TreeOf
  <2>2. CASE n # Root
    <3>1. PICK m \in Paths : n \in children(m)
      BY <2>2, ParentOf DEF InnerOK
    <3>2. m \in I
      BY <3>1 DEF InnerOK
    <3>3. QED
      BY <3>1, <3>2 DEF TreeOf
  <2>3. QED
    BY <2>1, <2>2
<1>4. ASSUME NEW n \in Paths, NEW c \in children(n), c \in TreeOf(I) PROVE n \in I
  <2>1. c # Root
    BY ChildLevel
  <2>2. PICK m \in I : c \in children(m)
    BY <1>4, <2>1 DEF TreeOf
  <2>3. n = m
    BY <2>2, OneParentOf DEF InnerOK
  <2>4. QED
    BY <2>3
<1>5. \A n \in Paths : n \o <<0>> \in children(n)
  BY DEF children
<1>6. \A n \in Paths : n \in I <=> \E c \in children(n) : c \in TreeOf(I)
  BY <1>1, <1>4, <1>5
<1>7. \A n \in Paths : n \in I <=> children(n) \subseteq TreeOf(I)
  BY <1>1, <1>4, <1>5
<1>8. QED
  BY <1>1, <1>2, <1>3, <1>6, <1>7

\* One more inner bucket, and the buckets that come with it.
LEMMA OneMore ==
  ASSUME NEW I, InnerOK(I), NEW n \in TreeOf(I), Len(n) < maxLevel
  PROVE  InnerOK(I \cup {n}) /\ TreeOf(I \cup {n}) = TreeOf(I) \cup children(n)
<1>1. n \in Paths
  BY Buckets4
<1>2. ASSUME NEW m \in Paths, NEW c \in I \cup {n}, c \in children(m) PROVE m \in I \cup {n}
  <2>1. c \in TreeOf(I)
    BY Buckets4
  <2>2. m \in I
    BY <1>2, <2>1, Buckets4
  <2>3. QED
    BY <2>2
<1>3. InnerOK(I \cup {n})
  <2>1. IsFiniteSet(I \cup {n})
    BY FS_AddElement DEF InnerOK
  <2>2. QED
    BY <1>1, <1>2, <2>1 DEF InnerOK
<1>4. TreeOf(I \cup {n}) = TreeOf(I) \cup children(n)
  BY DEF TreeOf
<1>5. QED
  BY <1>3, <1>4

LEMMA OneLess ==
  ASSUME NEW I, InnerOK(I), NEW n, \A c \in children(n) : c \notin I
  PROVE  InnerOK(I \ {n})
<1>1. IsFiniteSet(I \ {n})
  BY FS_Subset DEF InnerOK
<1>2. QED
  BY <1>1 DEF InnerOK

-------------------------------------------------------------------------------
\* Where an insertion goes from bucket n of a tree with inner buckets I.
Deeper(I, n, a) == IF n \in I /\ getChild(n, a) >= 0 THEN n \o <<getChild(n, a)>> ELSE n

\* Bucket n is on the way of rectangle a.
OnWay(n, a) == \A k \in 1..Len(n) : n[k] = getChild(Upto(n, k - 1), a)

LEMMA ChildNumber ==
  ASSUME NEW n, NEW a
  PROVE  getChild(n, a) \in (-1)..3
<1> DEFINE left == a.x + a.width < getRight(bounds(n))
           right == a.x > getRight(bounds(n))
           top == a.y + a.height < getTop(bounds(n))
           bottom == a.y > getTop(bounds(n))
<1>1. getChild(n, a) = CASE top /\ left -> 1 [] top /\ right -> 0
                         [] bottom /\ left -> 2 [] bottom /\ right -> 3
                         [] OTHER -> -1
  BY DEF getChild
<1> HIDE DEF left, right, top, bottom
<1>2. QED
  BY <1>1

LEMMA WayDown ==
  ASSUME NEW n \in Paths, NEW a, OnWay(n, a), getChild(n, a) >= 0
  PROVE  /\ n \o <<getChild(n, a)>> \in children(n) /\ n \o <<getChild(n, a)>> \in Paths
         /\ OnWay(n \o <<getChild(n, a)>>, a)
<1>1. PICK i : i = getChild(n, a)
  OBVIOUS
<1>2. i \in 0..3
  BY <1>1, ChildNumber
<1>3. PICK c : c = n \o <<i>>
  OBVIOUS
<1>4. /\ c \in Paths /\ c \in children(n) /\ Len(c) = Len(n) + 1 /\ Len(n) \in Nat
      /\ c[Len(n) + 1] = i /\ \A k \in 1..Len(n) : c[k] = n[k]
  BY <1>2, <1>3, ChildOf
<1>5. \A k \in 0..Len(n) : Upto(c, k) = Upto(n, k)
  BY <1>2, <1>3, UptoChild
<1>6. ASSUME NEW k \in 1..Len(c) PROVE c[k] = getChild(Upto(c, k - 1), a)
  <2>1. CASE k = Len(n) + 1
    <3>1. k - 1 = Len(n) /\ Upto(c, Len(n)) = Upto(n, Len(n)) /\ Upto(n, Len(n)) = n
      <4>1. k - 1 = Len(n) /\ Len(n) \in 0..Len(n)
        BY <1>4, <2>1
      <4>2. QED
        BY <1>5, <4>1, UptoOf
    <3>2. QED
      BY <1>1, <1>4, <2>1, <3>1
  <2>2. CASE k # Len(n) + 1
    <3>1. k \in 1..Len(n) /\ k - 1 \in 0..Len(n)
      BY <1>4, <2>2
    <3>2. Upto(c, k - 1) = Upto(n, k - 1) /\ c[k] = n[k]
      BY <1>4, <1>5, <3>1
    <3>3. n[k] = getChild(Upto(n, k - 1), a)
      BY <3>1 DEF OnWay
    <3>4. QED
      BY <3>2, <3>3
  <2>3. QED
    BY <2>1, <2>2
<1>7. OnWay(c, a)
  BY <1>6 DEF OnWay
<1>8. QED
  BY <1>1, <1>3, <1>4, <1>7

\* The buckets an insertion passes.
Passed(f, I, a) ==
  /\ f[0] = Root
  /\ \A k \in 1..maxLevel : f[k] = Deeper(I, f[k - 1], a)
  /\ \A k \in 0..maxLevel : f[k] \in TreeOf(I) /\ OnWay(f[k], a)

LEMMA RestingRun ==
  ASSUME NEW t, InnerOK(t.inner), NEW a
  PROVE  \E f : Passed(f, t.inner, a) /\ Resting(t, a) = f[maxLevel]
<1> DEFINE I == t.inner
           V == {n \in TreeOf(I) : OnWay(n, a)}
<1>1. Root \in V
  <2>1. OnWay(Root, a)
    <3>1. 1..0 = {}
      OBVIOUS
    <3>2. QED
      BY <3>1, RootPath DEF OnWay
  <2>2. QED
    BY <2>1, Buckets4
<1>2. ASSUME NEW n \in V PROVE Deeper(I, n, a) \in V
  <2>1. n \in Paths /\ OnWay(n, a) /\ n \in TreeOf(I)
    BY Buckets4
  <2>2. CASE n \in I /\ getChild(n, a) >= 0
    <3>1. /\ n \o <<getChild(n, a)>> \in children(n)
          /\ OnWay(n \o <<getChild(n, a)>>, a)
      BY <2>1, <2>2, WayDown
    <3>2. n \o <<getChild(n, a)>> \in TreeOf(I)
      BY <2>2, <3>1 DEF TreeOf
    <3>3. QED
      BY <2>2, <3>1, <3>2 DEF Deeper
  <2>3. CASE ~(n \in I /\ getChild(n, a) >= 0)
    BY <2>3 DEF Deeper
  <2>4. QED
    BY <2>2, <2>3
<1>3. PICK G : G = [p \in (1..maxLevel) \X V |-> Deeper(I, p[2], a)]
  OBVIOUS
<1>4. /\ G \in [(1..maxLevel) \X V -> V]
      /\ \A k \in 1..maxLevel : \A n \in V : G[<<k, n>>] = Deeper(I, n, a)
  <2> HIDE DEF V
  <2>1. \A p \in (1..maxLevel) \X V : Deeper(I, p[2], a) \in V
    BY <1>2
  <2>2. QED
    BY <1>3, <2>1
<1>5. PICK g \in [0..maxLevel -> V] :
        g[0] = Root /\ \A k \in 1..maxLevel : g[k] = G[<<k, g[k - 1]>>]
  <2> HIDE DEF V
  <2>1. LoopRuns(maxLevel, V, Root, G)
    BY <1>1, <1>4, CapacityAssumption, Loop
  <2>2. QED
    BY <2>1 DEF LoopRuns
<1> DEFINE e(f, k) == IF k = 0 THEN Root
                      ELSE IF f[k - 1] \in t.inner /\ getChild(f[k - 1], a) >= 0
                           THEN f[k - 1] \o <<getChild(f[k - 1], a)>> ELSE f[k - 1]
<1>6. \A f : \A k \in 1..maxLevel : e(f, k) = Deeper(I, f[k - 1], a)
  BY DEF Deeper
<1>7. g = [k \in 0..maxLevel |-> e(g, k)]
  <2>1. \A k \in 0..maxLevel : g[k] = e(g, k)
    <3>1. \A k \in 1..maxLevel : g[k] = e(g, k)
      <4> HIDE DEF e, V
      <4>1. \A k \in 1..maxLevel : k - 1 \in 0..maxLevel
        BY CapacityAssumption
      <4>2. \A k \in 1..maxLevel : g[k] = Deeper(I, g[k - 1], a)
        BY <1>4, <1>5, <4>1
      <4>3. QED
        BY <1>6, <4>2
    <3>2. \A k \in 0..maxLevel : k # 0 => k \in 1..maxLevel
      BY CapacityAssumption
    <3>3. e(g, 0) = g[0]
      BY <1>5
    <3> HIDE DEF e
    <3>4. QED
      BY <3>1, <3>2, <3>3
  <2> HIDE DEF e, V
  <2>2. QED
    BY <1>5, <2>1
<1>8. PICK f : f = CHOOSE at : at = [k \in 0..maxLevel |-> e(at, k)]
  OBVIOUS
<1>9. f = [k \in 0..maxLevel |-> e(f, k)]
  <2> HIDE DEF e
  <2>1. QED
    BY <1>7, <1>8, Zenon
<1>10. Resting(t, a) = f[maxLevel]
  BY <1>8, Zenon DEF Resting
<1>11. f[0] = Root /\ \A k \in 1..maxLevel : f[k] = Deeper(I, f[k - 1], a)
  <2>1. \A k \in 0..maxLevel : f[k] = e(f, k)
    <3> HIDE DEF e
    <3>1. QED
      BY <1>9
  <2>2. \A k \in 1..maxLevel : k \in 0..maxLevel
    OBVIOUS
  <2>3. 0 \in 0..maxLevel /\ e(f, 0) = Root
    BY CapacityAssumption
  <2> HIDE DEF e
  <2>4. QED
    BY <1>6, <2>1, <2>2, <2>3
<1>12. \A k \in 0..maxLevel : f[k] \in V
  <2> HIDE DEF V
  <2>1. \A k \in 1..maxLevel : f[k - 1] \in V => f[k] = G[<<k, f[k - 1]>>]
    BY <1>4, <1>11
  <2>2. f[0] \in V
    BY <1>1, <1>11
  <2>3. QED
    BY <1>4, <2>1, <2>2, CapacityAssumption, LoopStays
<1>13. QED
  BY <1>10, <1>11, <1>12 DEF Passed

\* Insertion comes to rest in a bucket of the tree that is on its way.
LEMMA RestingIn ==
  ASSUME NEW t, InnerOK(t.inner), NEW a
  PROVE  Resting(t, a) \in TreeOf(t.inner) /\ OnWay(Resting(t, a), a)
BY RestingRun, CapacityAssumption DEF Passed

\* Where the way ends in a leaf that is then subdivided, it goes on to one of
\* the leaf's children at most.
LEMMA RestingBelow ==
  ASSUME NEW t, InnerOK(t.inner), NEW a, NEW n, n = Resting(t, a), n \notin t.inner, Len(n) < maxLevel,
         NEW s, s.inner = t.inner \cup {n}
  PROVE  Resting(s, a) \in {n} \cup children(n)
<1> DEFINE I == t.inner
<1>1. n \in TreeOf(I) /\ n \in Paths
  BY RestingIn, Buckets4
<1>2. InnerOK(s.inner)
  <2>1. InnerOK(t.inner \cup {n})
    BY <1>1, OneMore
  <2>2. QED
    BY <2>1
<1>3. PICK f : Passed(f, I, a) /\ Resting(t, a) = f[maxLevel]
  BY RestingRun
<1>4. PICK g : Passed(g, s.inner, a) /\ Resting(s, a) = g[maxLevel]
  BY <1>2, RestingRun
<1>5. ASSUME NEW k \in 0..maxLevel, f[k] \notin I PROVE f[k] = n
  <2> DEFINE off == {j \in k..maxLevel : f[j] # f[k]}
  <2>1. off = {}
    <3> SUFFICES ASSUME off # {} PROVE FALSE
      OBVIOUS
    <3>1. PICK j \in off : \A i \in off : j <= i
      <4> off \subseteq Nat
        OBVIOUS
      <4> HIDE DEF off
      <4>1. QED
        BY LeastNumber
    <3>2. j \in 1..maxLevel /\ j - 1 \in k..maxLevel /\ ~(j <= j - 1)
      <4>1. j # k
        OBVIOUS
      <4>2. QED
        BY <4>1, CapacityAssumption
    <3>3. f[j - 1] = f[k]
      BY <3>1, <3>2
    <3>4. f[j] = Deeper(I, f[j - 1], a)
      BY <1>3, <3>2 DEF Passed
    <3>5. QED
      BY <1>5, <3>3, <3>4 DEF Deeper
  <2>2. maxLevel \in k..maxLevel
    BY CapacityAssumption
  <2>3. QED
    BY <1>3, <2>1, <2>2
<1> DEFINE off == {k \in 0..maxLevel : ~(g[k] = f[k] \/ g[k] \in children(n))}
<1>6. off = {}
  <2> SUFFICES ASSUME off # {} PROVE FALSE
    OBVIOUS
  <2>1. PICK k \in off : \A i \in off : k <= i
    <3> off \subseteq Nat
      OBVIOUS
    <3> HIDE DEF off
    <3>1. QED
      BY LeastNumber
  <2>2. k # 0
    BY <1>3, <1>4 DEF Passed
  <2>3. k \in 1..maxLevel /\ k - 1 \in 0..maxLevel /\ ~(k <= k - 1)
    BY <2>2, CapacityAssumption
  <2>4. g[k - 1] = f[k - 1] \/ g[k - 1] \in children(n)
    BY <2>1, <2>3
  <2>5. f[k] = Deeper(I, f[k - 1], a) /\ g[k] = Deeper(I \cup {n}, g[k - 1], a)
    BY <1>3, <1>4, <2>3 DEF Passed
  <2>6. CASE g[k - 1] \in children(n)
    <3>1. g[k - 1] \notin I \cup {n}
      <4>1. g[k - 1] # n
        BY <1>1, <2>6, ChildLevel
      <4>2. g[k - 1] \in I => n \in I
        BY <1>1, <2>6 DEF InnerOK
      <4>3. QED
        BY <4>1, <4>2
    <3>2. QED
      BY <2>5, <2>6, <3>1 DEF Deeper
  <2>7. CASE g[k - 1] = f[k - 1] /\ f[k - 1] \in I
    BY <2>5, <2>7 DEF Deeper
  <2>8. CASE g[k - 1] = f[k - 1] /\ f[k - 1] \notin I
    <3>1. f[k - 1] = n
      BY <1>5, <2>3, <2>8
    <3>2. f[k] = n
      BY <2>5, <2>8, <3>1 DEF Deeper
    <3>3. g[k] = n \/ g[k] \in children(n)
      <4>1. g[k] = Deeper(I \cup {n}, n, a)
        BY <2>5, <2>8, <3>1
      <4>2. getChild(n, a) >= 0 => getChild(n, a) \in 0..3
        BY ChildNumber
      <4>3. QED
        BY <4>1, <4>2 DEF Deeper, children
    <3>4. QED
      BY <3>2, <3>3
  <2>9. QED
    BY <2>4, <2>6, <2>7, <2>8
<1>7. maxLevel \in 0..maxLevel
  BY CapacityAssumption
<1>8. QED
  BY <1>3, <1>4, <1>6, <1>7

-------------------------------------------------------------------------------
\* Pointers and buckets agree, and no bucket is full or hollow that should not be.
Pointed(t, q) ==
  \A o \in Objects : /\ q[o] \in TreeOf(t.inner) \cup {Nowhere}
                     /\ \A n \in TreeOf(t.inner) : o \in t.objects[n] <=> q[o] = n
Roomy(t) ==
  \A n \in TreeOf(t.inner) \ t.inner : Len(n) < maxLevel => Cardinality(t.objects[n]) < capacity
Sound(t, q) == Shape(t) /\ Pointed(t, q) /\ Roomy(t) /\ \A n \in t.inner : ~Hollow(t, n)

\* What is in a bucket can be counted.
LEMMA BucketFinite ==
  ASSUME NEW S, S \subseteq Objects
  PROVE  IsFiniteSet(S) /\ Cardinality(S) \in Nat /\ Cardinality({}) = 0
BY ObjectsAssumption, FS_Subset, FS_CardinalityType, FS_EmptySet

\* Subdividing a full leaf is sound and makes room.
LEMMA SubdividedSound ==
  ASSUME NEW t, NEW q, Sound(t, q), NEW a, NEW s, s = Subdivided(t, a), NEW r, r = Resting(s, a)
  PROVE  /\ Sound(s, q) /\ r \in TreeOf(s.inner) /\ OnWay(r, a)
         /\ r \in s.inner \/ Len(r) = maxLevel \/ Cardinality(s.objects[r]) + 1 < capacity
<1>1. PICK n : n = Resting(t, a)
  OBVIOUS
<1>2. PICK I : I = t.inner
  OBVIOUS
<1>3. /\ InnerOK(I) /\ t = [objects |-> t.objects, inner |-> I]
      /\ t.objects \in [TreeOf(I) -> SUBSET Objects]
  BY <1>2 DEF Sound, Shape
<1>4. n \in TreeOf(I) /\ n \in Paths /\ Len(n) \in Nat /\ Len(n) <= maxLevel
  BY <1>1, <1>2, <1>3, RestingIn, Buckets4
<1>5. InnerOK(s.inner) => r \in TreeOf(s.inner) /\ OnWay(r, a)
  BY RestingIn
<1>6. CASE ~Full(t, n)
  <2>1. s = t /\ r = n
    BY <1>1, <1>6 DEF Subdivided
  <2>2. r \in s.inner \/ Len(r) = maxLevel \/ Cardinality(s.objects[r]) + 1 < capacity
    <3>1. t.objects[n] \subseteq Objects
      BY <1>3, <1>4
    <3>2. Cardinality(t.objects[n]) \in Nat
      BY <3>1, BucketFinite
    <3>3. n \in t.inner \/ Len(n) = maxLevel \/ Cardinality(t.objects[n]) + 1 < capacity
      BY <1>4, <1>6, <3>2, CapacityAssumption DEF Full
    <3>4. QED
      BY <2>1, <3>3
  <2>3. QED
    BY <1>2, <1>3, <1>5, <2>1, <2>2
<1>7. CASE Full(t, n)
  <2>1. n \notin I /\ Len(n) < maxLevel /\ Cardinality(t.objects[n]) + 1 >= capacity
    BY <1>2, <1>7 DEF Full
  <2>2. s = subdivide(t, n)
    BY <1>1, <1>7 DEF Subdivided
  <2>3. InnerOK(I \cup {n}) /\ TreeOf(I \cup {n}) = TreeOf(I) \cup children(n)
    BY <1>3, <1>4, <2>1, OneMore
  <2>4. \A c \in children(n) : c \notin TreeOf(I) /\ c # n
    BY <1>3, <1>4, <2>1, Buckets4, ChildLevel
  <2>5. /\ s = [objects |-> s.objects, inner |-> I \cup {n}] /\ s.inner = I \cup {n}
        /\ DOMAIN s.objects = TreeOf(I) \cup children(n)
        /\ \A m \in children(n) : s.objects[m] = {}
        /\ \A m \in TreeOf(I) : s.objects[m] = t.objects[m]
    <3>1. DOMAIN t.objects = TreeOf(I)
      BY <1>3
    <3>2. /\ s.inner = I \cup {n}
          /\ s.objects = [m \in TreeOf(I) \cup children(n) |->
                            IF m \in children(n) THEN {} ELSE t.objects[m]]
          /\ s = [objects |-> s.objects, inner |-> s.inner]
      BY <1>2, <2>2, <3>1 DEF subdivide
    <3>3. QED
      BY <2>4, <3>2
  <2>6. Shape(s)
    <3>1. \A m \in TreeOf(I) \cup children(n) : s.objects[m] \in SUBSET Objects
      BY <1>3, <2>5
    <3>2. s.objects \in [TreeOf(I) \cup children(n) -> SUBSET Objects]
      <4>1. s.objects = [m \in DOMAIN s.objects |-> s.objects[m]]
        BY <1>2, <2>2 DEF subdivide
      <4>2. QED
        BY <2>5, <3>1, <4>1
    <3>3. QED
      BY <2>3, <2>5, <3>2 DEF Shape
  <2>7. Pointed(s, q)
    <3> SUFFICES ASSUME NEW o \in Objects
                 PROVE  /\ q[o] \in TreeOf(s.inner) \cup {Nowhere}
                        /\ \A m \in TreeOf(s.inner) : o \in s.objects[m] <=> q[o] = m
      BY DEF Pointed
    <3>1. q[o] \in TreeOf(I) \cup {Nowhere} /\ \A m \in TreeOf(I) : o \in t.objects[m] <=> q[o] = m
      BY <1>2 DEF Sound, Pointed
    <3>2. \A m \in children(n) : m \in Paths /\ q[o] # m
      BY <1>4, <2>4, <3>1, ChildLevel, NowhereAssumption DEF Paths
    <3>3. ASSUME NEW m \in TreeOf(I) \cup children(n) PROVE o \in s.objects[m] <=> q[o] = m
      <4>1. CASE m \in children(n)
        BY <2>5, <3>2, <4>1
      <4>2. CASE m \in TreeOf(I)
        <5>1. s.objects[m] = t.objects[m]
          BY <2>5, <4>2
        <5>2. QED
          BY <3>1, <4>2, <5>1
      <4>3. QED
        BY <4>1, <4>2
    <3>4. TreeOf(s.inner) = TreeOf(I) \cup children(n)
      BY <2>3, <2>5
    <3>5. QED
      BY <3>1, <3>3, <3>4
  <2>8. \A m \in children(n) : Cardinality(s.objects[m]) = 0
    BY <2>5, FS_EmptySet
  <2>9. Roomy(s)
    <3> SUFFICES ASSUME NEW m \in TreeOf(s.inner) \ s.inner, Len(m) < maxLevel
                 PROVE  Cardinality(s.objects[m]) < capacity
      BY DEF Roomy
    <3>1. CASE m \in children(n)
      BY <2>8, <3>1, CapacityAssumption
    <3>2. CASE m \notin children(n)
      <4>1. m \in TreeOf(I) \ I /\ s.objects[m] = t.objects[m]
        BY <2>3, <2>5, <3>2
      <4>2. QED
        BY <1>2, <4>1 DEF Sound, Roomy
    <3>3. QED
      BY <3>1, <3>2
  <2>10. ASSUME NEW m \in s.inner, Hollow(s, m) PROVE FALSE
    <3>1. m \in I \cup {n} /\ s.objects[m] = {} /\ \A c \in children(m) : c \notin s.inner /\ s.objects[c] = {}
      BY <2>5, <2>10 DEF Hollow
    <3>2. CASE m = n
      <4>1. t.objects[n] = {}
        BY <1>4, <2>5, <3>1, <3>2
      <4>2. QED
        BY <2>1, <4>1, FS_EmptySet, CapacityAssumption
    <3>3. CASE m # n
      <4>1. m \in I /\ m \in TreeOf(I) /\ children(m) \subseteq TreeOf(I)
        BY <1>3, <3>1, <3>3, Buckets4 DEF TreeOf
      <4>2. t.objects[m] = {} /\ \A c \in children(m) : c \notin I /\ t.objects[c] = {}
        BY <2>5, <3>1, <4>1
      <4>3. QED
        BY <1>2, <4>1, <4>2 DEF Sound, Hollow
    <3>4. QED
      BY <3>2, <3>3
  <2>11. r \in s.inner \/ Len(r) = maxLevel \/ Cardinality(s.objects[r]) + 1 < capacity
    <3>1. r \in {n} \cup children(n)
      BY <1>1, <1>2, <1>3, <2>1, <2>5, RestingBelow
    <3>2. QED
      BY <2>5, <2>8, <3>1, CapacityAssumption
  <2>12. Sound(s, q)
    BY <2>6, <2>7, <2>9, <2>10 DEF Sound
  <2>13. QED
    BY <1>5, <2>3, <2>5, <2>11, <2>12
<1>8. QED
  BY <1>6, <1>7

\* Insertion is sound.
LEMMA InsertedSound ==
  ASSUME NEW t, NEW q, DOMAIN q = Objects, Sound(t, q), NEW o \in Objects, q[o] = Nowhere, NEW a
  PROVE  /\ Sound(Inserted(t, o, a), [q EXCEPT ![o] = Resting(Subdivided(t, a), a)])
         /\ OnWay(Resting(Subdivided(t, a), a), a)
<1>1. PICK s : s = Subdivided(t, a)
  OBVIOUS
<1>2. PICK r : r = Resting(s, a)
  OBVIOUS
<1>3. /\ Sound(s, q) /\ r \in TreeOf(s.inner) /\ OnWay(r, a)
      /\ r \in s.inner \/ Len(r) = maxLevel \/ Cardinality(s.objects[r]) + 1 < capacity
  BY <1>1, <1>2, SubdividedSound
<1>4. PICK I : I = s.inner
  OBVIOUS
<1>5. /\ InnerOK(I) /\ s = [objects |-> s.objects, inner |-> I]
      /\ s.objects \in [TreeOf(I) -> SUBSET Objects] /\ r \in TreeOf(I)
  BY <1>3, <1>4 DEF Sound, Shape
<1>6. PICK u : u = Inserted(t, o, a)
  OBVIOUS
<1>7. u = [s EXCEPT !.objects[r] = @ \cup {o}]
  BY <1>1, <1>2, <1>6 DEF Inserted
<1>8. /\ u = [objects |-> u.objects, inner |-> I] /\ u.inner = I
      /\ u.objects = [s.objects EXCEPT ![r] = s.objects[r] \cup {o}]
  <2>1. PICK x : x = s.objects
    OBVIOUS
  <2>2. s = [objects |-> x, inner |-> I]
    BY <1>5, <2>1
  <2>3. u = [objects |-> [x EXCEPT ![r] = x[r] \cup {o}], inner |-> I]
    BY <1>7, <2>2
  <2>4. QED
    BY <2>1, <2>3
<1>9. /\ u.objects \in [TreeOf(I) -> SUBSET Objects]
      /\ u.objects[r] = s.objects[r] \cup {o}
      /\ \A m \in TreeOf(I) \ {r} : u.objects[m] = s.objects[m]
  BY <1>5, <1>8
<1>10. Shape(u)
  BY <1>5, <1>8, <1>9 DEF Shape
<1>11. Pointed(u, [q EXCEPT ![o] = r])
  <2>1. r # Nowhere /\ r \in Paths /\ TreeOf(I) \subseteq Paths /\ Nowhere \notin Paths
    BY <1>5, Buckets4, NowhereAssumption DEF Paths
  <2>2. \A m \in TreeOf(I) : o \notin s.objects[m]
    BY <1>3, <1>4, <2>1 DEF Sound, Pointed
  <2>3. ASSUME NEW p \in Objects, p # o
        PROVE  q[p] \in TreeOf(I) \cup {Nowhere} /\ \A m \in TreeOf(I) : p \in u.objects[m] <=> q[p] = m
    BY <1>3, <1>4, <1>9, <2>3 DEF Sound, Pointed
  <2>4. \A m \in TreeOf(I) : o \in u.objects[m] <=> r = m
    BY <1>9, <2>2
  <2>5. PICK z : z = [q EXCEPT ![o] = r]
    OBVIOUS
  <2>6. z[o] = r /\ \A p \in Objects \ {o} : z[p] = q[p]
    BY <2>5
  <2>7. Pointed(u, z)
    BY <1>5, <1>8, <2>3, <2>4, <2>6 DEF Pointed
  <2>8. QED
    BY <2>5, <2>7
<1>12. Roomy(u)
  <2> SUFFICES ASSUME NEW m \in TreeOf(u.inner) \ u.inner, Len(m) < maxLevel
               PROVE  Cardinality(u.objects[m]) < capacity
    BY DEF Roomy
  <2>1. m \in TreeOf(I) /\ m \notin I /\ Len(m) \in Nat
    BY <1>5, <1>8, Buckets4
  <2>2. CASE m # r
    BY <1>3, <1>4, <1>9, <2>1, <2>2 DEF Sound, Roomy
  <2>3. CASE m = r
    <3>1. Cardinality(s.objects[r]) + 1 < capacity
      BY <1>3, <1>4, <2>1, <2>3
    <3>2. PICK S : S = s.objects[r]
      OBVIOUS
    <3>3. IsFiniteSet(S) /\ Cardinality(S) \in Nat
      BY <1>5, <3>2, BucketFinite
    <3>4. Cardinality(S \cup {o}) = Cardinality(S) \/ Cardinality(S \cup {o}) = Cardinality(S) + 1
      BY <3>3, FS_AddElement
    <3>5. u.objects[m] = S \cup {o}
      BY <1>9, <2>3, <3>2
    <3>6. Cardinality(S) + 1 < capacity
      BY <3>1, <3>2
    <3>7. Cardinality(S \cup {o}) < capacity
      BY <3>3, <3>4, <3>6, CapacityAssumption
    <3>8. QED
      BY <3>5, <3>7
  <2>4. QED
    BY <2>2, <2>3
<1>13. ASSUME NEW m \in u.inner, Hollow(u, m) PROVE FALSE
  <2>1. m \in I /\ m \in TreeOf(I) /\ children(m) \subseteq TreeOf(I)
    BY <1>5, <1>8, Buckets4 DEF TreeOf
  <2>2. \A x \in TreeOf(I) : s.objects[x] \subseteq u.objects[x]
    BY <1>9
  <2>3. Hollow(s, m)
    BY <1>4, <1>8, <1>13, <2>1, <2>2 DEF Hollow
  <2>4. QED
    BY <1>3, <1>4, <2>1, <2>3 DEF Sound
<1>14. QED
  <2>1. Sound(u, [q EXCEPT ![o] = r])
    BY <1>10, <1>11, <1>12, <1>13 DEF Sound
  <2>2. QED
    BY <1>1, <1>2, <1>3, <1>6, <2>1

-------------------------------------------------------------------------------
\* One call of discardEmptyBuckets, for bucket m.
Joined(s, m) == IF ~s.on \/ ~Hollow(s.t, m) THEN [s EXCEPT !.on = FALSE] ELSE [s EXCEPT !.t.inner = @ \ {m}]
Stage(x, J, b) == [t |-> [objects |-> x, inner |-> J], on |-> b]
Pruned(t) == [t EXCEPT !.objects = [m \in TreeOf(t.inner) |-> @[m]]]
Above(n, k) == Upto(n, Len(n) - k)

\* f holds what the calls for n, its parent and so on have left.
Discards(f, t, n) ==
  /\ f[0] = [t |-> t, on |-> TRUE]
  /\ \A k \in 1..Len(n) + 1 : f[k] = Joined(f[k - 1], Above(n, k - 1))

JoinsTo(x, J, b, m) ==
  Joined(Stage(x, J, b), m) = IF ~b \/ ~Hollow([objects |-> x, inner |-> J], m)
                              THEN Stage(x, J, FALSE) ELSE Stage(x, J \ {m}, b)

LEMMA JoinedIs ==
  ASSUME NEW x, NEW J, NEW b, NEW m
  PROVE  JoinsTo(x, J, b, m)
<1> DEFINE s == Stage(x, J, b)
<1>1. PICK u : u = [objects |-> x, inner |-> J]
  OBVIOUS
<1>2. s = [t |-> u, on |-> b] /\ s.t = u /\ s.on = b /\ u.inner = J
  BY <1>1 DEF Stage
<1> HIDE DEF s
<1>3. [s EXCEPT !.on = FALSE] = [t |-> u, on |-> FALSE]
  <2>1. \A c : [s EXCEPT !.on = c] = [t |-> u, on |-> c]
    BY <1>2
  <2>2. QED
    BY <2>1, Zenon
<1>4. [u EXCEPT !.inner = J \ {m}] = [objects |-> x, inner |-> J \ {m}]
  BY <1>1
<1>5. PICK w : w = [u EXCEPT !.inner = J \ {m}]
  OBVIOUS
<1>6. [s EXCEPT !.t = w] = [t |-> w, on |-> b]
  BY <1>2
<1>7. [s EXCEPT !.t.inner = @ \ {m}] = [s EXCEPT !.t = w]
  BY <1>2, <1>5
<1>8. w = [objects |-> x, inner |-> J \ {m}]
  BY <1>4, <1>5
<1>9. [s EXCEPT !.t.inner = @ \ {m}] = [t |-> [objects |-> x, inner |-> J \ {m}], on |-> b]
  BY <1>6, <1>7, <1>8, Zenon
<1>10. [s EXCEPT !.on = FALSE] = Stage(x, J, FALSE) /\ [s EXCEPT !.t.inner = @ \ {m}] = Stage(x, J \ {m}, b)
  BY <1>1, <1>3, <1>9, Zenon DEF Stage
<1>11. PICK y, z : y = [s EXCEPT !.on = FALSE] /\ z = [s EXCEPT !.t.inner = @ \ {m}]
  OBVIOUS
<1>12. Joined(s, m) = IF ~s.on \/ ~Hollow(s.t, m) THEN y ELSE z
  BY <1>11, Zenon DEF Joined
<1>13. (s.on <=> b) /\ s.t = [objects |-> x, inner |-> J]
  BY <1>1, <1>2
<1>14. y = Stage(x, J, FALSE) /\ z = Stage(x, J \ {m}, b)
  BY <1>10, <1>11, Zenon
<1>15. QED
  BY <1>12, <1>13, <1>14, Zenon DEF s, JoinsTo

LEMMA JoinedNot ==
  ASSUME NEW x, NEW J, NEW b, NEW m, ~b \/ ~Hollow([objects |-> x, inner |-> J], m)
  PROVE  Joined(Stage(x, J, b), m) = Stage(x, J, FALSE)
<1>1. JoinsTo(x, J, b, m)
  BY JoinedIs, Zenon
<1>2. QED
  BY <1>1, Zenon DEF JoinsTo

LEMMA JoinedOnce ==
  ASSUME NEW x, NEW J, NEW m, Hollow([objects |-> x, inner |-> J], m)
  PROVE  Joined(Stage(x, J, TRUE), m) = Stage(x, J \ {m}, TRUE)
<1>1. JoinsTo(x, J, TRUE, m)
  BY JoinedIs, Zenon
<1>2. QED
  BY <1>1, Zenon DEF JoinsTo

LEMMA DiscardRun ==
  ASSUME NEW t, t = [objects |-> t.objects, inner |-> t.inner], NEW n \in Paths
  PROVE  \E f : Discards(f, t, n) /\ discardEmptyBuckets(t, n) = Pruned(f[Len(n) + 1].t)
<1> DEFINE N == Len(n) + 1
           St(I, b) == Stage(t.objects, I, b)
           V == {St(I, TRUE) : I \in SUBSET t.inner} \cup {St(I, FALSE) : I \in SUBSET t.inner}
           first == [t |-> t, on |-> TRUE]
<1>1. N \in Nat
  BY LenProperties DEF Paths
<1>2. first \in V
  <2>1. first = St(t.inner, TRUE)
    BY DEF Stage
  <2>2. QED
    BY <2>1
<1>3. ASSUME NEW s \in V, NEW m PROVE Joined(s, m) \in V
  <2>1. PICK I \in SUBSET t.inner, b \in {TRUE, FALSE} : s = St(I, b)
    OBVIOUS
  <2>2. CASE ~b \/ ~Hollow([objects |-> t.objects, inner |-> I], m)
    <3>1. Joined(Stage(t.objects, I, b), m) = Stage(t.objects, I, FALSE)
      BY <2>2, JoinedNot, Zenon
    <3>2. QED
      BY <2>1, <3>1
  <2>3. CASE b /\ Hollow([objects |-> t.objects, inner |-> I], m)
    <3>1. b = TRUE /\ Hollow([objects |-> t.objects, inner |-> I], m)
      BY <2>3
    <3>2. Joined(Stage(t.objects, I, TRUE), m) = Stage(t.objects, I \ {m}, TRUE)
      <4>1. Hollow([objects |-> t.objects, inner |-> I], m)
        BY <3>1
      <4> HIDE <1>1, <1>2, <2>1, <2>2, <2>3, <3>1
      <4>2. QED
        BY <4>1, JoinedOnce, ZenonT(30)
    <3>3. QED
      BY <2>1, <3>1, <3>2
  <2>4. QED
    BY <2>2, <2>3
<1> HIDE DEF V, first, N
<1>4. PICK G : G = [p \in (1..N) \X V |-> Joined(p[2], Above(n, p[1] - 1))]
  OBVIOUS
<1>5. /\ G \in [(1..N) \X V -> V]
      /\ \A k \in 1..N : \A s \in V : G[<<k, s>>] = Joined(s, Above(n, k - 1))
  <2>1. \A p \in (1..N) \X V : Joined(p[2], Above(n, p[1] - 1)) \in V
    BY <1>3
  <2>2. QED
    BY <1>4, <2>1
<1>6. PICK g \in [0..N -> V] : g[0] = first /\ \A k \in 1..N : g[k] = G[<<k, g[k - 1]>>]
  <2>1. LoopRuns(N, V, first, G)
    BY <1>1, <1>2, <1>5, Loop
  <2>2. QED
    BY <2>1 DEF LoopRuns
<1> DEFINE e(f, k) == IF k = 0 THEN first ELSE Joined(f[k - 1], Above(n, k - 1))
<1>7. g = [k \in 0..N |-> e(g, k)]
  <2>1. \A k \in 0..N : g[k] = e(g, k)
    <3>1. \A k \in 0..N : k # 0 => k \in 1..N /\ k - 1 \in 0..N
      BY <1>1
    <3>2. QED
      BY <1>5, <1>6, <3>1
  <2> HIDE DEF e
  <2>2. QED
    BY <1>6, <2>1
<1>8. PICK f : f = CHOOSE after : after = [k \in 0..N |-> e(after, k)]
  OBVIOUS
<1>9. f = [k \in 0..N |-> e(f, k)]
  <2> HIDE DEF e
  <2>1. QED
    BY <1>7, <1>8, Zenon
<1>10. Discards(f, t, n)
  <2>1. \A k \in 0..N : f[k] = e(f, k)
    <3> HIDE DEF e
    <3>1. QED
      BY <1>9
  <2>2. 0 \in 0..N /\ \A k \in 1..N : k \in 0..N /\ k # 0
    BY <1>1
  <2>3. f[0] = first /\ \A k \in 1..N : f[k] = Joined(f[k - 1], Above(n, k - 1))
    BY <2>1, <2>2
  <2>4. QED
    BY <2>3 DEF Discards, first, N
<1>11. discardEmptyBuckets(t, n) = Pruned(f[Len(n) + 1].t)
  <2> DEFINE A == CHOOSE after : after =
              [k \in 0..Len(n) + 1 |->
                 IF k = 0 THEN [t |-> t, on |-> TRUE]
                 ELSE IF ~after[k - 1].on \/ ~Hollow(after[k - 1].t, SubSeq(n, 1, Len(n) - (k - 1)))
                      THEN [after[k - 1] EXCEPT !.on = FALSE]
                      ELSE [after[k - 1] EXCEPT !.t.inner = @ \ {SubSeq(n, 1, Len(n) - (k - 1))}]]
  <2>1. f = A
    BY <1>8, Zenon DEF N, first, Joined, Above, Upto
  <2>2. discardEmptyBuckets(t, n) = Pruned(A[Len(n) + 1].t)
    BY Zenon DEF discardEmptyBuckets, Pruned, TreeOf
  <2> HIDE DEF A
  <2>3. QED
    BY <2>1, <2>2, Zenon
<1>12. QED
  BY <1>10, <1>11

\* While buckets are joined: what has been given up was empty, and the next
\* bucket, or the one above it, is the only one that can be hollow.
Joining(k, x, I, n, J, b) ==
  /\ J \subseteq I /\ InnerOK(J)
  /\ \A m \in I \ J : x[m] = {} /\ \A c \in children(m) : c \notin J /\ x[c] = {}
  /\ \A m \in J : Hollow([objects |-> x, inner |-> J], m) =>
                    b /\ k <= Len(n) /\ (m = Above(n, k) \/ Above(n, k) \in children(m))

LEMMA JoiningStep ==
  ASSUME NEW x, NEW I, InnerOK(I), NEW n \in Paths, NEW k \in 1..Len(n) + 1,
         NEW J, NEW b \in BOOLEAN, Joining(k - 1, x, I, n, J, b)
  PROVE  \E K, e : /\ e \in BOOLEAN /\ Joining(k, x, I, n, K, e)
                   /\ Joined(Stage(x, J, b), Above(n, k - 1)) = Stage(x, K, e)
<1>1. PICK m : m = Above(n, k - 1)
  OBVIOUS
<1>2. /\ Len(n) \in Nat /\ m \in Paths /\ Len(m) = Len(n) - (k - 1) /\ k - 1 <= Len(n)
      /\ k <= Len(n) => m \in children(Above(n, k)) /\ Above(n, k) \in Paths
  <2>1. Len(n) \in Nat
    BY LenProperties DEF Paths
  <2>2. PICK j : j = Len(n) - (k - 1)
    OBVIOUS
  <2>3. j \in 0..Len(n) /\ (k <= Len(n) => j # 0 /\ j - 1 = Len(n) - k)
    BY <2>1, <2>2
  <2>4. m \in Paths /\ Len(m) = j
    BY <1>1, <2>2, <2>3, UptoOf DEF Above
  <2>5. ASSUME k <= Len(n) PROVE m \in children(Above(n, k)) /\ Above(n, k) \in Paths
    <3>1. Upto(n, j) \in children(Upto(n, j - 1)) /\ Upto(n, j - 1) \in Paths
      BY <2>3, <2>5, UptoOf
    <3>2. Above(n, k) = Upto(n, j - 1) /\ m = Upto(n, j)
      BY <1>1, <2>2, <2>3, <2>5 DEF Above
    <3>3. QED
      BY <3>1, <3>2
  <2>6. k - 1 <= Len(n)
    BY <2>1
  <2>7. QED
    BY <2>1, <2>2, <2>4, <2>5, <2>6
<1> DEFINE h(S, z) == Hollow([objects |-> x, inner |-> S], z)
<1>3. \A S, z : h(S, z) <=> x[z] = {} /\ (z \in S => \A c \in children(z) : c \notin S /\ x[c] = {})
  BY DEF Hollow
<1>4. /\ J \subseteq I /\ InnerOK(J)
      /\ \A z \in I \ J : x[z] = {} /\ \A c \in children(z) : c \notin J /\ x[c] = {}
      /\ \A z \in J : h(J, z) => b /\ (z = m \/ m \in children(z))
  BY <1>1 DEF Joining
<1> HIDE DEF h
<1>5. CASE ~b \/ ~h(J, m)
  <2>1. Joined(Stage(x, J, b), m) = Stage(x, J, FALSE)
    BY <1>5, JoinedNot, Zenon DEF h
  <2>2. ASSUME NEW z \in J, h(J, z) PROVE FALSE
    <3>1. b /\ (z = m \/ m \in children(z))
      BY <1>4, <2>2
    <3>2. ~h(J, m)
      BY <1>5, <3>1
    <3>3. m \in children(z)
      BY <2>2, <3>1, <3>2
    <3>4. QED
      BY <1>3, <2>2, <3>2, <3>3
  <2>3. Joining(k, x, I, n, J, FALSE)
    BY <1>4, <2>2 DEF Joining, h
  <2>4. QED
    BY <1>1, <2>1, <2>3
<1>6. CASE b /\ h(J, m)
  <2>1. Joined(Stage(x, J, b), m) = Stage(x, J \ {m}, b)
    <3>1. Joined(Stage(x, J, TRUE), m) = Stage(x, J \ {m}, TRUE)
      BY <1>6, JoinedOnce, Zenon DEF h
    <3>2. b = TRUE
      BY <1>6
    <3>3. QED
      BY <3>1, <3>2, Zenon
  <2>2. x[m] = {} /\ (m \in J => \A c \in children(m) : c \notin J /\ x[c] = {})
    BY <1>3, <1>6
  <2>3. InnerOK(J \ {m})
    <3>1. \A c \in children(m) : c \notin J
      <4>1. \A c \in children(m) : c \in J => m \in J
        BY <1>2, <1>4 DEF InnerOK
      <4>2. QED
        BY <2>2, <4>1
    <3>2. QED
      BY <1>4, <3>1, OneLess
  <2>4. ASSUME NEW z \in I \ (J \ {m})
        PROVE  x[z] = {} /\ \A c \in children(z) : c \notin J \ {m} /\ x[c] = {}
    BY <1>4, <2>2
  <2>5. ASSUME NEW z \in J \ {m}, h(J \ {m}, z)
        PROVE  k <= Len(n) /\ z = Above(n, k)
    <3>1. x[z] = {} /\ \A c \in children(z) : c \notin J \ {m} /\ x[c] = {}
      BY <1>3, <2>5
    <3>2. m \in children(z)
      <4>1. CASE h(J, z)
        BY <1>4, <4>1
      <4>2. CASE ~h(J, z)
        BY <1>3, <3>1, <4>2
      <4>3. QED
        BY <4>1, <4>2
    <3>3. z \in Paths
      BY <1>4 DEF InnerOK
    <3>4. Len(m) # 0
      BY <3>2, <3>3, ChildLevel
    <3>5. k <= Len(n)
      BY <1>2, <3>4
    <3>6. z = Above(n, k)
      BY <1>2, <3>2, <3>3, <3>5, OneParentOf
    <3>7. QED
      BY <3>5, <3>6
  <2>6. Joining(k, x, I, n, J \ {m}, b)
    <3>1. \A z \in J \ {m} : h(J \ {m}, z) => b /\ k <= Len(n) /\ z = Above(n, k)
      BY <1>6, <2>5
    <3>2. QED
      BY <1>4, <2>3, <2>4, <3>1 DEF Joining, h
  <2>7. QED
    BY <1>1, <2>1, <2>6
<1>7. QED
  BY <1>5, <1>6

\* Joining buckets is sound if only the bucket it starts from, or the one above,
\* can be hollow.
LEMMA DiscardSound ==
  ASSUME NEW t, NEW q, Shape(t), Pointed(t, q), Roomy(t), NEW n \in TreeOf(t.inner),
         \A m \in t.inner : Hollow(t, m) => m = n \/ n \in children(m)
  PROVE  Sound(discardEmptyBuckets(t, n), q)
<1>1. PICK x, I : x = t.objects /\ I = t.inner
  OBVIOUS
<1>2. /\ InnerOK(I) /\ t = [objects |-> x, inner |-> I] /\ x \in [TreeOf(I) -> SUBSET Objects]
      /\ n \in TreeOf(I)
  BY <1>1 DEF Shape
<1>3. n \in Paths /\ Len(n) \in Nat
  BY <1>2, Buckets4
<1>4. PICK f : Discards(f, t, n) /\ discardEmptyBuckets(t, n) = Pruned(f[Len(n) + 1].t)
  BY <1>1, <1>2, <1>3, DiscardRun
<1> DEFINE Good(k) == \E J, b : b \in BOOLEAN /\ f[k] = Stage(x, J, b) /\ Joining(k, x, I, n, J, b)
           off == {k \in 0..Len(n) + 1 : ~Good(k)}
<1>5. Good(0)
  <2>1. f[0] = Stage(x, I, TRUE)
    BY <1>2, <1>4, Zenon DEF Discards, Stage
  <2>2. Above(n, 0) = n
    <3>1. Len(n) - 0 = Len(n) /\ Len(n) \in 0..Len(n)
      BY <1>3
    <3>2. QED
      BY <1>3, <3>1, UptoOf DEF Above
  <2>3. Joining(0, x, I, n, I, TRUE)
    BY <1>1, <1>2, <1>3, <2>2 DEF Joining
  <2>4. QED
    BY <2>1, <2>3
<1>6. off = {}
  <2> SUFFICES ASSUME off # {} PROVE FALSE
    OBVIOUS
  <2> HIDE DEF Good
  <2>1. PICK k \in off : \A i \in off : k <= i
    <3> off \subseteq Nat
      OBVIOUS
    <3> HIDE DEF off
    <3>1. QED
      BY LeastNumber
  <2>2. k # 0
    BY <1>5
  <2>3. k \in 1..Len(n) + 1 /\ k - 1 \in 0..Len(n) + 1 /\ ~(k <= k - 1)
    BY <1>3, <2>2
  <2>4. Good(k - 1)
    BY <2>1, <2>3
  <2>5. PICK J, b : b \in BOOLEAN /\ f[k - 1] = Stage(x, J, b) /\ Joining(k - 1, x, I, n, J, b)
    BY <2>4 DEF Good
  <2>6. PICK K, e : /\ e \in BOOLEAN /\ Joining(k, x, I, n, K, e)
                    /\ Joined(Stage(x, J, b), Above(n, k - 1)) = Stage(x, K, e)
    BY <1>2, <1>3, <2>3, <2>5, JoiningStep
  <2>7. f[k] = Joined(f[k - 1], Above(n, k - 1))
    BY <1>4, <2>3 DEF Discards
  <2>8. f[k] = Stage(x, K, e)
    BY <2>5, <2>6, <2>7, Zenon
  <2>9. Good(k)
    BY <2>6, <2>8 DEF Good
  <2>10. QED
    BY <2>9
<1>7. Good(Len(n) + 1)
  <2>1. Len(n) + 1 \in 0..Len(n) + 1
    BY <1>3
  <2> HIDE DEF Good
  <2>2. QED
    BY <1>6, <2>1
<1>8. PICK J, b : f[Len(n) + 1] = Stage(x, J, b) /\ Joining(Len(n) + 1, x, I, n, J, b)
  BY <1>7
<1>9. /\ J \subseteq I /\ InnerOK(J)
      /\ \A m \in I \ J : x[m] = {} /\ \A c \in children(m) : c \notin J /\ x[c] = {}
      /\ \A m \in J : ~Hollow([objects |-> x, inner |-> J], m)
  BY <1>3, <1>8 DEF Joining
<1>10. PICK d : d = discardEmptyBuckets(t, n)
  OBVIOUS
<1>11. d = [objects |-> [m \in TreeOf(J) |-> x[m]], inner |-> J]
  <2>1. f[Len(n) + 1].t = [objects |-> x, inner |-> J]
    BY <1>8 DEF Stage
  <2>2. \A u : u = [objects |-> x, inner |-> J] =>
               Pruned(u) = [objects |-> [m \in TreeOf(J) |-> x[m]], inner |-> J]
    BY DEF Pruned
  <2>3. QED
    BY <1>4, <1>10, <2>1, <2>2, Zenon
<1>12. /\ d = [objects |-> d.objects, inner |-> d.inner] /\ d.inner = J
       /\ d.objects = [m \in TreeOf(J) |-> x[m]] /\ TreeOf(J) \subseteq TreeOf(I)
       /\ \A m \in TreeOf(J) : d.objects[m] = x[m]
  BY <1>9, <1>11 DEF TreeOf
<1>13. Shape(d)
  <2>1. d.objects \in [TreeOf(J) -> SUBSET Objects]
    BY <1>2, <1>12
  <2>2. QED
    BY <1>9, <1>12, <2>1 DEF Shape
<1>14. \A c \in TreeOf(I) : c \notin TreeOf(J) => x[c] = {}
  BY <1>9 DEF TreeOf
<1>15. Pointed(d, q)
  BY <1>1, <1>12, <1>14 DEF Pointed
<1>16. Roomy(d)
  <2> SUFFICES ASSUME NEW m \in TreeOf(J), m \notin J, Len(m) < maxLevel
               PROVE  Cardinality(d.objects[m]) < capacity
    BY <1>12 DEF Roomy
  <2>1. CASE m \in I
    <3>1. d.objects[m] = {}
      BY <1>9, <1>12, <2>1
    <3>2. Cardinality({}) = 0
      BY FS_EmptySet
    <3>3. QED
      BY <3>1, <3>2, CapacityAssumption
  <2>2. CASE m \notin I
    BY <1>1, <1>12, <2>2 DEF Roomy
  <2>3. QED
    BY <2>1, <2>2
<1>17. ASSUME NEW m \in J PROVE ~Hollow(d, m)
  <2>1. m \in TreeOf(J) /\ children(m) \subseteq TreeOf(J)
    BY <1>9, Buckets4 DEF TreeOf
  <2>2. ~Hollow([objects |-> x, inner |-> J], m)
    BY <1>9
  <2>3. QED
    BY <1>12, <2>1, <2>2 DEF Hollow
<1>18. Sound(d, q)
  BY <1>12, <1>13, <1>15, <1>16, <1>17 DEF Sound
<1>19. QED
  BY <1>10, <1>18

\* Removal is sound.
LEMMA RemovedSound ==
  ASSUME NEW t, DOMAIN qt = Objects, Sound(t, qt), NEW o \in Objects, qt[o] # Nowhere
  PROVE  Sound(Removed(t, o), [qt EXCEPT ![o] = Nowhere])
<1>1. PICK x, I, n : x = t.objects /\ I = t.inner /\ n = qt[o]
  OBVIOUS
<1>2. /\ InnerOK(I) /\ t = [objects |-> x, inner |-> I] /\ x \in [TreeOf(I) -> SUBSET Objects]
      /\ n \in TreeOf(I)
  BY <1>1 DEF Sound, Shape, Pointed
<1>3. PICK y : y = [x EXCEPT ![n] = x[n] \ {o}]
  OBVIOUS
<1>4. /\ y \in [TreeOf(I) -> SUBSET Objects] /\ y[n] = x[n] \ {o}
      /\ \A m \in TreeOf(I) \ {n} : y[m] = x[m]
  BY <1>2, <1>3
<1>5. PICK u : u = [objects |-> y, inner |-> I]
  OBVIOUS
<1>6. u.objects = y /\ u.inner = I /\ u = [objects |-> u.objects, inner |-> u.inner]
  BY <1>5
<1>7. Removed(t, o) = discardEmptyBuckets(u, n)
  <2>1. t.objects = x
    BY <1>1
  <2>2. [t EXCEPT !.objects[n] = @ \ {o}] = [t EXCEPT !.objects = y]
    BY <1>3, <2>1
  <2>3. [t EXCEPT !.objects = y] = u
    BY <1>2, <1>5
  <2>4. QED
    BY <1>1, <2>2, <2>3 DEF Removed
<1>8. PICK q : q = [qt EXCEPT ![o] = Nowhere]
  OBVIOUS
<1>9. q[o] = Nowhere /\ \A p \in Objects \ {o} : q[p] = qt[p]
  BY <1>8
<1>10. Shape(u)
  BY <1>2, <1>4, <1>6 DEF Shape
<1>11. TreeOf(I) \subseteq Paths /\ Nowhere \notin TreeOf(I)
  BY <1>2, Buckets4, NowhereAssumption DEF Paths
<1>12. Pointed(u, q)
  <2> SUFFICES ASSUME NEW p \in Objects
               PROVE  /\ q[p] \in TreeOf(I) \cup {Nowhere}
                      /\ \A m \in TreeOf(I) : p \in y[m] <=> q[p] = m
    BY <1>6 DEF Pointed
  <2>1. \A m \in TreeOf(I) : p \in x[m] <=> qt[p] = m
    BY <1>1 DEF Sound, Pointed
  <2>2. qt[p] \in TreeOf(I) \cup {Nowhere}
    BY <1>1 DEF Sound, Pointed
  <2>3. CASE p = o
    <3>1. \A m \in TreeOf(I) : p \notin y[m]
      BY <1>1, <1>4, <2>1, <2>3
    <3>2. QED
      BY <1>9, <1>11, <2>3, <3>1
  <2>4. CASE p # o
    <3>1. \A m \in TreeOf(I) : p \in y[m] <=> p \in x[m]
      BY <1>4, <2>4
    <3>2. QED
      BY <1>9, <2>1, <2>2, <2>4, <3>1
  <2>5. QED
    BY <2>3, <2>4
<1>13. Roomy(u)
  <2> SUFFICES ASSUME NEW m \in TreeOf(I) \ I, Len(m) < maxLevel
               PROVE  Cardinality(y[m]) < capacity
    BY <1>6 DEF Roomy
  <2>1. Cardinality(x[m]) < capacity
    BY <1>1 DEF Sound, Roomy
  <2>2. PICK S, T : S = y[m] /\ T = x[m]
    OBVIOUS
  <2>3. S \subseteq T /\ T \subseteq Objects /\ S \subseteq Objects
    BY <1>2, <1>4, <2>2
  <2>4. IsFiniteSet(T) /\ Cardinality(T) \in Nat /\ Cardinality(S) \in Nat
    BY <2>3, BucketFinite
  <2>5. Cardinality(S) <= Cardinality(T)
    BY <2>3, <2>4, FS_Subset
  <2>6. QED
    BY <2>1, <2>2, <2>4, <2>5, CapacityAssumption
<1>14. ASSUME NEW m \in I, Hollow(u, m) PROVE m = n \/ n \in children(m)
  <2> SUFFICES ASSUME m # n, n \notin children(m) PROVE FALSE
    OBVIOUS
  <2>1. m \in TreeOf(I) /\ children(m) \subseteq TreeOf(I)
    BY <1>2, Buckets4 DEF TreeOf
  <2>2. Hollow(t, m)
    BY <1>1, <1>4, <1>6, <1>14, <2>1 DEF Hollow
  <2>3. QED
    BY <1>1, <2>2 DEF Sound
<1>15. Sound(discardEmptyBuckets(u, n), q)
  BY <1>2, <1>6, <1>10, <1>12, <1>13, <1>14, DiscardSound
<1>16. QED
  BY <1>7, <1>8, <1>15

-------------------------------------------------------------------------------
\* The last of the first k cells that touches bucket n.
LastCell(n, k) == Max({0} \cup {c \in 1..k : intersects(Cells[c], bounds(n))})

(***************************************************************************)
(* The inductive invariant: the tree is sound, every object is where an    *)
(* insertion would look for it (OnWay), and every bucket lies where the    *)
(* last of the cells so far that touches it belongs.                       *)
(***************************************************************************)
Placed ==
  /\ DOMAIN qt = Objects /\ DOMAIN bound = Objects
  /\ \A o \in Objects : bound[o] \in Places \cup {Nowhere}
  /\ \A o \in Objects : qt[o] # Nowhere => bound[o] \in Places /\ OnWay(qt[o], Point(bound[o]))
Moved ==
  /\ cell \in 0..Len(Cells)
  /\ DOMAIN numa = Buckets
  /\ \A n \in Buckets : numa[n] \in 0..cell /\ numa[n] = LastCell(n, cell)
QuadInv == Sound(tree, qt) /\ Placed /\ Moved

\* A greatest number of a set is its maximum.
LEMMA MaxIs ==
  ASSUME NEW S, S \subseteq Int, NEW m \in S, \A y \in S : y <= m
  PROVE  Max(S) = m
<1>1. \A y \in S : m >= y
  OBVIOUS
<1>2. PICK x : x = Max(S)
  OBVIOUS
<1>3. x \in S /\ \A y \in S : x >= y
  BY <1>1, <1>2 DEF Max
<1>4. x >= m /\ m >= x /\ x \in Int /\ m \in Int
  BY <1>1, <1>3
<1>5. QED
  BY <1>2, <1>4

LEMMA NoCellYet == \A n : LastCell(n, 0) = 0
<1> TAKE n
<1>1. PICK S : S = {0} \cup {c \in 1..0 : intersects(Cells[c], bounds(n))}
  OBVIOUS
<1>2. S = {0}
  BY <1>1
<1>3. Max(S) = 0
  BY <1>2, MaxIs
<1>4. QED
  BY <1>1, <1>3 DEF LastCell

LEMMA NextCell ==
  ASSUME NEW n, NEW k \in Nat, NEW m \in 0..k, m = LastCell(n, k)
  PROVE  LastCell(n, k + 1) = IF intersects(Cells[k + 1], bounds(n)) THEN k + 1 ELSE m
<1>1. PICK S : S = {0} \cup {c \in 1..k : intersects(Cells[c], bounds(n))}
  OBVIOUS
<1>2. PICK T : T = {0} \cup {c \in 1..k + 1 : intersects(Cells[c], bounds(n))}
  OBVIOUS
<1>3. LastCell(n, k + 1) = Max(T) /\ m = Max(S)
  BY <1>1, <1>2 DEF LastCell
<1>4. CASE intersects(Cells[k + 1], bounds(n))
  <2>1. T \subseteq Int /\ k + 1 \in T /\ \A y \in T : y <= k + 1
    BY <1>2, <1>4
  <2>2. QED
    BY <1>3, <1>4, <2>1, MaxIs
<1>5. CASE ~intersects(Cells[k + 1], bounds(n))
  <2>1. T = S
    <3>1. \A c : c \in 1..k + 1 <=> c \in 1..k \/ c = k + 1
      OBVIOUS
    <3>2. QED
      BY <1>1, <1>2, <1>5, <3>1
  <2>2. QED
    BY <1>3, <1>5, <2>1
<1>6. QED
  BY <1>4, <1>5

\* What the operations make of the tree.
LEMMA BecomesSound ==
  ASSUME Moved, cell = 0, NEW t, NEW q, Sound(t, q), Becomes(t), qt' = q, UNCHANGED cell
  PROVE  Sound(tree, qt)' /\ Moved'
<1>1. t = [objects |-> t.objects, inner |-> t.inner]
  BY DEF Sound, Shape
<1>2. tree' = t
  BY <1>1, Zenon DEF tree, Becomes
<1>3. Sound(tree', q)
  BY <1>2
<1>4. Sound(tree, qt)'
  BY <1>3 DEF Sound, Shape, Pointed, Roomy, Hollow, TreeOf, InnerOK
<1>5. \A n \in Buckets : numa[n] = 0
  BY DEF Moved
<1>6. Moved'
  <2>1. DOMAIN numa' = Buckets'
    BY DEF Becomes, Buckets
  <2>2. \A n \in Buckets' : numa'[n] = 0
    BY <1>5 DEF Becomes, Buckets
  <2>3. \A n : LastCell(n, 0) = 0
    BY NoCellYet
  <2>4. \A n \in Buckets' : numa'[n] \in 0..cell' /\ numa'[n] = LastCell(n, cell')
    BY <2>2, <2>3
  <2>5. cell' \in 0..Len(Cells)
    BY DEF Moved
  <2>6. QED
    BY <2>1, <2>4, <2>5 DEF Moved, LastCell, Buckets
<1>7. QED
  BY <1>4, <1>6

LEMMA InitQuad == Init => QuadInv
<1> SUFFICES ASSUME Init PROVE QuadInv
  OBVIOUS
<1>1. /\ tree.objects = [n \in {Root} |-> {}] /\ tree.inner = {}
      /\ tree = [objects |-> tree.objects, inner |-> tree.inner]
  BY DEF Init, tree
<1>2. InnerOK({}) /\ TreeOf({}) = {Root}
  BY FS_EmptySet DEF InnerOK, TreeOf
<1>3. Shape(tree)
  BY <1>1, <1>2 DEF Shape
<1>4. Nowhere # Root
  BY RootPath, NowhereAssumption DEF Paths
<1>5. Pointed(tree, qt)
  BY <1>1, <1>2, <1>4 DEF Pointed, Init
<1>6. Roomy(tree)
  BY <1>1, <1>2, FS_EmptySet, CapacityAssumption DEF Roomy
<1>7. Sound(tree, qt)
  BY <1>1, <1>3, <1>5, <1>6 DEF Sound
<1>8. Placed
  BY DEF Init, Placed
<1>9. Moved
  <2>1. Len(Cells) \in Nat
    BY RectanglesAssumption, LenProperties
  <2>2. Buckets = {Root} /\ DOMAIN numa = {Root} /\ numa[Root] = 0 /\ cell = 0
    BY DEF Init, Buckets
  <2>3. QED
    BY <2>1, <2>2, NoCellYet DEF Moved
<1>10. QED
  BY <1>7, <1>8, <1>9 DEF QuadInv

\* insert, remove, update and clear keep the invariant.
LEMMA InsertQuad ==
  ASSUME QuadInv, NEW o \in Objects, NEW p \in Places, insert(o, p)
  PROVE  QuadInv'
<1>1. PICK a, t, r : a = Point(p) /\ t = Inserted(tree, o, a) /\ r = Resting(Subdivided(tree, a), a)
  OBVIOUS
<1>2. PICK q : q = [qt EXCEPT ![o] = r]
  OBVIOUS
<1>3. /\ cell = 0 /\ qt[o] = Nowhere /\ Becomes(t) /\ qt' = q
      /\ bound' = [bound EXCEPT ![o] = p] /\ UNCHANGED cell
  BY <1>1, <1>2 DEF insert
<1>4. Sound(tree, qt) /\ DOMAIN qt = Objects /\ DOMAIN bound = Objects
  BY DEF QuadInv, Placed
<1>5. Sound(t, q) /\ OnWay(r, a)
  BY <1>1, <1>2, <1>3, <1>4, InsertedSound
<1>6. Sound(tree, qt)' /\ Moved'
  BY <1>3, <1>5, BecomesSound DEF QuadInv
<1>7. Placed'
  <2>1. /\ DOMAIN qt' = Objects /\ DOMAIN bound' = Objects /\ qt'[o] = r /\ bound'[o] = p
        /\ \A x \in Objects \ {o} : qt'[x] = qt[x] /\ bound'[x] = bound[x]
    BY <1>2, <1>3, <1>4
  <2>2. \A x \in Objects : bound'[x] \in Places \cup {Nowhere}
    BY <2>1 DEF QuadInv, Placed
  <2>3. \A x \in Objects : qt'[x] # Nowhere => bound'[x] \in Places /\ OnWay(qt'[x], Point(bound'[x]))
    BY <1>1, <1>5, <2>1 DEF QuadInv, Placed
  <2>4. QED
    BY <2>1, <2>2, <2>3 DEF Placed, OnWay, Point
<1>8. QED
  BY <1>6, <1>7 DEF QuadInv

LEMMA RemoveQuad ==
  ASSUME QuadInv, NEW o \in Objects, remove(o)
  PROVE  QuadInv'
<1>1. PICK t, q : t = Removed(tree, o) /\ q = [qt EXCEPT ![o] = Nowhere]
  OBVIOUS
<1>2. /\ cell = 0 /\ qt[o] # Nowhere /\ Becomes(t) /\ qt' = q
      /\ bound' = [bound EXCEPT ![o] = Nowhere] /\ UNCHANGED cell
  BY <1>1 DEF remove
<1>3. Sound(tree, qt) /\ DOMAIN qt = Objects /\ DOMAIN bound = Objects
  BY DEF QuadInv, Placed
<1>4. Sound(t, q)
  BY <1>1, <1>2, <1>3, RemovedSound
<1>5. Sound(tree, qt)' /\ Moved'
  BY <1>2, <1>4, BecomesSound DEF QuadInv
<1>6. Placed'
  <2>1. /\ DOMAIN qt' = Objects /\ DOMAIN bound' = Objects /\ qt'[o] = Nowhere /\ bound'[o] = Nowhere
        /\ \A x \in Objects \ {o} : qt'[x] = qt[x] /\ bound'[x] = bound[x]
    BY <1>1, <1>2, <1>3
  <2>2. \A x \in Objects : bound'[x] \in Places \cup {Nowhere}
    BY <2>1 DEF QuadInv, Placed
  <2>3. \A x \in Objects : qt'[x] # Nowhere => bound'[x] \in Places /\ OnWay(qt'[x], Point(bound'[x]))
    BY <2>1 DEF QuadInv, Placed
  <2>4. QED
    BY <2>1, <2>2, <2>3 DEF Placed, OnWay, Point
<1>7. QED
  BY <1>5, <1>6 DEF QuadInv

LEMMA UpdateQuad ==
  ASSUME QuadInv, NEW o \in Objects, NEW p \in Places, update(o, p)
  PROVE  QuadInv'
<1>1. PICK u, z : u = Removed(tree, o) /\ z = [qt EXCEPT ![o] = Nowhere]
  OBVIOUS
<1>2. PICK a, t, r : a = Point(p) /\ t = Inserted(u, o, a) /\ r = Resting(Subdivided(u, a), a)
  OBVIOUS
<1>3. PICK q : q = [qt EXCEPT ![o] = r]
  OBVIOUS
<1>4. /\ cell = 0 /\ qt[o] # Nowhere /\ Becomes(t) /\ qt' = q
      /\ bound' = [bound EXCEPT ![o] = p] /\ UNCHANGED cell
  BY <1>1, <1>2, <1>3 DEF update
<1>5. Sound(tree, qt) /\ DOMAIN qt = Objects /\ DOMAIN bound = Objects
  BY DEF QuadInv, Placed
<1>6. Sound(u, z)
  BY <1>1, <1>4, <1>5, RemovedSound
<1>7. DOMAIN z = Objects /\ z[o] = Nowhere /\ [z EXCEPT ![o] = r] = q
  BY <1>1, <1>3, <1>5
<1>8. Sound(t, q) /\ OnWay(r, a)
  <2>1. Sound(t, [z EXCEPT ![o] = r]) /\ OnWay(r, a)
    BY <1>2, <1>6, <1>7, InsertedSound
  <2>2. QED
    BY <1>7, <2>1
<1>9. Sound(tree, qt)' /\ Moved'
  BY <1>4, <1>8, BecomesSound DEF QuadInv
<1>10. Placed'
  <2>1. /\ DOMAIN qt' = Objects /\ DOMAIN bound' = Objects /\ qt'[o] = r /\ bound'[o] = p
        /\ \A x \in Objects \ {o} : qt'[x] = qt[x] /\ bound'[x] = bound[x]
    BY <1>3, <1>4, <1>5
  <2>2. \A x \in Objects : bound'[x] \in Places \cup {Nowhere}
    BY <2>1 DEF QuadInv, Placed
  <2>3. \A x \in Objects : qt'[x] # Nowhere => bound'[x] \in Places /\ OnWay(qt'[x], Point(bound'[x]))
    BY <1>2, <1>8, <2>1 DEF QuadInv, Placed
  <2>4. QED
    BY <2>1, <2>2, <2>3 DEF Placed, OnWay, Point
<1>11. QED
  BY <1>9, <1>10 DEF QuadInv

LEMMA ClearQuad ==
  ASSUME QuadInv, clear
  PROVE  QuadInv'
<1>1. PICK t, q : /\ t = [objects |-> [n \in {Root} |-> {}], inner |-> {}]
                  /\ q = [o \in Objects |-> Nowhere]
  OBVIOUS
<1>2. /\ cell = 0 /\ Becomes(t) /\ qt' = q /\ bound' = [o \in Objects |-> Nowhere] /\ UNCHANGED cell
  BY <1>1 DEF clear
<1>3. /\ t.objects = [n \in {Root} |-> {}] /\ t.inner = {}
      /\ t = [objects |-> t.objects, inner |-> t.inner]
  BY <1>1
<1>4. InnerOK({}) /\ TreeOf({}) = {Root}
  BY FS_EmptySet DEF InnerOK, TreeOf
<1>5. Shape(t)
  BY <1>3, <1>4 DEF Shape
<1>6. Nowhere # Root
  BY RootPath, NowhereAssumption DEF Paths
<1>7. Pointed(t, q)
  BY <1>1, <1>3, <1>4, <1>6 DEF Pointed
<1>8. Roomy(t)
  BY <1>3, <1>4, FS_EmptySet, CapacityAssumption DEF Roomy
<1>9. Sound(t, q)
  BY <1>3, <1>5, <1>7, <1>8 DEF Sound
<1>10. Sound(tree, qt)' /\ Moved'
  BY <1>2, <1>9, BecomesSound DEF QuadInv
<1>11. Placed'
  BY <1>1, <1>2 DEF Placed
<1>12. QED
  BY <1>10, <1>11 DEF QuadInv

-------------------------------------------------------------------------------
\* Every step from the root to n is one that `into' takes.
Along(into, n) == \A k \in 1..Len(n) : Upto(n, k) \in into[Upto(n, k - 1)]

LEMMA AlongChild ==
  ASSUME NEW into, NEW n \in Paths, NEW c \in children(n)
  PROVE  Along(into, c) <=> Along(into, n) /\ c \in into[n]
<1>1. PICK i \in 0..3 : c = n \o <<i>>
  BY DEF children
<1>2. c \in Paths /\ Len(c) = Len(n) + 1 /\ Len(n) \in Nat
  BY ChildLevel
<1>3. \A k \in 0..Len(n) : Upto(c, k) = Upto(n, k)
  BY <1>1, UptoChild
<1>4. Upto(c, Len(n) + 1) = c /\ Upto(c, Len(n)) = n
  <2>1. Len(c) \in 0..Len(c) /\ Len(n) \in 0..Len(n)
    BY <1>2
  <2>2. Upto(c, Len(c)) = c /\ Upto(n, Len(n)) = n
    BY <1>2, <2>1, UptoOf
  <2>3. QED
    BY <1>2, <1>3, <2>1, <2>2
<1>5. ASSUME NEW k \in 1..Len(n)
      PROVE  Upto(c, k) = Upto(n, k) /\ Upto(c, k - 1) = Upto(n, k - 1) /\ k \in 1..Len(c)
  <2>1. k \in 0..Len(n) /\ k - 1 \in 0..Len(n) /\ k \in 1..Len(c)
    BY <1>2
  <2>2. QED
    BY <1>3, <2>1
<1>6. ASSUME Along(into, c) PROVE Along(into, n) /\ c \in into[n]
  <2>1. Along(into, n)
    BY <1>5, <1>6 DEF Along
  <2>2. Len(n) + 1 \in 1..Len(c) /\ Len(n) + 1 - 1 = Len(n)
    BY <1>2
  <2>3. Upto(c, Len(n) + 1) \in into[Upto(c, Len(n) + 1 - 1)]
    BY <1>6, <2>2 DEF Along
  <2>4. QED
    BY <1>4, <2>1, <2>2, <2>3
<1>7. ASSUME Along(into, n), c \in into[n] PROVE Along(into, c)
  <2>1. ASSUME NEW k \in 1..Len(c) PROVE Upto(c, k) \in into[Upto(c, k - 1)]
    <3>1. CASE k = Len(n) + 1
      <4>1. k - 1 = Len(n)
        BY <1>2, <3>1
      <4>2. QED
        BY <1>4, <1>7, <3>1, <4>1
    <3>2. CASE k # Len(n) + 1
      <4>1. k \in 1..Len(n)
        BY <1>2, <3>2
      <4>2. Upto(n, k) \in into[Upto(n, k - 1)]
        BY <1>7, <4>1 DEF Along
      <4>3. QED
        BY <1>5, <4>1, <4>2
    <3>3. QED
      BY <3>1, <3>2
  <2>2. QED
    BY <2>1 DEF Along
<1>8. QED
  BY <1>6, <1>7

LEMMA AlongRoot == \A into : Along(into, Root)
<1>1. 1..0 = {}
  OBVIOUS
<1>2. QED
  BY <1>1, RootPath DEF Along

\* Level by level.
Levels(f, into) ==
  /\ f[0] = {Root}
  /\ \A k \in 1..maxLevel : f[k] = UNION {into[n] : n \in f[k - 1] \cap inner}

LEMMA ReachedRun ==
  ASSUME NEW into, \A n \in inner : into[n] \subseteq Paths
  PROVE  \E f : Levels(f, into) /\ Reached(into) = UNION {f[k] : k \in 0..maxLevel}
<1> DEFINE V == SUBSET Paths
           next(S) == UNION {into[n] : n \in S \cap inner}
<1>1. \A S : next(S) \in V
  OBVIOUS
<1>2. {Root} \in V
  BY RootPath
<1> HIDE DEF V
<1>3. PICK G : G = [p \in (1..maxLevel) \X V |-> next(p[2])]
  OBVIOUS
<1> HIDE DEF next
<1>4. /\ G \in [(1..maxLevel) \X V -> V]
      /\ \A k \in 1..maxLevel : \A S \in V : G[<<k, S>>] = next(S)
  BY <1>1, <1>3
<1>5. PICK g \in [0..maxLevel -> V] :
        g[0] = {Root} /\ \A k \in 1..maxLevel : g[k] = G[<<k, g[k - 1]>>]
  <2>1. LoopRuns(maxLevel, V, {Root}, G)
    BY <1>2, <1>4, CapacityAssumption, Loop
  <2>2. QED
    BY <2>1 DEF LoopRuns
<1> DEFINE e(f, k) == IF k = 0 THEN {Root} ELSE next(f[k - 1])
<1>6. g = [k \in 0..maxLevel |-> e(g, k)]
  <2>1. \A k \in 0..maxLevel : g[k] = e(g, k)
    <3> SUFFICES ASSUME NEW k \in 0..maxLevel PROVE g[k] = e(g, k)
      OBVIOUS
    <3>1. CASE k = 0
      BY <1>5, <3>1
    <3>2. CASE k # 0
      <4>1. k \in 1..maxLevel /\ k - 1 \in 0..maxLevel
        BY CapacityAssumption, <3>2
      <4>2. g[k] = G[<<k, g[k - 1]>>] /\ g[k - 1] \in V
        BY <1>5, <4>1
      <4>3. QED
        BY <1>4, <3>2, <4>1, <4>2
    <3>3. QED
      BY <3>1, <3>2
  <2> HIDE DEF e
  <2>2. QED
    BY <1>5, <2>1
<1>7. PICK f : f = CHOOSE at : at = [k \in 0..maxLevel |-> e(at, k)]
  OBVIOUS
<1>8. f = [k \in 0..maxLevel |-> e(f, k)]
  <2> HIDE DEF e
  <2>1. QED
    BY <1>6, <1>7, Zenon
<1>9. Levels(f, into)
  <2>1. \A k \in 0..maxLevel : f[k] = e(f, k)
    <3> HIDE DEF e
    <3>1. QED
      BY <1>8
  <2>2. 0 \in 0..maxLevel /\ \A k \in 1..maxLevel : k \in 0..maxLevel /\ k # 0
    BY CapacityAssumption
  <2>3. QED
    BY <2>1, <2>2 DEF Levels, next
<1>10. Reached(into) = UNION {f[k] : k \in 0..maxLevel}
  <2> DEFINE A == CHOOSE at : at = [k \in 0..maxLevel |->
                    IF k = 0 THEN {Root} ELSE UNION {into[n] : n \in at[k - 1] \cap inner}]
  <2>1. f = A
    BY <1>7, Zenon DEF next
  <2>2. Reached(into) = UNION {A[k] : k \in 0..maxLevel}
    BY Zenon DEF Reached
  <2> HIDE DEF A
  <2>3. QED
    BY <2>1, <2>2, Zenon
<1>11. QED
  BY <1>9, <1>10

\* A search comes to the buckets all the way to which it takes.
LEMMA ReachedIs ==
  ASSUME InnerOK(inner), NEW into, \A n \in inner : into[n] \subseteq children(n)
  PROVE  Reached(into) = {n \in TreeOf(inner) : Along(into, n)}
<1>1. \A n \in inner : n \in Paths /\ into[n] \subseteq Paths
  <2>1. \A n \in inner : n \in Paths
    BY DEF InnerOK
  <2>2. \A n \in inner : children(n) \subseteq Paths
    BY <2>1, ChildLevel
  <2>3. QED
    BY <2>1, <2>2
<1>2. PICK f : Levels(f, into) /\ Reached(into) = UNION {f[k] : k \in 0..maxLevel}
  BY <1>1, ReachedRun
<1> DEFINE level(k) == {n \in TreeOf(inner) : Len(n) = k /\ Along(into, n)}
           off == {k \in 0..maxLevel : f[k] # level(k)}
<1>3. \A n \in TreeOf(inner) : n \in Paths /\ Len(n) \in 0..maxLevel
  BY Buckets4, CapacityAssumption
<1>4. off = {}
  <2> SUFFICES ASSUME off # {} PROVE FALSE
    OBVIOUS
  <2>1. PICK k \in off : \A i \in off : k <= i
    <3> off \subseteq Nat
      OBVIOUS
    <3> HIDE DEF off
    <3>1. QED
      BY LeastNumber
  <2>2. k \in 0..maxLevel /\ f[k] # level(k)
    OBVIOUS
  <2>3. k # 0
    <3> SUFFICES ASSUME k = 0 PROVE FALSE
      OBVIOUS
    <3>1. \A n \in Paths : Len(n) = 0 => n = Root
      BY EmptySeq DEF Paths, Root
    <3>2. Root \in TreeOf(inner) /\ Len(Root) = 0 /\ Along(into, Root)
      BY RootPath, AlongRoot DEF TreeOf
    <3>3. level(0) = {Root}
      BY <1>3, <3>1, <3>2
    <3>4. QED
      BY <1>2, <2>2, <3>3 DEF Levels
  <2>4. k \in 1..maxLevel /\ k - 1 \in 0..maxLevel /\ ~(k <= k - 1)
    BY <2>2, <2>3, CapacityAssumption
  <2>5. f[k - 1] = level(k - 1)
    BY <2>1, <2>4
  <2>6. f[k] = UNION {into[n] : n \in level(k - 1) \cap inner}
    BY <1>2, <2>4, <2>5 DEF Levels
  <2>7. ASSUME NEW c \in f[k] PROVE c \in level(k)
    <3>1. PICK n \in level(k - 1) \cap inner : c \in into[n]
      BY <2>6, <2>7
    <3>2. c \in children(n) /\ n \in Paths /\ Len(n) = k - 1 /\ Along(into, n)
      BY <1>1, <3>1
    <3>3. c \in TreeOf(inner)
      BY <3>1, <3>2 DEF TreeOf
    <3>4. Len(c) = k
      BY <2>4, <3>2, ChildLevel
    <3>5. Along(into, c)
      BY <3>1, <3>2, AlongChild
    <3>6. QED
      BY <3>3, <3>4, <3>5
  <2>8. ASSUME NEW c \in level(k) PROVE c \in f[k]
    <3>1. c \in TreeOf(inner) /\ Len(c) = k /\ Along(into, c)
      OBVIOUS
    <3>2. c # Root
      BY <2>3, <3>1, RootPath
    <3>3. PICK n \in inner : c \in children(n)
      BY <3>1, <3>2 DEF TreeOf
    <3>4. n \in Paths /\ n \in TreeOf(inner)
      BY <1>1, Buckets4
    <3>5. Len(n) = k - 1
      BY <3>1, <3>3, <3>4, ChildLevel
    <3>6. Along(into, n) /\ c \in into[n]
      BY <3>1, <3>3, <3>4, AlongChild
    <3>7. n \in level(k - 1)
      BY <3>4, <3>5, <3>6
    <3>8. QED
      BY <2>6, <3>6, <3>7
  <2>9. QED
    BY <2>2, <2>7, <2>8
<1>5. UNION {level(k) : k \in 0..maxLevel} = {n \in TreeOf(inner) : Along(into, n)}
  BY <1>3
<1>6. \A k \in 0..maxLevel : f[k] = level(k)
  BY <1>4
<1>7. QED
  BY <1>2, <1>5, <1>6

-------------------------------------------------------------------------------
\* The middle of a bucket lies in it, and its children lie within it.
LEMMA Halves ==
  ASSUME NEW a \in Nat
  PROVE  a \div 2 \in Nat /\ 2 * (a \div 2) <= a
OBVIOUS

LEMMA TouchUp ==
  ASSUME NEW n \in Paths, NEW c \in children(n), NEW q \in Rectangles, intersects(q, bounds(c))
  PROVE  intersects(q, bounds(n))
<1>1. PICK i \in 0..3 : c = n \o <<i>>
  BY DEF children
<1>2. PICK a, b : a = bounds(n) /\ b = bounds(c)
  OBVIOUS
<1>3. a \in Squares /\ b = Quarter(a, i)
  BY <1>1, <1>2, BoundsOf
<1>4. a.x \in Nat /\ a.y \in Nat /\ a.width \in Nat /\ a.height \in Nat
  BY <1>3 DEF Squares
<1>5. PICK w, h : w = a.width \div 2 /\ h = a.height \div 2
  OBVIOUS
<1>6. w \in Nat /\ h \in Nat /\ 2 * w <= a.width /\ 2 * h <= a.height
  BY <1>4, <1>5, Halves
<1>7. /\ b.x \in {a.x, a.x + w} /\ b.y \in {a.y, a.y + h} /\ b.width = w /\ b.height = h
  BY <1>3, <1>5 DEF Quarter, Rect
<1>8. q.x \in Int /\ q.y \in Int /\ q.width \in Nat /\ q.height \in Nat
  BY DEF Rectangles
<1>9. /\ q.x <= b.x + b.width /\ q.x + q.width >= b.x
      /\ q.y <= b.y + b.height /\ q.y + q.height >= b.y
  BY <1>2 DEF intersects
<1>10. q.x <= a.x + a.width /\ q.x + q.width >= a.x
  BY <1>4, <1>6, <1>7, <1>8, <1>9
<1>11. q.y <= a.y + a.height /\ q.y + q.height >= a.y
  BY <1>4, <1>6, <1>7, <1>8, <1>9
<1>12. QED
  BY <1>2, <1>10, <1>11 DEF intersects

\* The buckets that are moved for a cell are those it touches.
LEMMA MovedBuckets ==
  ASSUME InnerOK(inner), NEW q \in Rectangles, NEW into,
         into = [n \in inner |-> {c \in children(n) : intersects(q, bounds(c))}]
  PROVE  {n \in TreeOf(inner) : Along(into, n) /\ intersects(q, bounds(Root))}
           = {n \in TreeOf(inner) : intersects(q, bounds(n))}
<1>1. \A n \in TreeOf(inner) : n \in Paths /\ Len(n) \in Nat
  BY Buckets4
<1>2. ASSUME NEW c \in TreeOf(inner), c # Root
      PROVE  \E n \in inner : /\ c \in children(n) /\ n \in Paths /\ n \in TreeOf(inner) /\ Len(c) = Len(n) + 1
                              /\ Along(into, c) <=> Along(into, n) /\ intersects(q, bounds(c))
  <2>1. PICK n \in inner : c \in children(n)
    BY <1>2 DEF TreeOf
  <2>2. n \in Paths /\ n \in TreeOf(inner)
    BY <1>1, Buckets4
  <2>3. Len(c) = Len(n) + 1
    BY <2>1, <2>2, ChildLevel
  <2>4. Along(into, c) <=> Along(into, n) /\ c \in into[n]
    BY <2>1, <2>2, AlongChild
  <2>5. c \in into[n] <=> intersects(q, bounds(c))
    BY <2>1
  <2>6. QED
    BY <2>1, <2>2, <2>3, <2>4, <2>5
<1>3. ASSUME NEW c \in TreeOf(inner), Along(into, c), intersects(q, bounds(Root))
      PROVE  intersects(q, bounds(c))
  BY <1>2, <1>3
<1> DEFINE off == {k \in Nat : \E c \in TreeOf(inner) : /\ Len(c) = k /\ intersects(q, bounds(c))
                                    /\ ~(Along(into, c) /\ intersects(q, bounds(Root)))}
<1>4. off = {}
  <2> SUFFICES ASSUME off # {} PROVE FALSE
    OBVIOUS
  <2>1. PICK k \in off : \A i \in off : k <= i
    <3> off \subseteq Nat
      OBVIOUS
    <3> HIDE DEF off
    <3>1. QED
      BY LeastNumber
  <2>2. PICK c \in TreeOf(inner) : /\ Len(c) = k /\ intersects(q, bounds(c))
                                   /\ ~(Along(into, c) /\ intersects(q, bounds(Root)))
    OBVIOUS
  <2>3. c # Root
    BY <2>2, AlongRoot
  <2>4. PICK n \in inner : /\ c \in children(n) /\ n \in Paths /\ n \in TreeOf(inner) /\ Len(c) = Len(n) + 1
                           /\ Along(into, c) <=> Along(into, n) /\ intersects(q, bounds(c))
    BY <1>2, <2>3
  <2>5. intersects(q, bounds(n))
    BY <2>2, <2>4, TouchUp
  <2>6. Len(n) \in Nat /\ ~(k <= Len(n))
    BY <1>1, <2>2, <2>4
  <2>7. Len(n) \notin off
    BY <2>1, <2>6
  <2>8. Along(into, n) /\ intersects(q, bounds(Root))
    BY <2>4, <2>5, <2>6, <2>7
  <2>9. QED
    BY <2>2, <2>4, <2>8
<1>5. ASSUME NEW c \in TreeOf(inner), intersects(q, bounds(c))
      PROVE  Along(into, c) /\ intersects(q, bounds(Root))
  BY <1>1, <1>4, <1>5
<1>6. QED
  BY <1>3, <1>5

LEMMA MigrateQuad ==
  ASSUME QuadInv, MigrateNodesQuad
  PROVE  QuadInv'
<1>1. PICK q, into, moved :
        /\ q = Cells[cell + 1]
        /\ into = [n \in inner |-> {c \in children(n) : intersects(q, bounds(c))}]
        /\ moved = IF intersects(bounds(Root), q) THEN Reached(into) ELSE {}
  OBVIOUS
<1>2. /\ cell < Len(Cells) /\ cell' = cell + 1 /\ UNCHANGED <<objects, inner, qt, bound>>
      /\ numa' = [n \in Buckets |-> IF n \in moved THEN cell' ELSE numa[n]]
  BY <1>1, Zenon DEF MigrateNodesQuad
<1>3. InnerOK(inner) /\ Buckets = TreeOf(inner)
  <2>1. InnerOK(tree.inner) /\ tree.objects \in [TreeOf(tree.inner) -> SUBSET Objects]
    BY DEF QuadInv, Sound, Shape
  <2>2. tree.inner = inner /\ tree.objects = objects
    BY DEF tree
  <2>3. QED
    BY <2>1, <2>2 DEF Buckets
<1>4. Len(Cells) \in Nat /\ cell \in Nat /\ cell + 1 \in 1..Len(Cells) /\ cell + 1 \in 0..Len(Cells)
  BY <1>2, RectanglesAssumption, LenProperties DEF QuadInv, Moved
<1>5. q \in Rectangles
  BY <1>1, <1>4, RectanglesAssumption, ElementOfSeq
<1>6. intersects(bounds(Root), q) <=> intersects(q, bounds(Root))
  <2>1. PICK a : a = bounds(Root)
    OBVIOUS
  <2>2. a.x \in Nat /\ a.y \in Nat /\ a.width \in Nat /\ a.height \in Nat
    BY <2>1, BoundsOf, RootPath DEF Squares
  <2>3. q.x \in Int /\ q.y \in Int /\ q.width \in Nat /\ q.height \in Nat
    BY <1>5 DEF Rectangles
  <2>4. intersects(a, q) <=> intersects(q, a)
    BY <2>2, <2>3 DEF intersects
  <2>5. QED
    BY <2>1, <2>4
<1>7. moved = {n \in Buckets : intersects(q, bounds(n))}
  <2>1. \A n \in inner : into[n] \subseteq children(n)
    BY <1>1
  <2>2. Reached(into) = {n \in TreeOf(inner) : Along(into, n)}
    BY <1>3, <2>1, ReachedIs
  <2>3. {n \in TreeOf(inner) : Along(into, n) /\ intersects(q, bounds(Root))}
           = {n \in TreeOf(inner) : intersects(q, bounds(n))}
    BY <1>1, <1>3, <1>5, MovedBuckets
  <2>4. QED
    BY <1>1, <1>3, <1>6, <2>2, <2>3
<1>8. Sound(tree, qt)'
  <2>1. tree' = tree /\ qt' = qt
    BY <1>2 DEF tree
  <2>2. Sound(tree', qt')
    BY <2>1 DEF QuadInv
  <2>3. QED
    BY <2>2 DEF Sound, Shape, Pointed, Roomy, Hollow, TreeOf, InnerOK
<1>9. Placed'
  BY <1>2 DEF QuadInv, Placed
<1>10. Moved'
  <2>1. Buckets' = Buckets /\ DOMAIN numa' = Buckets
    BY <1>2 DEF Buckets
  <2>2. ASSUME NEW n \in Buckets
        PROVE  numa'[n] \in 0..cell' /\ numa'[n] = LastCell(n, cell')
    <3>1. numa[n] \in 0..cell /\ numa[n] = LastCell(n, cell)
      BY DEF QuadInv, Moved
    <3>2. LastCell(n, cell + 1) = IF intersects(Cells[cell + 1], bounds(n)) THEN cell + 1 ELSE numa[n]
      BY <1>4, <3>1, NextCell
    <3>3. numa'[n] = IF intersects(q, bounds(n)) THEN cell + 1 ELSE numa[n]
      BY <1>2, <1>7
    <3>4. numa'[n] \in 0..(cell + 1)
      BY <1>4, <3>1, <3>3
    <3>5. QED
      BY <1>1, <1>2, <3>2, <3>3, <3>4
  <2>3. cell' \in 0..Len(Cells)
    BY <1>2, <1>4
  <2>4. QED
    BY <2>1, <2>2, <2>3 DEF Moved, LastCell
<1>11. QED
  BY <1>8, <1>9, <1>10 DEF QuadInv

LEMMA NextQuad == QuadInv /\ [Next]_vars => QuadInv'
<1> SUFFICES ASSUME QuadInv, [Next]_vars PROVE QuadInv'
  OBVIOUS
<1>1. ASSUME NEW o \in Objects, NEW p \in Places, insert(o, p) PROVE QuadInv'
  BY <1>1, InsertQuad
<1>2. ASSUME NEW o \in Objects, remove(o) PROVE QuadInv'
  BY <1>2, RemoveQuad
<1>3. ASSUME NEW o \in Objects, NEW p \in Places, update(o, p) PROVE QuadInv'
  BY <1>3, UpdateQuad
<1>4. CASE clear
  BY <1>4, ClearQuad
<1>5. CASE MigrateNodesQuad
  BY <1>5, MigrateQuad
<1>6. CASE UNCHANGED vars
  <2>1. UNCHANGED <<objects, inner, qt, bound, numa, cell>>
    BY <1>6 DEF vars
  <2>2. Sound(tree, qt)'
    <3>1. tree' = tree /\ qt' = qt
      BY <2>1 DEF tree
    <3>2. Sound(tree', qt')
      BY <3>1 DEF QuadInv
    <3>3. QED
      BY <3>2 DEF Sound, Shape, Pointed, Roomy, Hollow, TreeOf, InnerOK
  <2>3. Placed'
    BY <2>1 DEF QuadInv, Placed
  <2>4. Moved'
    BY <2>1 DEF QuadInv, Moved, Buckets, LastCell
  <2>5. QED
    BY <2>2, <2>3, <2>4 DEF QuadInv
<1>7. QED
  BY <1>1, <1>2, <1>3, <1>4, <1>5, <1>6 DEF Next, Done

LEMMA QuadAlways == Spec => []QuadInv
<1>1. QED
  BY InitQuad, NextQuad, PTL DEF Spec

\* The tree of a state, its buckets and its inner buckets.
LEMMA TreeNow ==
  ASSUME QuadInv
  PROVE  /\ InnerOK(inner) /\ Buckets = TreeOf(inner) /\ objects \in [Buckets -> SUBSET Objects]
         /\ tree.inner = inner /\ tree.objects = objects
<1>1. InnerOK(tree.inner) /\ tree.objects \in [TreeOf(tree.inner) -> SUBSET Objects]
  BY DEF QuadInv, Sound, Shape
<1>2. tree.inner = inner /\ tree.objects = objects
  BY DEF tree
<1>3. QED
  BY <1>1, <1>2 DEF Buckets

(***************************************************************************)
(* Every variable has its type, and a bucket is inner if and only if its   *)
(* four children are there.                                                *)
(***************************************************************************)
THEOREM QuadTypes == Spec => []TypeOK
<1>1. QuadInv => TypeOK
  <2> SUFFICES ASSUME QuadInv PROVE TypeOK
    OBVIOUS
  <2>1. InnerOK(inner) /\ Buckets = TreeOf(inner) /\ objects \in [Buckets -> SUBSET Objects]
    BY TreeNow
  <2>2. inner \subseteq Buckets /\ Root \in Buckets
    BY <2>1, Buckets4
  <2>3. \A n \in Buckets : /\ Len(n) <= maxLevel /\ objects[n] \subseteq Objects
                           /\ n \in inner <=> \E c \in children(n) : c \in Buckets
                           /\ n \in inner <=> children(n) \subseteq Buckets
    BY <2>1, Buckets4
  <2>4. DOMAIN numa = Buckets /\ \A n \in Buckets : numa[n] \in 0..Len(Cells)
    BY RectanglesAssumption, LenProperties DEF QuadInv, Moved
  <2>5. QED
    BY <2>2, <2>3, <2>4 DEF TypeOK, QuadInv, Placed, Moved
<1>2. QED
  BY <1>1, QuadAlways, PTL

(***************************************************************************)
(* Pointers and buckets agree, and between calls no leaf is full and no    *)
(* inner bucket hollow, for any objects, capacity and depth.               *)
(***************************************************************************)
THEOREM QuadSound == Spec => []TreeSound
<1>1. QuadInv => TreeSound
  <2> SUFFICES ASSUME QuadInv PROVE TreeSound
    OBVIOUS
  <2>1. Buckets = TreeOf(inner) /\ tree.inner = inner /\ tree.objects = objects
    BY TreeNow
  <2>2. PointersTrue
    BY <2>1 DEF QuadInv, Sound, Pointed, PointersTrue
  <2>3. NeitherFullNorHollow
    BY <2>1 DEF QuadInv, Sound, Roomy, NeitherFullNorHollow
  <2>4. QED
    BY <2>2, <2>3 DEF TreeSound
<1>2. QED
  BY <1>1, QuadAlways, PTL

(***************************************************************************)
(* The migration leaves every bucket where the last cell that touches it   *)
(* belongs, for any tree and any cells: it leaves out no bucket below one  *)
(* the cell does not touch.                                                *)
(***************************************************************************)
THEOREM QuadMigrated == Spec => []BucketsFollowTheirCell
<1>1. QuadInv => BucketsFollowTheirCell
  <2> SUFFICES ASSUME QuadInv, cell = Len(Cells), NEW n \in Buckets
               PROVE  numa[n] = Max({0} \cup {c \in DOMAIN Cells : intersects(Cells[c], bounds(n))})
    BY DEF BucketsFollowTheirCell
  <2>1. DOMAIN Cells = 1..cell
    BY RectanglesAssumption, LenProperties
  <2>2. QED
    BY <2>1 DEF QuadInv, Moved, LastCell
<1>2. QED
  BY <1>1, QuadAlways, PTL

-------------------------------------------------------------------------------
\* How wide a bucket is depends on its level only.
LEMMA WidthRun ==
  /\ Width[0] = Side /\ \A k \in 1..maxLevel + 1 : Width[k] = Width[k - 1] \div 2
  /\ \A k \in 0..maxLevel + 1 : Width[k] \in Nat
<1> DEFINE N == maxLevel + 1
<1>1. N \in Nat /\ Side \in Nat
  BY CapacityAssumption, SideAssumption
<1>2. PICK G : G = [p \in (1..N) \X Nat |-> p[2] \div 2]
  OBVIOUS
<1>3. /\ G \in [(1..N) \X Nat -> Nat]
      /\ \A k \in 1..N : \A a \in Nat : G[<<k, a>>] = a \div 2
  BY <1>2, Halves
<1> HIDE DEF N
<1>4. PICK g \in [0..N -> Nat] : g[0] = Side /\ \A k \in 1..N : g[k] = G[<<k, g[k - 1]>>]
  <2>1. LoopRuns(N, Nat, Side, G)
    BY <1>1, <1>3, Loop
  <2>2. QED
    BY <2>1 DEF LoopRuns
<1> DEFINE e(f, k) == IF k = 0 THEN Side ELSE f[k - 1] \div 2
<1>5. g = [k \in 0..N |-> e(g, k)]
  <2>1. \A k \in 0..N : g[k] = e(g, k)
    <3> SUFFICES ASSUME NEW k \in 0..N PROVE g[k] = e(g, k)
      OBVIOUS
    <3>1. CASE k = 0
      BY <1>4, <3>1
    <3>2. CASE k # 0
      <4>1. k \in 1..N /\ k - 1 \in 0..N
        BY <1>1, <3>2
      <4>2. g[k] = G[<<k, g[k - 1]>>] /\ g[k - 1] \in Nat
        BY <1>4, <4>1
      <4>3. QED
        BY <1>3, <3>2, <4>1, <4>2
    <3>3. QED
      BY <3>1, <3>2
  <2> HIDE DEF e
  <2>2. QED
    BY <1>4, <2>1
<1>6. Width = CHOOSE f : f = [k \in 0..N |-> e(f, k)]
  BY Zenon DEF Width, N
<1>7. Width = [k \in 0..N |-> e(Width, k)]
  <2> HIDE DEF e
  <2>1. QED
    BY <1>5, <1>6, Zenon
<1>8. Width[0] = Side /\ \A k \in 1..N : Width[k] = Width[k - 1] \div 2
  <2>1. \A k \in 0..N : Width[k] = e(Width, k)
    <3> HIDE DEF e
    <3>1. QED
      BY <1>7
  <2>2. 0 \in 0..N /\ \A k \in 1..N : k \in 0..N /\ k # 0
    BY <1>1
  <2>3. QED
    BY <2>1, <2>2
<1>9. \A k \in 0..N : Width[k] \in Nat
  <2>1. \A k \in 1..N : Width[k - 1] \in Nat => Width[k] = G[<<k, Width[k - 1]>>]
    BY <1>3, <1>8
  <2> HIDE DEF e
  <2>2. QED
    BY <1>1, <1>3, <1>8, <2>1, LoopStays
<1>10. QED
  BY <1>8, <1>9 DEF N

LEMMA WidthOf ==
  ASSUME NEW n \in Paths, Len(n) <= maxLevel
  PROVE  bounds(n).width = Width[Len(n)] /\ bounds(n).height = Width[Len(n)]
<1> DEFINE Wide(c) == bounds(c).width = Width[Len(c)] /\ bounds(c).height = Width[Len(c)]
           off == {k \in 0..maxLevel : \E c \in Paths : Len(c) = k /\ ~Wide(c)}
<1>1. \A c \in Paths : Len(c) \in Nat
  BY LenProperties DEF Paths
<1>2. off = {}
  <2> SUFFICES ASSUME off # {} PROVE FALSE
    OBVIOUS
  <2>1. PICK k \in off : \A i \in off : k <= i
    <3> off \subseteq Nat
      OBVIOUS
    <3> HIDE DEF off
    <3>1. QED
      BY LeastNumber
  <2>2. PICK c \in Paths : Len(c) = k /\ ~Wide(c)
    OBVIOUS
  <2>3. c # Root
    <3>1. Wide(Root)
      BY BoundsOf, RootPath, WidthRun DEF Whole, Rect
    <3>2. QED
      BY <2>2, <3>1
  <2>4. PICK m \in Paths : c \in children(m)
    BY <2>3, ParentOf
  <2>5. PICK i \in 0..3 : c = m \o <<i>>
    BY <2>4 DEF children
  <2>6. Len(m) \in 0..maxLevel /\ Len(c) = Len(m) + 1 /\ ~(k <= Len(m)) /\ Len(c) \in 1..maxLevel + 1
    <3>1. Len(c) = Len(m) + 1 /\ Len(m) \in Nat
      BY <2>4, ChildLevel
    <3>2. QED
      BY <2>2, <3>1, CapacityAssumption
  <2>7. Wide(m)
    BY <2>1, <2>6
  <2>8. bounds(c).width = bounds(m).width \div 2 /\ bounds(c).height = bounds(m).height \div 2
    <3>1. bounds(c) = Quarter(bounds(m), i)
      <4>1. bounds(m \o <<i>>) = Quarter(bounds(m), i)
        BY BoundsOf
      <4>2. QED
        BY <2>5, <4>1
    <3>2. PICK a : a = bounds(m)
      OBVIOUS
    <3>3. Quarter(a, i).width = a.width \div 2 /\ Quarter(a, i).height = a.height \div 2
      BY DEF Quarter, Rect
    <3>4. QED
      BY <3>1, <3>2, <3>3
  <2>9. Width[Len(c)] = Width[Len(m)] \div 2
    <3>1. Width[Len(c)] = Width[Len(c) - 1] \div 2
      BY <2>6, WidthRun
    <3>2. Len(c) - 1 = Len(m)
      BY <2>6
    <3>3. QED
      BY <3>1, <3>2
  <2>10. QED
    BY <2>2, <2>7, <2>8, <2>9
<1>3. Len(n) \in 0..maxLevel
  BY <1>1, CapacityAssumption
<1>4. QED
  BY <1>2, <1>3

\* The lines between the children of a bucket are in the middle of it.
LEMMA Middle ==
  ASSUME NEW n \in Paths, Len(n) <= maxLevel, NEW b, b = bounds(n)
  PROVE  /\ b.x \in Nat /\ b.y \in Nat /\ b.width \in Nat /\ b.height \in Nat
         /\ b.width \div 2 \in Nat /\ b.height \div 2 \in Nat
         /\ b.width = 2 * (b.width \div 2) /\ b.height = 2 * (b.height \div 2)
<1>1. b.x \in Nat /\ b.y \in Nat /\ b.width \in Nat /\ b.height \in Nat
  BY BoundsOf DEF Squares
<1>2. PICK w : w = Width[Len(n)]
  OBVIOUS
<1>3. b.width = w /\ b.height = w
  BY <1>2, WidthOf
<1>4. Len(n) \in 0..maxLevel
  BY LenProperties, CapacityAssumption DEF Paths
<1>5. w % 2 = 0 /\ w \in Nat
  BY <1>1, <1>2, <1>3, <1>4, SideAssumption
<1>6. w = 2 * (w \div 2) /\ w \div 2 \in Nat
  BY <1>5
<1>7. QED
  BY <1>1, <1>3, <1>6

\* Which child a rectangle belongs to.
LEMMA ChildIff ==
  ASSUME NEW n \in Paths, NEW a \in Rectangles, NEW b, b = bounds(n), NEW w, NEW h,
         w = b.width \div 2, h = b.height \div 2
  PROVE  /\ getChild(n, a) = 0 <=> a.x > b.x + w /\ a.y + a.height < b.y + h
         /\ getChild(n, a) = 1 <=> a.x + a.width < b.x + w /\ a.y + a.height < b.y + h
         /\ getChild(n, a) = 2 <=> a.x + a.width < b.x + w /\ a.y > b.y + h
         /\ getChild(n, a) = 3 <=> a.x > b.x + w /\ a.y > b.y + h
<1> DEFINE left == a.x + a.width < b.x + w
           right == a.x > b.x + w
           top == a.y + a.height < b.y + h
           bottom == a.y > b.y + h
<1>1. b.x \in Nat /\ b.y \in Nat /\ b.width \in Nat /\ b.height \in Nat
  BY BoundsOf DEF Squares
<1>2. w \in Nat /\ h \in Nat
  BY <1>1, Halves
<1>3. a.x \in Int /\ a.y \in Int /\ a.width \in Nat /\ a.height \in Nat
  BY DEF Rectangles
<1>4. getChild(n, a) = CASE top /\ left -> 1 [] top /\ right -> 0
                         [] bottom /\ left -> 2 [] bottom /\ right -> 3
                         [] OTHER -> -1
  BY DEF getChild, getRight, getTop
<1>5. ~(left /\ right) /\ ~(top /\ bottom)
  BY <1>1, <1>2, <1>3
<1> HIDE DEF left, right, top, bottom
<1>6. /\ getChild(n, a) = 0 <=> right /\ top
      /\ getChild(n, a) = 1 <=> left /\ top
      /\ getChild(n, a) = 2 <=> left /\ bottom
      /\ getChild(n, a) = 3 <=> right /\ bottom
  BY <1>4, <1>5
<1>7. QED
  BY <1>6 DEF left, right, top, bottom

\* A point of a bucket that belongs to a child is in it.
LEMMA InChild ==
  ASSUME NEW n \in Paths, Len(n) <= maxLevel, NEW p \in Int \X Int, contains(bounds(n), Point(p)),
         getChild(n, Point(p)) >= 0
  PROVE  contains(bounds(n \o <<getChild(n, Point(p))>>), Point(p))
<1>1. PICK a, i, b, w, h : /\ a = Point(p) /\ i = getChild(n, Point(p)) /\ b = bounds(n)
                           /\ w = b.width \div 2 /\ h = b.height \div 2
  OBVIOUS
<1>2. i \in 0..3
  BY <1>1, ChildNumber
<1>3. a.x \in Int /\ a.y \in Int /\ a.width = 0 /\ a.height = 0 /\ a \in Rectangles
  BY <1>1 DEF Point, Rect, Rectangles
<1>4. /\ b.x \in Nat /\ b.y \in Nat /\ b.width \in Nat /\ b.height \in Nat
      /\ w \in Nat /\ h \in Nat /\ b.width = 2 * w /\ b.height = 2 * h
  BY <1>1, Middle
<1>5. /\ i = 0 <=> a.x > b.x + w /\ a.y + a.height < b.y + h
      /\ i = 1 <=> a.x + a.width < b.x + w /\ a.y + a.height < b.y + h
      /\ i = 2 <=> a.x + a.width < b.x + w /\ a.y > b.y + h
      /\ i = 3 <=> a.x > b.x + w /\ a.y > b.y + h
  BY <1>1, <1>3, ChildIff
<1>6. /\ b.x <= a.x /\ b.x + b.width >= a.x + a.width
      /\ b.y <= a.y /\ b.y + b.height >= a.y + a.height
  BY <1>1 DEF contains
<1>7. PICK c : c = bounds(n \o <<i>>)
  OBVIOUS
<1>8. /\ c.x = IF i \in {0, 3} THEN b.x + w ELSE b.x
      /\ c.y = IF i \in {2, 3} THEN b.y + h ELSE b.y
      /\ c.width = w /\ c.height = h
  <2>1. c = Quarter(b, i)
    BY <1>1, <1>2, <1>7, BoundsOf
  <2>2. QED
    BY <1>1, <2>1 DEF Quarter, Rect
<1>9. PICK ax, ay, aw, ah, bx, by, bw, bh :
        /\ ax = a.x /\ ay = a.y /\ aw = a.x + a.width /\ ah = a.y + a.height
        /\ bx = b.x /\ by = b.y /\ bw = b.x + b.width /\ bh = b.y + b.height
  OBVIOUS
<1>10. /\ ax \in Int /\ ay \in Int /\ aw = ax /\ ah = ay /\ bx \in Nat /\ by \in Nat
       /\ bw = bx + 2 * w /\ bh = by + 2 * h /\ w \in Nat /\ h \in Nat
       /\ bx <= ax /\ aw <= bw /\ by <= ay /\ ah <= bh
  <2>1. ax \in Int /\ ay \in Int /\ aw = ax /\ ah = ay /\ bx \in Nat /\ by \in Nat
    BY <1>3, <1>4, <1>9
  <2>2. bw = bx + 2 * w /\ bh = by + 2 * h /\ w \in Nat /\ h \in Nat
    BY <1>4, <1>9
  <2>3. bx <= ax /\ bw >= aw /\ by <= ay /\ bh >= ah
    BY <1>6, <1>9
  <2>4. QED
    BY <2>1, <2>2, <2>3
<1>11. c.x <= a.x /\ c.x + c.width >= a.x + a.width
  <2>1. CASE i \in {0, 3}
    <3>1. c.x = bx + w /\ c.width = w
      BY <1>8, <1>9, <2>1
    <3>2. ax > bx + w
      BY <1>5, <1>9, <2>1
    <3>3. bx + w <= ax /\ bx + w + w >= aw
      BY <1>10, <3>2
    <3>4. QED
      BY <1>9, <3>1, <3>3
  <2>2. CASE i \in {1, 2}
    <3>1. c.x = bx /\ c.width = w
      BY <1>8, <1>9, <2>2
    <3>2. aw < bx + w
      BY <1>5, <1>9, <2>2
    <3>3. bx <= ax /\ bx + w >= aw
      BY <1>10, <3>2
    <3>4. QED
      BY <1>9, <3>1, <3>3
  <2>3. QED
    BY <1>2, <2>1, <2>2
<1>12. c.y <= a.y /\ c.y + c.height >= a.y + a.height
  <2>1. CASE i \in {2, 3}
    <3>1. c.y = by + h /\ c.height = h
      BY <1>8, <1>9, <2>1
    <3>2. ay > by + h
      BY <1>5, <1>9, <2>1
    <3>3. by + h <= ay /\ by + h + h >= ah
      BY <1>10, <3>2
    <3>4. QED
      BY <1>9, <3>1, <3>3
  <2>2. CASE i \in {0, 1}
    <3>1. c.y = by /\ c.height = h
      BY <1>8, <1>9, <2>2
    <3>2. ah < by + h
      BY <1>5, <1>9, <2>2
    <3>3. by <= ay /\ by + h >= ah
      BY <1>10, <3>2
    <3>4. QED
      BY <1>9, <3>1, <3>3
  <2>3. QED
    BY <1>2, <2>1, <2>2
<1>13. QED
  BY <1>1, <1>7, <1>11, <1>12 DEF contains

\* Where a rectangle fits into a child, so does a point of it.
LEMMA SameChild ==
  ASSUME NEW n \in Paths, NEW p \in Int \X Int, NEW q \in Rectangles, intersects(Point(p), q),
         getChild(n, q) >= 0
  PROVE  getChild(n, Point(p)) = getChild(n, q)
<1>1. PICK a, b, w, h : /\ a = Point(p) /\ b = bounds(n)
                        /\ w = b.width \div 2 /\ h = b.height \div 2
  OBVIOUS
<1>2. a.x \in Int /\ a.y \in Int /\ a.width = 0 /\ a.height = 0 /\ a \in Rectangles
  BY <1>1 DEF Point, Rect, Rectangles
<1>3. b.x \in Nat /\ b.y \in Nat /\ w \in Nat /\ h \in Nat
  BY <1>1, BoundsOf, Halves DEF Squares
<1>4. q.x \in Int /\ q.y \in Int /\ q.width \in Nat /\ q.height \in Nat
  BY DEF Rectangles
<1>5. /\ a.x <= q.x + q.width /\ a.x >= q.x
      /\ a.y <= q.y + q.height /\ a.y >= q.y
  BY <1>1, <1>2 DEF intersects
<1>6. /\ getChild(n, a) = 0 <=> a.x > b.x + w /\ a.y + a.height < b.y + h
      /\ getChild(n, a) = 1 <=> a.x + a.width < b.x + w /\ a.y + a.height < b.y + h
      /\ getChild(n, a) = 2 <=> a.x + a.width < b.x + w /\ a.y > b.y + h
      /\ getChild(n, a) = 3 <=> a.x > b.x + w /\ a.y > b.y + h
  BY <1>1, <1>2, ChildIff
<1>7. /\ getChild(n, q) = 0 <=> q.x > b.x + w /\ q.y + q.height < b.y + h
      /\ getChild(n, q) = 1 <=> q.x + q.width < b.x + w /\ q.y + q.height < b.y + h
      /\ getChild(n, q) = 2 <=> q.x + q.width < b.x + w /\ q.y > b.y + h
      /\ getChild(n, q) = 3 <=> q.x > b.x + w /\ q.y > b.y + h
  BY <1>1, ChildIff
<1>8. PICK i \in 0..3 : i = getChild(n, q)
  BY ChildNumber
<1>9. CASE i = 0
  BY <1>1, <1>2, <1>3, <1>4, <1>5, <1>6, <1>7, <1>8, <1>9
<1>10. CASE i = 1
  BY <1>1, <1>2, <1>3, <1>4, <1>5, <1>6, <1>7, <1>8, <1>10
<1>11. CASE i = 2
  BY <1>1, <1>2, <1>3, <1>4, <1>5, <1>6, <1>7, <1>8, <1>11
<1>12. CASE i = 3
  BY <1>1, <1>2, <1>3, <1>4, <1>5, <1>6, <1>7, <1>8, <1>12
<1>13. QED
  BY <1>9, <1>10, <1>11, <1>12

-------------------------------------------------------------------------------
\* The way to a child is the way to its parent and one step more.
LEMMA OnWayUp ==
  ASSUME NEW n \in Paths, NEW i \in 0..3, NEW a, OnWay(n \o <<i>>, a)
  PROVE  OnWay(n, a) /\ getChild(n, a) = i
<1>1. PICK c : c = n \o <<i>>
  OBVIOUS
<1>2. /\ c \in Paths /\ Len(c) = Len(n) + 1 /\ Len(n) \in Nat
      /\ c[Len(n) + 1] = i /\ \A k \in 1..Len(n) : c[k] = n[k]
  BY <1>1, ChildOf
<1>3. \A k \in 0..Len(n) : Upto(c, k) = Upto(n, k)
  BY <1>1, UptoChild
<1>4. \A k \in 1..Len(c) : c[k] = getChild(Upto(c, k - 1), a)
  BY <1>1 DEF OnWay
<1>5. ASSUME NEW k \in 1..Len(n) PROVE n[k] = getChild(Upto(n, k - 1), a)
  <2>1. k \in 1..Len(c) /\ k - 1 \in 0..Len(n)
    BY <1>2
  <2>2. c[k] = n[k] /\ Upto(c, k - 1) = Upto(n, k - 1)
    BY <1>2, <1>3, <2>1
  <2>3. c[k] = getChild(Upto(c, k - 1), a)
    BY <1>4, <2>1
  <2>4. QED
    BY <2>2, <2>3
<1>6. getChild(n, a) = i
  <2>1. Len(n) + 1 \in 1..Len(c) /\ Len(n) + 1 - 1 = Len(n) /\ Len(n) \in 0..Len(n)
    BY <1>2
  <2>2. Upto(c, Len(n)) = n
    BY <1>3, <2>1, UptoOf
  <2>3. c[Len(n) + 1] = getChild(Upto(c, Len(n) + 1 - 1), a)
    BY <1>4, <2>1
  <2>4. QED
    BY <1>2, <2>1, <2>2, <2>3
<1>7. QED
  BY <1>5, <1>6 DEF OnWay

\* The children that a query goes on with.
Asked(q) ==
  [n \in inner |-> IF getChild(n, q) >= 0 THEN {n \o <<getChild(n, q)>>}
                   ELSE {c \in children(n) : intersects(bounds(c), q)}]

LEMMA AskedChildren ==
  ASSUME NEW q, NEW n \in inner
  PROVE  Asked(q)[n] \subseteq children(n)
<1>1. getChild(n, q) >= 0 => n \o <<getChild(n, q)>> \in children(n)
  <2>1. getChild(n, q) >= 0 => getChild(n, q) \in 0..3
    BY ChildNumber
  <2>2. QED
    BY <2>1 DEF children
<1>2. QED
  BY <1>1 DEF Asked

\* What touches a part of a bucket touches the bucket.
LEMMA Overlap ==
  ASSUME NEW b \in Squares, NEW a \in Rectangles, NEW q \in Rectangles, contains(b, a), intersects(a, q)
  PROVE  intersects(b, q)
<1>1. PICK bx, by, bw, bh, ax, ay, aw, ah, qx, qy, qw, qh :
        /\ bx = b.x /\ by = b.y /\ bw = b.x + b.width /\ bh = b.y + b.height
        /\ ax = a.x /\ ay = a.y /\ aw = a.x + a.width /\ ah = a.y + a.height
        /\ qx = q.x /\ qy = q.y /\ qw = q.x + q.width /\ qh = q.y + q.height
  OBVIOUS
<1>2. bx \in Int /\ by \in Int /\ bw \in Int /\ bh \in Int
  BY <1>1 DEF Squares
<1>3. ax \in Int /\ ay \in Int /\ aw \in Int /\ ah \in Int
  BY <1>1 DEF Rectangles
<1>4. qx \in Int /\ qy \in Int /\ qw \in Int /\ qh \in Int
  BY <1>1 DEF Rectangles
<1>5. bx <= ax /\ aw <= bw /\ by <= ay /\ ah <= bh
  <2>1. bx <= ax /\ bw >= aw /\ by <= ay /\ bh >= ah
    BY <1>1, Zenon DEF contains
  <2>2. QED
    BY <1>2, <1>3, <2>1
<1>6. ax <= qw /\ qx <= aw /\ ay <= qh /\ qy <= ah
  <2>1. ax <= qw /\ aw >= qx /\ ay <= qh /\ ah >= qy
    BY <1>1, Zenon DEF intersects
  <2>2. QED
    BY <1>3, <1>4, <2>1
<1>7. bx <= qw /\ bw >= qx /\ by <= qh /\ bh >= qy
  BY <1>2, <1>3, <1>4, <1>5, <1>6
<1>8. QED
  BY <1>1, <1>7, Zenon DEF intersects

\* From a bucket to the child that a point of the query is on the way to, the
\* query goes on, and the child has the point.
LEMMA AskedStep ==
  ASSUME NEW n \in inner, n \in Paths, Len(n) <= maxLevel, NEW c \in children(n), NEW p \in Int \X Int,
         NEW q \in Rectangles, intersects(Point(p), q), contains(bounds(n), Point(p)), OnWay(c, Point(p))
  PROVE  c \in Asked(q)[n] /\ contains(bounds(c), Point(p))
<1>1. PICK i \in 0..3 : c = n \o <<i>>
  BY DEF children
<1>2. PICK a : a = Point(p)
  OBVIOUS
<1>3. getChild(n, a) = i
  BY <1>1, <1>2, OnWayUp
<1>4. contains(bounds(c), a)
  <2>1. getChild(n, Point(p)) >= 0
    BY <1>2, <1>3
  <2>2. contains(bounds(n \o <<getChild(n, Point(p))>>), Point(p))
    BY <2>1, InChild
  <2>3. QED
    BY <1>1, <1>2, <1>3, <2>2
<1>5. CASE getChild(n, q) >= 0
  <2>1. getChild(n, Point(p)) = getChild(n, q)
    BY <1>5, SameChild
  <2>2. c = n \o <<getChild(n, q)>>
    BY <1>1, <1>2, <1>3, <2>1
  <2>3. QED
    BY <1>2, <1>4, <1>5, <2>2 DEF Asked
<1>6. CASE ~(getChild(n, q) >= 0)
  <2>1. PICK b : b = bounds(c)
    OBVIOUS
  <2>2. b \in Squares /\ a \in Rectangles
    <3>1. b \in Squares
      BY <2>1, ChildLevel, BoundsOf
    <3>2. a \in Rectangles
      BY <1>2 DEF Point, Rect, Rectangles
    <3>3. QED
      BY <3>1, <3>2
  <2>3. intersects(b, q)
    BY <1>2, <1>4, <2>1, <2>2, Overlap
  <2>4. QED
    BY <1>2, <1>4, <1>6, <2>1, <2>3 DEF Asked
<1>7. QED
  BY <1>5, <1>6

\* A query comes to every bucket on the way of a point of it in the tree.
LEMMA InsideReached ==
  ASSUME InnerOK(inner), NEW p \in Int \X Int, NEW q \in Rectangles, intersects(Point(p), q),
         contains(bounds(Root), Point(p))
  PROVE  \A n \in TreeOf(inner) : OnWay(n, Point(p)) => n \in Reached(Asked(q))
<1>1. \A n \in TreeOf(inner) : n \in Paths /\ Len(n) \in Nat /\ Len(n) <= maxLevel
  BY Buckets4
<1> DEFINE Here(n) == Along(Asked(q), n) /\ contains(bounds(n), Point(p))
           off == {k \in Nat : \E c \in TreeOf(inner) : Len(c) = k /\ OnWay(c, Point(p)) /\ ~Here(c)}
<1>2. off = {}
  <2> SUFFICES ASSUME off # {} PROVE FALSE
    OBVIOUS
  <2>1. PICK k \in off : \A i \in off : k <= i
    <3> off \subseteq Nat
      OBVIOUS
    <3> HIDE DEF off
    <3>1. QED
      BY LeastNumber
  <2>2. PICK c \in TreeOf(inner) : Len(c) = k /\ OnWay(c, Point(p)) /\ ~Here(c)
    OBVIOUS
  <2>3. c # Root
    BY <2>2, AlongRoot
  <2>4. PICK n \in inner : c \in children(n)
    BY <2>3 DEF TreeOf
  <2>5. n \in TreeOf(inner) /\ n \in Paths /\ Len(n) <= maxLevel
    BY <1>1, Buckets4
  <2>6. Len(c) = Len(n) + 1 /\ Len(n) \in Nat
    BY <2>4, <2>5, ChildLevel
  <2>7. OnWay(n, Point(p))
    <3>1. PICK i \in 0..3 : c = n \o <<i>>
      BY <2>4 DEF children
    <3>2. QED
      BY <2>2, <2>5, <3>1, OnWayUp
  <2>8. Here(n)
    <3>1. ~(k <= Len(n))
      BY <2>2, <2>6
    <3>2. Len(n) \notin off
      BY <2>1, <3>1
    <3>3. QED
      BY <2>5, <2>6, <2>7, <3>2
  <2>9. c \in Asked(q)[n] /\ contains(bounds(c), Point(p))
    BY <2>2, <2>4, <2>5, <2>8, AskedStep
  <2>10. Along(Asked(q), c)
    BY <2>4, <2>5, <2>8, <2>9, AlongChild
  <2>11. QED
    BY <2>2, <2>9, <2>10
<1>3. Reached(Asked(q)) = {n \in TreeOf(inner) : Along(Asked(q), n)}
  BY AskedChildren, ReachedIs
<1>4. ASSUME NEW n \in TreeOf(inner), OnWay(n, Point(p)) PROVE Along(Asked(q), n)
  BY <1>1, <1>2, <1>4
<1>5. QED
  BY <1>3, <1>4

\* A tree has finitely many buckets.
LEMMA TreeFinite ==
  ASSUME NEW I, InnerOK(I)
  PROVE  IsFiniteSet(TreeOf(I))
<1>1. PICK T : T = UNION {children(n) : n \in I}
  OBVIOUS
<1>2. PICK f : f = [p \in I \X (0..3) |-> p[1] \o <<p[2]>>]
  OBVIOUS
<1>3. f \in Surjection(I \X (0..3), T)
  <2>1. \A p \in I \X (0..3) : f[p] \in T
    <3> SUFFICES ASSUME NEW p \in I \X (0..3) PROVE f[p] \in T
      OBVIOUS
    <3>1. f[p] \in children(p[1]) /\ p[1] \in I
      BY <1>2 DEF children
    <3>2. QED
      BY <1>1, <3>1
  <2>2. \A c \in T : \E p \in I \X (0..3) : f[p] = c
    <3> SUFFICES ASSUME NEW c \in T PROVE \E p \in I \X (0..3) : f[p] = c
      OBVIOUS
    <3>1. PICK n \in I : c \in children(n)
      BY <1>1
    <3>2. PICK i \in 0..3 : c = n \o <<i>>
      BY <3>1 DEF children
    <3>3. <<n, i>> \in I \X (0..3) /\ f[<<n, i>>] = c
      BY <1>2, <3>2
    <3>4. QED
      BY <3>3
  <2>3. f \in [I \X (0..3) -> T]
    BY <1>2, <2>1
  <2>4. QED
    BY <2>2, <2>3 DEF Surjection
<1>4. IsFiniteSet(I \X (0..3))
  <2>1. IsFiniteSet(0..3)
    <3>1. 0 \in Int /\ 3 \in Int
      OBVIOUS
    <3>2. QED
      BY <3>1, FS_Interval, Zenon
  <2>2. IsFiniteSet(I)
    BY DEF InnerOK
  <2>3. QED
    BY <2>1, <2>2, FS_Product
<1>5. IsFiniteSet(T)
  BY <1>3, <1>4, FS_Surjection
<1>6. TreeOf(I) = T \cup {Root}
  BY <1>1 DEF TreeOf
<1>7. QED
  BY <1>5, <1>6, FS_AddElement

-------------------------------------------------------------------------------
\* The objects of bucket n, and of all buckets of S, that query q counts.
Hit(n, q) == {o \in objects[n] : intersects(Point(bound[o]), q)}
Counted(q, S) == UNION {Hit(n, q) : n \in S}

\* The body of the fold that counts them.
CountStep(q, it, s) ==
  IF s = {} THEN 0
  ELSE Cardinality(Hit(CHOOSE x \in s : TRUE, q)) + it[s \ {CHOOSE x \in s : TRUE}]
CountFold(q, R) == (CHOOSE it : it = [s \in SUBSET R |-> CountStep(q, it, s)])[R]

LEMMA CountIsFold ==
  ASSUME NEW q
  PROVE  getObjectsInBound(q) = CountFold(q, Reached(Asked(q)))
BY Zenon DEF getObjectsInBound, MapThenSumSet, MapThenFoldSet, CountFold, CountStep, Hit, Asked

\* Buckets that share no object are counted one by one.
LEMMA OneBucket ==
  ASSUME NEW q, NEW S, NEW x \in S, \A n \in S : Hit(n, q) \subseteq Objects,
         \A n \in S : n # x => Hit(n, q) \cap Hit(x, q) = {}
  PROVE  Cardinality(Counted(q, S)) = Cardinality(Hit(x, q)) + Cardinality(Counted(q, S \ {x}))
<1>1. PICK A, B, C : A = Hit(x, q) /\ B = Counted(q, S \ {x}) /\ C = Counted(q, S)
  OBVIOUS
<1>2. C = A \cup B /\ A \cap B = {}
  BY <1>1 DEF Counted
<1>3. A \subseteq Objects /\ B \subseteq Objects
  BY <1>1 DEF Counted
<1>4. /\ IsFiniteSet(A) /\ Cardinality(A) \in Nat /\ IsFiniteSet(B) /\ Cardinality(B) \in Nat
      /\ Cardinality({}) = 0
  BY <1>3, BucketFinite
<1>5. Cardinality(A \cup B) = Cardinality(A) + Cardinality(B) - Cardinality(A \cap B)
  <2>1. IsFiniteSet(A) /\ IsFiniteSet(B)
    BY <1>4
  <2>2. QED
    BY <2>1, FS_Union, Zenon
<1>6. Cardinality(C) = Cardinality(A) + Cardinality(B)
  <2>1. Cardinality(C) = Cardinality(A) + Cardinality(B) - 0
    BY <1>2, <1>4, <1>5
  <2>2. QED
    BY <1>4, <2>1
<1>7. QED
  BY <1>1, <1>6

LEMMA CountOf ==
  ASSUME NEW q, NEW R, IsFiniteSet(R), \A n \in R : Hit(n, q) \subseteq Objects,
         \A n \in R : \A m \in R : n # m => Hit(n, q) \cap Hit(m, q) = {}
  PROVE  CountFold(q, R) = Cardinality(Counted(q, R))
<1> DEFINE g == [s \in SUBSET R |-> Cardinality(Counted(q, s))]
<1>1. PICK iter : iter = (CHOOSE it : it = [s \in SUBSET R |-> CountStep(q, it, s)])
  OBVIOUS
<1>2. ASSUME NEW s \in SUBSET R, s # {}, NEW x, x = (CHOOSE y \in s : TRUE)
      PROVE  x \in s /\ g[s] = Cardinality(Hit(x, q)) + g[s \ {x}]
  <2>1. x \in s
    BY <1>2
  <2>2. Cardinality(Counted(q, s)) = Cardinality(Hit(x, q)) + Cardinality(Counted(q, s \ {x}))
    <3>1. \A n \in s : Hit(n, q) \subseteq Objects
      OBVIOUS
    <3>2. \A n \in s : n # x => Hit(n, q) \cap Hit(x, q) = {}
      BY <2>1
    <3>3. QED
      BY <2>1, <3>1, <3>2, OneBucket
  <2>3. QED
    BY <2>1, <2>2
<1>3. g[{}] = 0
  <2>1. Counted(q, {}) = {}
    BY DEF Counted
  <2>2. QED
    BY <2>1, FS_EmptySet
<1>4. g = [s \in SUBSET R |-> CountStep(q, g, s)]
  <2>1. \A s \in SUBSET R : g[s] = CountStep(q, g, s)
    <3> HIDE DEF g
    <3>1. QED
      BY <1>2, <1>3 DEF CountStep
  <2>2. QED
    BY <2>1
<1> HIDE DEF g
<1>5. iter = [s \in SUBSET R |-> CountStep(q, iter, s)]
  BY <1>1, <1>4, Zenon
<1>6. iter[R] = g[R]
  <2> DEFINE bad == {s \in SUBSET R : iter[s] # g[s]}
  <2> SUFFICES ASSUME bad # {} PROVE FALSE
    OBVIOUS
  <2>1. PICK m \in bad : \A T \in bad : T \subseteq m => T = m
    <3> bad \subseteq SUBSET R
      OBVIOUS
    <3> HIDE DEF bad
    <3>1. QED
      BY MinimalSubset
  <2>2. iter[m] = CountStep(q, iter, m)
    BY <1>5
  <2>3. m # {}
    BY <1>3, <2>2 DEF CountStep
  <2>4. PICK x : x = (CHOOSE y \in m : TRUE)
    OBVIOUS
  <2>5. x \in m /\ g[m] = Cardinality(Hit(x, q)) + g[m \ {x}]
    BY <1>2, <2>3, <2>4
  <2>6. iter[m \ {x}] = g[m \ {x}]
    BY <2>1, <2>5
  <2>7. iter[m] = Cardinality(Hit(x, q)) + iter[m \ {x}]
    BY <2>2, <2>3, <2>4, Zenon DEF CountStep
  <2>8. QED
    BY <2>1, <2>5, <2>6, <2>7
<1>7. g[R] = Cardinality(Counted(q, R))
  BY DEF g
<1>8. CountFold(q, R) = iter[R]
  BY <1>1 DEF CountFold
<1>9. QED
  BY <1>6, <1>7, <1>8

(***************************************************************************)
(* A query counts every object of the tree that lies in it once, and of    *)
(* the objects beyond the tree's square no more than there are, for any    *)
(* tree and any rectangle: going on with one child, where the rectangle    *)
(* fits into it, loses nothing.                                            *)
(***************************************************************************)
THEOREM QuadQueries == Spec => []QueryExact
<1>1. QuadInv => QueryExact
  <2> SUFFICES ASSUME QuadInv, NEW q \in Queries, NEW hits, NEW inside,
                      hits = {o \in Objects : qt[o] # Nowhere /\ intersects(Point(bound[o]), q)},
                      inside = {o \in hits : contains(bounds(Root), Point(bound[o]))}
               PROVE  getObjectsInBound(q) \in Cardinality(inside)..Cardinality(hits)
    BY Zenon DEF QueryExact
  <2>1. PICK R : R = Reached(Asked(q))
    OBVIOUS
  <2>2. /\ InnerOK(inner) /\ Buckets = TreeOf(inner) /\ objects \in [Buckets -> SUBSET Objects]
        /\ tree.inner = inner /\ tree.objects = objects
    BY TreeNow
  <2>3. q \in Rectangles
    BY RectanglesAssumption
  <2>4. R \subseteq Buckets
    <3>1. R = {n \in TreeOf(inner) : Along(Asked(q), n)}
      BY <2>1, <2>2, AskedChildren, ReachedIs
    <3>2. QED
      BY <2>2, <3>1
  <2>5. IsFiniteSet(R)
    BY <2>2, <2>4, TreeFinite, FS_Subset
  <2>6. \A o \in Objects : \A n \in Buckets : o \in objects[n] <=> qt[o] = n
    BY <2>2 DEF QuadInv, Sound, Pointed
  <2>7. \A n \in R : Hit(n, q) \subseteq Objects
    BY <2>2, <2>4 DEF Hit
  <2>8. \A n \in R : \A m \in R : n # m => Hit(n, q) \cap Hit(m, q) = {}
    BY <2>4, <2>6, <2>7 DEF Hit
  <2>9. getObjectsInBound(q) = Cardinality(Counted(q, R))
    BY <2>1, <2>5, <2>7, <2>8, CountIsFold, CountOf
  <2>10. Counted(q, R) \subseteq hits
    <3>1. ASSUME NEW n \in R, NEW o \in Hit(n, q) PROVE o \in hits
      <4>1. o \in Objects /\ o \in objects[n] /\ intersects(Point(bound[o]), q) /\ n \in Buckets
        BY <2>4, <2>7 DEF Hit
      <4>2. qt[o] = n
        BY <2>6, <4>1
      <4>3. n # Nowhere
        BY <2>2, <4>1, Buckets4, NowhereAssumption DEF Paths
      <4>4. QED
        BY <4>1, <4>2, <4>3
    <3>2. QED
      BY <3>1 DEF Counted
  <2>11. inside \subseteq Counted(q, R)
    <3>1. ASSUME NEW o \in inside PROVE o \in Counted(q, R)
      <4>1. /\ o \in Objects /\ qt[o] # Nowhere /\ intersects(Point(bound[o]), q)
            /\ contains(bounds(Root), Point(bound[o]))
        OBVIOUS
      <4>2. bound[o] \in Int \X Int /\ OnWay(qt[o], Point(bound[o]))
        BY <4>1, ObjectsAssumption DEF QuadInv, Placed
      <4>3. qt[o] \in Buckets
        BY <2>2, <4>1 DEF QuadInv, Sound, Pointed
      <4>4. qt[o] \in R
        BY <2>1, <2>2, <2>3, <4>1, <4>2, <4>3, InsideReached
      <4>5. o \in Hit(qt[o], q)
        BY <2>6, <4>1, <4>3 DEF Hit
      <4>6. QED
        BY <4>4, <4>5 DEF Counted
    <3>2. QED
      BY <3>1
  <2>12. QED
    <3>1. PICK C : C = Counted(q, R)
      OBVIOUS
    <3>2. IsFiniteSet(hits) /\ IsFiniteSet(C) /\ IsFiniteSet(inside)
      BY <2>10, <2>11, <3>1, BucketFinite
    <3>3. Cardinality(inside) <= Cardinality(C) /\ Cardinality(C) <= Cardinality(hits)
      BY <2>10, <2>11, <3>1, <3>2, FS_Subset
    <3>4. Cardinality(inside) \in Nat /\ Cardinality(C) \in Nat /\ Cardinality(hits) \in Nat
      BY <3>2, FS_CardinalityType
    <3>5. QED
      BY <2>9, <3>1, <3>3, <3>4
<1>2. QED
  BY <1>1, QuadAlways, PTL

===============================================================================
