---------------------------- MODULE RTreeQueryProofs ----------------------------
(***************************************************************************)
(* The queries of the R-tree and what it shows to a policy, for any setups *)
(* and between any two calls.                                              *)
(*                                                                         *)
(* Query counts what it is asked for because a box is at least what is     *)
(* below it (BoxesOK), and so does the migration to a grid over the space  *)
(* that the objects lie in (Inside).  KNNQuery finds the nearest by an     *)
(* invariant of its loop, SearchOK: what is below the nodes taken so far   *)
(* is among the results, or as far as they are, or waits in the queue.     *)
(* TopK has a loop of its own, with MergeAt.                               *)
(*                                                                         *)
(* A policy is shown the boxes it then gets because a sweep over an order  *)
(* and a cut of it are one, OneBox, and because what an earlier call has   *)
(* listed is what it would list now, AsListed.  The costs of the built-in  *)
(* strategies are computed beside them: CostKeepsPace follows the one that *)
(* is a loop.                                                              *)
(***************************************************************************)
EXTENDS RTreeProofs, RTreeStates

-------------------------------------------------------------------------------
\* The queries.  A box contains those below it, so whoever overlaps a node
\* overlaps all nodes above it, and a query visits exactly what it overlaps.
LEMMA BoxAbove ==
  ASSUME IInv, NowTight, NEW m \in DOMAIN tree_nodes, NEW y \in Held(tree_nodes, objects, m)
  PROVE  Contains(tree_nodes[m].box, y) /\ tree_nodes[m].box \in RectT /\ y \in RectT
<1> DEFINE T == tree_nodes
<1>1. Whole(T, objects, root, height, minimum_entry, maximum_entry) /\ Stored(objects)
  BY TheTree DEF IInv, TreeOK
<1>2. y \in RectT
  BY <1>1, HeldAreRects
<1>3. T[m].kids # <<>>
  <2>1. Kids(T, m) # {}
    BY DEF Held
  <2>2. QED
    BY <2>1 DEF Kids, ASet
<1>4. Exact(T, objects, m) \/ \E x : Grown(T, objects, m, x)
  <2>1. CASE pc = "insert"
    BY <2>1 DEF NowTight, TightBut
  <2>2. CASE pc # "insert"
    BY <2>2 DEF NowTight, Tight
  <2>3. QED
    BY <2>1, <2>2
<1>5. CASE Exact(T, objects, m)
  BY <1>2, <1>3, <1>5 DEF Exact, BoxOf
<1>6. ASSUME NEW x, Grown(T, objects, m, x) PROVE Contains(T[m].box, y) /\ T[m].box \in RectT
  <2>1. PICK S : S = Held(T, objects, m) \cup {x}
    OBVIOUS
  <2>2. BoxOf(T[m].box, S) /\ y \in S
    BY <1>6, <2>1 DEF Grown
  <2>3. QED
    BY <2>2 DEF BoxOf
<1>7. QED
  BY <1>2, <1>4, <1>5, <1>6

\* Whoever overlaps a box overlaps one that contains it.
LEMMA OverlapsMore ==
  ASSUME NEW a \in RectT, NEW b \in RectT, NEW q \in RectT, Contains(b, a), IsOverlap(a, q)
  PROVE  IsOverlap(b, q)
<1>1. \A r \in {a, b, q} : r.left \in Int /\ r.right \in Int /\ r.bottom \in Int /\ r.top \in Int
  BY RectFields
<1>2. \A v \in {a, b} : IsOverlap(v, q) <=> /\ Higher(v.left, q.left) < Lower(v.right, q.right)
                                            /\ Higher(v.bottom, q.bottom) < Lower(v.top, q.top)
  BY DEF IsOverlap, Overlap, Rect
<1>3. Higher(b.left, q.left) < Lower(b.right, q.right)
  BY <1>1, <1>2 DEF Contains, Higher, Lower
<1>4. Higher(b.bottom, q.bottom) < Lower(b.top, q.top)
  BY <1>1, <1>2 DEF Contains, Higher, Lower
<1>5. QED
  BY <1>2, <1>3, <1>4

\* The nodes that q overlaps on a level are those there that it overlaps among
\* the children of the nodes it overlaps on the level above.
OnLevel(lev, k, q) == {n \in DOMAIN tree_nodes : lev[n] = height - k + 1 /\ IsOverlap(tree_nodes[n].box, q)}
LEMMA LevelDown ==
  ASSUME IInv, NowTight, NEW q \in RectT, NEW lev, Levels(tree_nodes, root, height, lev)
  PROVE  /\ OnLevel(lev, 1, q) = {n \in {root} : IsOverlap(tree_nodes[n].box, q)}
         /\ \A k \in 2..height : OnLevel(lev, k, q) =
                {n \in UNION {ASet(Entries(m)) : m \in OnLevel(lev, k - 1, q)} : IsOverlap(tree_nodes[n].box, q)}
<1> DEFINE T == tree_nodes
<1>1. Skeleton(T, root, height) /\ \A n \in DOMAIN T : T[n] \in NodeT
  BY TheTree DEF Whole, Typed
<1>2. /\ lev \in [DOMAIN T -> 1..height] /\ lev[root] = height /\ root \in DOMAIN T
      /\ height \in Nat /\ \A n \in DOMAIN T : T[n].leaf <=> lev[n] = 1
  BY <1>1 DEF Levels, Skeleton
<1>3. ASSUME NEW n \in DOMAIN T, n # root
      PROVE  \E m \in DOMAIN T : ~T[m].leaf /\ n \in Kids(T, m) /\ lev[m] = lev[n] + 1
  <2>1. PICK m \in DOMAIN T : m = T[n].father /\ ~T[m].leaf /\ n \in Kids(T, m)
    BY <1>1, <1>3 DEF Skeleton
  <2>2. lev[n] = lev[m] - 1
    BY <2>1 DEF Levels
  <2>3. lev[n] \in Int /\ lev[m] \in Int
    BY <1>2
  <2>4. QED
    BY <2>1, <2>2, <2>3
<1>4. ASSUME NEW m \in DOMAIN T, lev[m] # 1, NEW n \in Kids(T, m)
      PROVE  n \in DOMAIN T /\ lev[n] = lev[m] - 1
  BY <1>1, <1>2, <1>4 DEF Levels, Skeleton
<1>5. OnLevel(lev, 1, q) = {n \in {root} : IsOverlap(T[n].box, q)}
  <2>1. ASSUME NEW n \in DOMAIN T, n # root PROVE lev[n] # height
    <3>1. PICK m \in DOMAIN T : lev[m] = lev[n] + 1
      BY <1>3, <2>1
    <3>2. lev[m] \in 1..height
      BY <1>2
    <3>3. QED
      BY <1>2, <3>1, <3>2
  <2>2. height - 1 + 1 = height
    BY <1>2
  <2>3. QED
    BY <1>2, <2>1, <2>2 DEF OnLevel
<1>6. ASSUME NEW k \in 2..height
      PROVE  OnLevel(lev, k, q) =
                {n \in UNION {ASet(Entries(m)) : m \in OnLevel(lev, k - 1, q)} : IsOverlap(T[n].box, q)}
  <2>1. PICK j \in 1..height : j = k - 1
    BY <1>2
  <2>2. height - j + 1 = (height - k + 1) + 1 /\ height - j + 1 # 1 /\ height - k + 1 # height
    BY <1>2, <2>1
  <2>3. ASSUME NEW n \in OnLevel(lev, k, q) PROVE \E m \in OnLevel(lev, j, q) : n \in Kids(T, m)
    <3>1. n \in DOMAIN T /\ lev[n] = height - k + 1 /\ n # root /\ IsOverlap(T[n].box, q)
      BY <1>2, <2>2 DEF OnLevel
    <3>2. PICK m \in DOMAIN T : ~T[m].leaf /\ n \in Kids(T, m) /\ lev[m] = lev[n] + 1
      BY <1>3, <3>1
    <3>3. T[n].box \in Held(T, objects, m)
      BY <3>2 DEF Held
    <3>4. IsOverlap(T[m].box, q)
      BY <3>1, <3>3, BoxAbove, OverlapsMore
    <3>5. QED
      BY <2>2, <3>1, <3>2, <3>4 DEF OnLevel
  <2>4. ASSUME NEW m \in OnLevel(lev, j, q), NEW n \in Kids(T, m), IsOverlap(T[n].box, q)
        PROVE  n \in OnLevel(lev, k, q)
    <3>1. m \in DOMAIN T /\ lev[m] = height - j + 1 /\ lev[m] # 1
      BY <2>2 DEF OnLevel
    <3>2. n \in DOMAIN T /\ lev[n] = lev[m] - 1
      BY <1>4, <2>4, <3>1
    <3>3. lev[n] = height - k + 1
      BY <1>2, <2>2, <3>1, <3>2
    <3>4. QED
      BY <2>4, <3>2, <3>3 DEF OnLevel
  <2>5. \A m : ASet(Entries(m)) = Kids(T, m)
    BY DEF Entries, Kids
  <2>6. \A n \in OnLevel(lev, k, q) : IsOverlap(T[n].box, q)
    BY DEF OnLevel
  <2>7. OnLevel(lev, k, q) =
                {n \in UNION {ASet(Entries(m)) : m \in OnLevel(lev, j, q)} : IsOverlap(T[n].box, q)}
    BY <2>3, <2>4, <2>5, <2>6
  <2>8. QED
    BY <2>1, <2>7
<1>7. QED
  BY <1>5, <1>6

\* A query visits the nodes that it overlaps.
LEMMA VisitedIs ==
  ASSUME IInv, NowTight, NEW q \in RectT
  PROVE  Visited(q) = {n \in DOMAIN tree_nodes : IsOverlap(tree_nodes[n].box, q)}
<1> DEFINE T == tree_nodes
           E(f, k) == IF k = 1 THEN {n \in {root} : IsOverlap(tree_nodes[n].box, q)}
                      ELSE {n \in UNION {ASet(Entries(m)) : m \in f[k - 1]} : IsOverlap(tree_nodes[n].box, q)}
           g == CHOOSE level : level = [k \in 1..height |-> E(level, k)]
<1>1. PICK lev : Levels(T, root, height, lev)
  BY TheTree DEF Whole, Skeleton
<1>2. lev \in [DOMAIN T -> 1..height] /\ height \in Nat
  BY <1>1, TheTree DEF Levels, Whole, Skeleton
<1>3. PICK f : f = [k \in 1..height |-> OnLevel(lev, k, q)]
  OBVIOUS
<1>4. ASSUME NEW k \in 1..height PROVE f[k] = E(f, k)
  <2>1. f[k] = OnLevel(lev, k, q)
    BY <1>3
  <2>2. CASE k = 1
    BY <1>1, <2>1, <2>2, LevelDown
  <2>3. CASE k # 1
    <3>1. k \in 2..height /\ k - 1 \in 1..height
      BY <1>2, <2>3
    <3>2. f[k - 1] = OnLevel(lev, k - 1, q)
      BY <1>3, <3>1
    <3>3. f[k] = {n \in UNION {ASet(Entries(m)) : m \in OnLevel(lev, k - 1, q)} : IsOverlap(tree_nodes[n].box, q)}
      BY <1>1, <2>1, <3>1, LevelDown
    <3>4. QED
      BY <2>3, <3>2, <3>3
  <2>4. QED
    BY <2>2, <2>3
<1>5. f = [k \in 1..height |-> E(f, k)]
  <2> HIDE DEF E
  <2>1. QED
    BY <1>3, <1>4
<1>6. g = [k \in 1..height |-> E(g, k)]
  <2> HIDE DEF E
  <2>1. QED
    BY Zenon, <1>5
<1>7. Visited(q) = UNION {g[h] : h \in 1..height}
  BY Zenon DEF Visited
<1> HIDE DEF g
<1>8. \A k \in 1..height : g[k] = E(g, k)
  <2> HIDE DEF E
  <2>1. QED
    BY <1>6
<1>9. \A k \in 1..height : g[k] = f[k]
  <2>1. PICK S : S = {k \in 1..height : g[k] = f[k]}
    OBVIOUS
  <2>2. 1 \in S \/ height = 0
    <3>1. height = 0 \/ 1 \in 1..height
      BY <1>2
    <3>2. 1 \in 1..height => g[1] = f[1]
      BY <1>4, <1>8
    <3>3. QED
      BY <2>1, <3>1, <3>2
  <2>3. ASSUME NEW k \in 2..height, k - 1 \in S PROVE k \in S
    <3>1. g[k - 1] = f[k - 1] /\ k \in 1..height /\ k # 1
      BY <1>2, <2>1, <2>3
    <3>2. E(g, k) = E(f, k)
      BY <3>1
    <3>3. QED
      BY <1>4, <1>8, <2>1, <3>1, <3>2
  <2>4. 1..height \subseteq S
    BY <1>2, <2>2, <2>3, StepsReach
  <2>5. QED
    BY <2>1, <2>4
<1>10. \A k \in 1..height : g[k] = OnLevel(lev, k, q)
  BY <1>3, <1>9
<1>11. ASSUME NEW n \in DOMAIN T, IsOverlap(T[n].box, q) PROVE n \in Visited(q)
  <2>1. PICK k \in 1..height : lev[n] = height - k + 1
    <3>1. lev[n] \in 1..height
      BY <1>2
    <3>2. PICK k : k = height - lev[n] + 1
      OBVIOUS
    <3>3. k \in 1..height /\ lev[n] = height - k + 1
      BY <1>2, <3>1, <3>2
    <3>4. QED
      BY <3>3
  <2>2. n \in OnLevel(lev, k, q)
    BY <1>11, <2>1 DEF OnLevel
  <2>3. QED
    BY <1>7, <1>10, <2>2
<1>12. ASSUME NEW n \in Visited(q) PROVE n \in DOMAIN T /\ IsOverlap(T[n].box, q)
  BY <1>7, <1>10 DEF OnLevel
<1>13. QED
  BY <1>11, <1>12

\* As many positions of a row as of its ids have a property.
LEMMA RowMatches ==
  ASSUME NEW e, Ids(e), NEW H
  PROVE  /\ Cardinality({i \in DOMAIN e : e[i] \in H}) = Cardinality(ASet(e) \cap H)
         /\ IsFiniteSet(ASet(e) \cap H)
<1>1. Len(e) \in Nat /\ DOMAIN e = 1..Len(e) /\ \A i, j \in DOMAIN e : e[i] = e[j] => i = j
  BY SetOf DEF Ids, Injective
<1>2. PICK I, J : I = {i \in DOMAIN e : e[i] \in H} /\ J = ASet(e) \cap H
  OBVIOUS
<1>3. IsFiniteSet(I)
  <2>1. IsFiniteSet(1..Len(e)) /\ I \subseteq 1..Len(e)
    BY <1>1, <1>2, FS_Interval
  <2>2. QED
    BY <2>1, FS_Subset
<1>4. PICK f : f = [i \in I |-> e[i]]
  OBVIOUS
<1>5. f \in Bijection(I, J)
  <2>1. f \in [I -> J]
    BY <1>2, <1>4 DEF ASet
  <2>2. \A x \in J : \E i \in I : f[i] = x
    BY <1>2, <1>4 DEF ASet
  <2>3. \A i, j \in I : f[i] = f[j] => i = j
    BY <1>1, <1>2, <1>4
  <2>4. QED
    BY <2>1, <2>2, <2>3 DEF Bijection, Injection, Surjection, IsInjective
<1>6. ExistsBijection(I, J)
  BY <1>5 DEF ExistsBijection
<1>7. IsFiniteSet(J) /\ Cardinality(J) = Cardinality(I)
  BY <1>3, <1>6, FS_Bijection
<1>8. QED
  BY <1>2, <1>7

\* A query counts the objects that contain it, and no other.
LEMMA CountFollows ==
  ASSUME IInv, NowTight, NEW q \in RectT, q.left < q.right, q.bottom < q.top
  PROVE  Query(q) = Cardinality({k \in Placed : Contains(objects[k], q)})
<1> DEFINE T == tree_nodes
<1>1. /\ Whole(T, objects, root, height, minimum_entry, maximum_entry) /\ Stored(objects)
      /\ \A n \in DOMAIN T : T[n] \in NodeT /\ Ids(T[n].kids)
  BY TheTree DEF IInv, TreeOK
<1>2. PICK H : H = {k \in DOMAIN objects : Contains(objects[k], q)}
  OBVIOUS
<1>3. PICK F : F = [n \in Leaves |-> Cardinality({i \in DOMAIN Entries(n) : Contains(objects[Entries(n)[i]], q)})]
  OBVIOUS
<1>4. PICK P : P = [n \in Leaves |-> Kids(T, n) \cap H]
  OBVIOUS
<1>5. PICK S : S = Visited(q) \cap Leaves
  OBVIOUS
<1>6. Query(q) = SumFunctionOnSet(F, S)
  BY <1>3, <1>5 DEF Query
<1>7. S = {n \in Leaves : IsOverlap(T[n].box, q)} /\ \A n \in Leaves : n \in DOMAIN T /\ T[n].leaf /\ n \in LeavesOf(T)
  BY <1>5, VisitedIs DEF Leaves, Nodes, LeavesOf
<1>8. \A n \in Leaves : Kids(T, n) \subseteq DOMAIN objects
  BY <1>1, <1>7 DEF Whole, PlacedIn
<1>9. IsFiniteSet(S)
  <2>1. IsFiniteSet(DOMAIN T) /\ S \subseteq DOMAIN T
    BY <1>1, <1>7 DEF Whole, Typed, Numbered
  <2>2. QED
    BY <2>1, FS_Subset
<1>10. ASSUME NEW n \in S PROVE IsFiniteSet(P[n]) /\ F[n] = Cardinality(P[n])
  <2>1. n \in Leaves /\ Ids(Entries(n)) /\ ASet(Entries(n)) = Kids(T, n)
    BY <1>1, <1>7 DEF Entries, Kids
  <2>2. \A i \in DOMAIN Entries(n) : Contains(objects[Entries(n)[i]], q) <=> Entries(n)[i] \in H
    BY <1>2, <1>8, <2>1 DEF ASet
  <2>3. {i \in DOMAIN Entries(n) : Contains(objects[Entries(n)[i]], q)} = {i \in DOMAIN Entries(n) : Entries(n)[i] \in H}
    BY <2>2
  <2>4. P[n] = ASet(Entries(n)) \cap H
    BY <1>4, <2>1
  <2>5. PICK e : e = Entries(n)
    OBVIOUS
  <2>6. /\ Cardinality({i \in DOMAIN e : e[i] \in H}) = Cardinality(ASet(e) \cap H)
        /\ IsFiniteSet(ASet(e) \cap H)
    BY <2>1, <2>5, RowMatches
  <2>7. F[n] = Cardinality({i \in DOMAIN Entries(n) : Contains(objects[Entries(n)[i]], q)})
    BY <1>3, <2>1
  <2>8. QED
    BY <2>3, <2>4, <2>5, <2>6, <2>7
<1>11. \A m, n \in S : m # n => P[m] \cap P[n] = {}
  BY <1>1, <1>4, <1>7 DEF Whole, Apart
<1>12. SumFunctionOnSet(F, S) = Cardinality(UNION {P[n] : n \in S})
  BY <1>9, <1>10, <1>11, SumDisjoint
<1>13. ASSUME NEW n \in Leaves, NEW k \in P[n] PROVE n \in S
  <2>1. k \in Kids(T, n) /\ Contains(objects[k], q) /\ T[n].leaf
    BY <1>2, <1>4, <1>7, <1>13
  <2>2. objects[k] \in Held(T, objects, n)
    BY <2>1 DEF Held
  <2>3. PICK o : o = objects[k]
    OBVIOUS
  <2>4. Contains(T[n].box, o) /\ T[n].box \in RectT /\ o \in RectT
    BY <1>7, <2>2, <2>3, BoxAbove
  <2>5. IsOverlap(o, q)
    <3>1. \A r \in {o, q} : r.left \in Int /\ r.right \in Int /\ r.bottom \in Int /\ r.top \in Int
      BY <2>4, RectFields
    <3>2. IsOverlap(o, q) <=> /\ Higher(o.left, q.left) < Lower(o.right, q.right)
                              /\ Higher(o.bottom, q.bottom) < Lower(o.top, q.top)
      BY DEF IsOverlap, Overlap, Rect
    <3>3. Higher(o.left, q.left) = q.left /\ Lower(o.right, q.right) = q.right
      BY <2>1, <2>3, <3>1 DEF Contains, Higher, Lower
    <3>4. Higher(o.bottom, q.bottom) = q.bottom /\ Lower(o.top, q.top) = q.top
      BY <2>1, <2>3, <3>1 DEF Contains, Higher, Lower
    <3>5. QED
      BY <3>2, <3>3, <3>4
  <2>6. QED
    BY <1>7, <2>4, <2>5, OverlapsMore
<1>14. Placed = UNION {Kids(T, n) : n \in Leaves}
  BY DEF Placed, Entries, Kids
<1>15. UNION {P[n] : n \in S} = {k \in Placed : Contains(objects[k], q)}
  <2>1. \A n \in Leaves : P[n] = {k \in Kids(T, n) : Contains(objects[k], q)}
    BY <1>2, <1>4, <1>8
  <2>2. \A n \in S : n \in Leaves
    BY <1>5
  <2>3. QED
    BY <1>13, <1>14, <2>1, <2>2
<1>16. QED
  BY <1>6, <1>12, <1>15

-------------------------------------------------------------------------------
\* The grid.  All objects are upright and lie in its space, a tree without objects is the empty
\* one, and an insertion is of an object.
Upright(r) == r.left <= r.right /\ r.bottom <= r.top
Inside(O) == \A k \in DOMAIN O : Contains(Space, O[k]) /\ Upright(O[k])
EmptyIs(T, O) == DOMAIN O = {} => T = EmptyTree
SpaceOK ==
  /\ Inside(objects) /\ EmptyIs(tree_nodes, objects) /\ (pc # "idle" => DOMAIN objects # {})
  /\ \A c \in copy : Inside(c.objects) /\ EmptyIs(c.tree_nodes, c.objects)

\* This holds from the start.
LEMMA SpaceInit ==
  Init => SpaceOK
BY DEF Init, SpaceOK, Inside, EmptyIs, NoObjects

\* What is inserted is in the space.
LEMMA InsertRecInside ==
  ASSUME IInv, SpaceOK, InsertRec
  PROVE  SpaceOK'
<1>1. PICK n : n = ObjectCount
  OBVIOUS
<1>2. n \in Nat /\ DOMAIN objects = 0..n - 1
  <2>1. Numbered(DOMAIN objects) /\ n = Cardinality(DOMAIN objects)
    BY <1>1 DEF IInv, TreeOK, Stored, ObjectCount
  <2>2. QED
    BY <2>1, NumberedNext
<1>3. n < Len(conf.rects) /\ copy' = copy
  BY <1>1 DEF InsertRec
<1>4. PICK r \in conf.rects[n + 1] : objects' = [k \in 0..n |-> IF k = n THEN r ELSE objects[k]]
  BY <1>1 DEF InsertRec
<1>5. Contains(Space, r) /\ Upright(r)
  <2>1. setup \in DOMAIN Setups /\ Setups[setup] \in SetupT
    BY SetupAssumption DEF IInv, Settings
  <2>2. conf.rects \in Seq(SUBSET RectT)
    BY <2>1 DEF conf, SetupT
  <2>3. n + 1 \in DOMAIN conf.rects
    BY <1>2, <1>3, <2>2
  <2>4. QED
    BY <1>4, <2>1, <2>3, GridAssumption, ObjectsAssumption DEF conf, Upright
<1>6. Inside(objects')
  <2>1. ASSUME NEW k \in 0..n PROVE Contains(Space, objects'[k]) /\ Upright(objects'[k])
    <3>1. CASE k = n
      BY <1>4, <1>5, <3>1
    <3>2. CASE k # n
      <4>1. k \in 0..n - 1 /\ objects'[k] = objects[k]
        BY <1>2, <1>4, <3>2
      <4>2. QED
        BY <1>2, <4>1 DEF SpaceOK, Inside
    <3>3. QED
      BY <3>1, <3>2
  <2>2. QED
    BY <1>4, <2>1 DEF Inside
<1>7. DOMAIN objects' # {}
  <2>1. 0 \in 0..n
    BY <1>2
  <2>2. QED
    BY <1>4, <2>1
<1>8. QED
  BY <1>3, <1>6, <1>7 DEF SpaceOK, EmptyIs

\* No step takes an object out of it.
LEMMA SpaceStep ==
  ASSUME IInv, SpaceOK, [Next]_vars
  PROVE  SpaceOK'
<1>1. CASE Call
  <2>1. DOMAIN objects # {}
    BY <1>1, CallSpares DEF SpaceOK
  <2>2. QED
    BY <1>1, <2>1, CallSpares DEF SpaceOK, EmptyIs
<1>2. CASE Clear
  <2>1. tree_nodes' = EmptyTree /\ objects' = NoObjects /\ copy' = copy /\ pc' = "idle"
    BY <1>2 DEF Clear
  <2>2. QED
    BY <2>1 DEF SpaceOK, Inside, EmptyIs, NoObjects
<1>3. CASE SaveTree
  <2>1. PICK c : c = [tree_nodes |-> tree_nodes, objects |-> objects, root |-> root, height |-> height]
    OBVIOUS
  <2>2. /\ copy' = {c} /\ UNCHANGED <<tree_nodes, objects, pc>>
        /\ c.tree_nodes = tree_nodes /\ c.objects = objects
    BY <1>3, <2>1 DEF SaveTree, treeVars
  <2>3. QED
    BY <2>2 DEF SpaceOK
<1>4. CASE RestoreTree
  <2>1. PICK c \in copy : tree_nodes' = c.tree_nodes /\ objects' = c.objects /\ copy' = copy /\ pc' = "idle"
    BY <1>4 DEF RestoreTree
  <2>2. QED
    BY <2>1 DEF SpaceOK
<1>5. CASE UNCHANGED vars
  BY <1>5 DEF vars, treeVars, SpaceOK
<1>6. QED
  BY <1>1, <1>2, <1>3, <1>4, <1>5, InsertRecInside DEF Next

\* One of the N cells of width d that begin at x has l in it.
LEMMA CellAt ==
  ASSUME NEW x \in Int, NEW d \in Nat \ {0}, NEW N \in Nat \ {0}, NEW l \in Int, x <= l, l < x + N * d
  PROVE  \E i \in 0..N - 1 : x + i * d <= l /\ l < x + (i + 1) * d
<1>1. PICK S : S = {i \in 0..N - 1 : l < x + (i + 1) * d}
  OBVIOUS
<1>2. N - 1 \in S
  <2>1. (N - 1) + 1 = N /\ N - 1 \in 0..N - 1
    OBVIOUS
  <2>2. l < x + ((N - 1) + 1) * d
    BY <2>1
  <2>3. QED
    BY <1>1, <2>1, <2>2
<1>3. PICK m \in S : \A i \in S : m <= i
  <2>1. \A i \in 0..N - 1 : i \in Nat
    OBVIOUS
  <2>2. \A i \in S : i \in 0..N - 1
    BY <1>1, Zenon
  <2>3. S \subseteq Nat /\ S # {}
    BY <1>2, <2>1, <2>2, Zenon
  <2>4. QED
    BY ONLY <2>3, LeastNumber
<1>4. m \in 0..N - 1 /\ l < x + (m + 1) * d
  BY <1>1
<1>5. x + m * d <= l
  <2>1. CASE m = 0
    BY <2>1
  <2>2. CASE m # 0
    <3>1. PICK j \in 0..N - 1 : j + 1 = m /\ ~(m <= j)
      <4>1. m - 1 \in 0..N - 1 /\ (m - 1) + 1 = m /\ ~(m <= m - 1)
        BY <1>4, <2>2
      <4>2. QED
        BY <4>1
    <3>2. j \notin S
      BY <1>3, <3>1
    <3>3. ~(l < x + (j + 1) * d)
      BY <1>1, <3>2
    <3>4. ~(l < x + m * d)
      BY <3>1, <3>3
    <3>5. PICK e \in Int : e = m * d
      BY <1>4
    <3>6. QED
      BY <3>4, <3>5
  <2>3. QED
    BY <2>1, <2>2
<1>6. QED
  BY <1>4, <1>5

\* Every box of positive extent in the space overlaps a cell.
LEMMA CellMeets ==
  ASSUME NEW b \in RectT, b.left < b.right, b.bottom < b.top, Contains(Space, b)
  PROVE  \E c \in Cells : c \in RectT /\ IsOverlap(b, c)
<1>1. PICK x \in Int, y \in Int, dx \in Nat \ {0}, dy \in Nat \ {0}, N \in Nat \ {0}, M \in Nat \ {0} :
          /\ x = Grid.minX /\ y = Grid.minY /\ dx = Grid.delX /\ dy = Grid.delY /\ N = Grid.xPar /\ M = Grid.yPar
  BY GridAssumption
<1>2. b.left \in Int /\ b.right \in Int /\ b.bottom \in Int /\ b.top \in Int
  BY RectFields
<1>3. PICK R \in Int, U \in Int : R = x + N * dx /\ U = y + M * dy
  <2>1. N * dx \in Int /\ M * dy \in Int
    OBVIOUS
  <2>2. QED
    BY <2>1
<1>4. x <= b.left /\ b.right <= R /\ y <= b.bottom /\ b.top <= U
  BY <1>1, <1>3 DEF Contains, Space, Rect
<1>5. b.left < R /\ b.bottom < U
  BY <1>2, <1>4
<1>6. PICK i \in 0..N - 1 : x + i * dx <= b.left /\ b.left < x + (i + 1) * dx
  BY <1>2, <1>3, <1>4, <1>5, CellAt
<1>7. PICK j \in 0..M - 1 : y + j * dy <= b.bottom /\ b.bottom < y + (j + 1) * dy
  BY <1>2, <1>3, <1>4, <1>5, CellAt
<1>8. PICK cl \in Int, cr \in Int, cb \in Int, ct \in Int :
          cl = x + i * dx /\ cr = x + (i + 1) * dx /\ cb = y + j * dy /\ ct = y + (j + 1) * dy
  <2>1. i * dx \in Int /\ (i + 1) * dx \in Int /\ j * dy \in Int /\ (j + 1) * dy \in Int
    OBVIOUS
  <2>2. QED
    BY <2>1
<1>9. PICK c : c = Rect(cl, cr, cb, ct)
  OBVIOUS
<1>10. c \in RectT /\ c.left = cl /\ c.right = cr /\ c.bottom = cb /\ c.top = ct
  BY <1>9 DEF Rect, RectT
<1>11. c \in Cells
  BY <1>1, <1>8, <1>9 DEF Cells
<1>12. IsOverlap(b, c)
  <2>1. IsOverlap(b, c) <=> /\ Higher(b.left, c.left) < Lower(b.right, c.right)
                            /\ Higher(b.bottom, c.bottom) < Lower(b.top, c.top)
    BY DEF IsOverlap, Overlap, Rect
  <2>2. Higher(b.left, c.left) < Lower(b.right, c.right)
    BY <1>2, <1>6, <1>8, <1>10 DEF Higher, Lower
  <2>3. Higher(b.bottom, c.bottom) < Lower(b.top, c.top)
    BY <1>2, <1>7, <1>8, <1>10 DEF Higher, Lower
  <2>4. QED
    BY <2>1, <2>2, <2>3
<1>13. QED
  BY <1>10, <1>11, <1>12

\* The box of what lies in the space lies there too.
LEMMA BoxInside ==
  ASSUME NEW b, NEW S, BoxOf(b, S), \A a \in S : Contains(Space, a)
  PROVE  Contains(Space, b)
<1>1. PICK x \in S : x.left = b.left
  BY DEF BoxOf
<1>2. PICK y \in S : y.right = b.right
  BY DEF BoxOf
<1>3. PICK z \in S : z.bottom = b.bottom
  BY DEF BoxOf
<1>4. PICK w \in S : w.top = b.top
  BY DEF BoxOf
<1>5. Contains(Space, x) /\ Contains(Space, y) /\ Contains(Space, z) /\ Contains(Space, w)
  OBVIOUS
<1>6. QED
  BY <1>1, <1>2, <1>3, <1>4, <1>5 DEF Contains

\* What holds of every leaf that holds something, and of an inner node if of its
\* children, holds of every node that holds something.
LEMMA FromBelow ==
  ASSUME IInv, NEW G,
         \A n \in DOMAIN tree_nodes : tree_nodes[n].leaf /\ tree_nodes[n].kids # <<>> => n \in G,
         \A n \in DOMAIN tree_nodes : ~tree_nodes[n].leaf /\ Kids(tree_nodes, n) \subseteq G => n \in G
  PROVE  \A n \in DOMAIN tree_nodes : tree_nodes[n].kids # <<>> => n \in G
<1> DEFINE T == tree_nodes
<1>1. /\ Skeleton(T, root, height) /\ Roomy(T, root, minimum_entry, maximum_entry)
      /\ minimum_entry \in Nat /\ minimum_entry >= 2
  BY TheTree DEF Whole
<1>2. PICK lev : Levels(T, root, height, lev)
  BY <1>1 DEF Skeleton
<1>3. /\ lev \in [DOMAIN T -> 1..height] /\ height \in Nat
      /\ \A n \in DOMAIN T : T[n].leaf <=> lev[n] = 1
      /\ \A m \in DOMAIN T : ~T[m].leaf => \A c \in Kids(T, m) : c \in DOMAIN T /\ c # root /\ lev[c] = lev[m] - 1
  <2>1. ASSUME NEW m \in DOMAIN T, ~T[m].leaf, NEW c \in Kids(T, m) PROVE c \in DOMAIN T /\ c # root
    <3>1. c \in DOMAIN T /\ T[c].father = m /\ DOMAIN T \subseteq Nat /\ T[root].father = -1
      BY <1>1, <2>1 DEF Skeleton
    <3>2. m # -1
      BY <3>1
    <3>3. QED
      BY <3>1, <3>2
  <2>2. QED
    BY <1>1, <1>2, <2>1 DEF Levels, Skeleton
<1>4. PICK S : S = {k \in 1..height : \A n \in DOMAIN T : lev[n] = k /\ T[n].kids # <<>> => n \in G}
  OBVIOUS
<1>5. ASSUME NEW k \in 2..height, k - 1 \in S, NEW n \in DOMAIN T, lev[n] = k
      PROVE  n \in G
  <2>1. ~T[n].leaf
    BY <1>3, <1>5
  <2>2. ASSUME NEW c \in Kids(T, n) PROVE c \in G
    <3>1. c \in DOMAIN T /\ c # root /\ lev[c] = k - 1
      BY <1>3, <1>5, <2>1
    <3>2. Len(T[c].kids) >= minimum_entry
      BY <1>1, <3>1 DEF Roomy
    <3>3. Len(T[c].kids) # 0
      BY <1>1, <3>2
    <3>4. T[c].kids # <<>>
      BY <3>3
    <3>5. QED
      BY <1>4, <1>5, <3>1, <3>4
  <2>3. QED
    BY <2>1, <2>2
<1>6. 1 \in S \/ height = 0
  <2>1. height = 0 \/ 1 \in 1..height
    BY <1>3
  <2>2. \A n \in DOMAIN T : lev[n] = 1 => T[n].leaf
    BY <1>3
  <2>3. QED
    BY <1>4, <2>1, <2>2
<1>7. \A k \in 2..height : k - 1 \in S => k \in S
  <2>1. \A k \in 2..height : k \in 1..height
    OBVIOUS
  <2>2. QED
    BY <1>4, <1>5, <2>1
<1>8. 1..height \subseteq S
  BY <1>3, <1>6, <1>7, StepsReach
<1>9. \A n \in DOMAIN T : lev[n] \in S
  BY <1>3, <1>8
<1>10. QED
  BY <1>4, <1>9

\* So do the boxes of all nodes that hold something.
LEMMA BoxesInside ==
  ASSUME IInv, Tight(tree_nodes, objects), Inside(objects)
  PROVE  \A n \in DOMAIN tree_nodes : tree_nodes[n].kids # <<>> => Contains(Space, tree_nodes[n].box)
<1> DEFINE T == tree_nodes
<1>1. /\ PlacedIn(T) \subseteq DOMAIN objects
      /\ \A m \in DOMAIN T : ~T[m].leaf => T[m].kids # <<>>
  <2>1. PlacedIn(T) \subseteq DOMAIN objects
    BY TheTree DEF Whole
  <2>2. ASSUME NEW m \in DOMAIN T, ~T[m].leaf PROVE T[m].kids # <<>>
    <3>1. Len(T[m].kids) >= 2
      BY <2>2, Children DEF Entries
    <3>2. QED
      BY <3>1
  <2>3. QED
    BY <2>1, <2>2
<1>2. ASSUME NEW n \in DOMAIN T, T[n].kids # <<>>, \A a \in Held(T, objects, n) : Contains(Space, a)
      PROVE  Contains(Space, T[n].box)
  BY <1>2, BoxInside DEF Tight, Exact
<1>3. PICK G : G = {n \in DOMAIN T : Contains(Space, T[n].box)}
  OBVIOUS
<1>4. ASSUME NEW n \in DOMAIN T, T[n].leaf, T[n].kids # <<>> PROVE n \in G
  <2>1. Kids(T, n) \subseteq DOMAIN objects
    BY <1>1, <1>4 DEF PlacedIn, LeavesOf
  <2>2. \A a \in Held(T, objects, n) : Contains(Space, a)
    BY <1>4, <2>1 DEF Held, Inside
  <2>3. QED
    BY <1>2, <1>3, <1>4, <2>2
<1>5. ASSUME NEW n \in DOMAIN T, ~T[n].leaf, Kids(T, n) \subseteq G PROVE n \in G
  <2>1. \A a \in Held(T, objects, n) : Contains(Space, a)
    BY <1>3, <1>5 DEF Held
  <2>2. QED
    BY <1>1, <1>2, <1>3, <1>5, <2>1
<1>6. QED
  BY <1>3, <1>4, <1>5, FromBelow

\* The box of a node is upright too, whatever has grown it.
LEMMA BoxesUpright ==
  ASSUME IInv, NowTight, Inside(objects)
  PROVE  \A n \in DOMAIN tree_nodes : tree_nodes[n].kids # <<>> => Upright(tree_nodes[n].box)
<1> DEFINE T == tree_nodes
<1>1. PlacedIn(T) \subseteq DOMAIN objects
  BY TheTree DEF Whole
<1>2. ASSUME NEW n \in DOMAIN T, NEW a \in Held(T, objects, n), Upright(a) PROVE Upright(T[n].box)
  <2>1. Contains(T[n].box, a) /\ T[n].box \in RectT /\ a \in RectT
    BY <1>2, BoxAbove
  <2>2. QED
    BY <1>2, <2>1, RectFields DEF Contains, Upright
<1>3. PICK G : G = {n \in DOMAIN T : Upright(T[n].box)}
  OBVIOUS
<1>4. ASSUME NEW n \in DOMAIN T, T[n].leaf, T[n].kids # <<>> PROVE n \in G
  <2>1. PICK k : k \in Kids(T, n)
    <3>1. T[n].kids \in Seq(Nat)
      BY TheTree DEF Ids
    <3>2. 1 \in DOMAIN T[n].kids
      BY <1>4, <3>1
    <3>3. QED
      BY <3>2 DEF Kids, ASet
  <2>2. k \in DOMAIN objects
    BY <1>1, <1>4, <2>1 DEF PlacedIn, LeavesOf
  <2>3. objects[k] \in Held(T, objects, n) /\ Upright(objects[k])
    BY <1>4, <2>1, <2>2 DEF Held, Inside
  <2>4. QED
    BY <1>2, <1>3, <2>3
<1>5. ASSUME NEW n \in DOMAIN T, ~T[n].leaf, Kids(T, n) \subseteq G PROVE n \in G
  <2>1. PICK m : m \in Kids(T, n)
    <3>1. 1 \in DOMAIN Entries(n)
      BY <1>5, Children
    <3>2. QED
      BY <1>5, <3>1, Children
  <2>2. T[m].box \in Held(T, objects, n) /\ Upright(T[m].box)
    BY <1>3, <1>5, <2>1 DEF Held
  <2>3. QED
    BY <1>2, <1>3, <2>2
<1>6. QED
  BY <1>3, <1>4, <1>5, FromBelow

\* A node that holds nothing is the empty tree, and has no extent.
LEMMA NothingHeld ==
  ASSUME IInv, SpaceOK, pc = "idle", NEW n \in DOMAIN tree_nodes, tree_nodes[n].kids = <<>>
  PROVE  ~(tree_nodes[n].box.left < tree_nodes[n].box.right)
<1> DEFINE T == tree_nodes
<1>1. /\ Skeleton(T, root, height) /\ Roomy(T, root, minimum_entry, maximum_entry) /\ minimum_entry \in Nat /\ minimum_entry >= 2
  BY TheTree DEF Whole
<1>2. Len(T[n].kids) = 0
  OBVIOUS
<1>3. n = root /\ T[root].leaf
  BY <1>1, <1>2 DEF Roomy
<1>4. \A m \in DOMAIN T : m = root
  <2> SUFFICES ASSUME NEW m \in DOMAIN T, m # root PROVE FALSE
    OBVIOUS
  <2>1. PICK lev : Levels(T, root, height, lev)
    BY <1>1 DEF Skeleton
  <2>2. lev[root] = 1 /\ lev[root] = height
    BY <1>1, <1>3, <2>1 DEF Levels, Skeleton
  <2>3. PICK f \in DOMAIN T : ~T[f].leaf
    BY <1>1 DEF Skeleton
  <2>4. lev[f] # 1 /\ lev[f] \in 1..1
    BY <2>1, <2>2, <2>3 DEF Levels
  <2>5. QED
    BY <2>4
<1>5. PlacedIn(T) = {}
  <2>1. Kids(T, root) = {}
    BY <1>3 DEF Kids, ASet
  <2>2. QED
    BY <1>4, <2>1 DEF PlacedIn, LeavesOf
<1>6. DOMAIN objects = {}
  <2>1. ASet(pending) = {} /\ ~Inserting
    BY DEF IInv, PlacesOK, ASet, Inserting
  <2>2. QED
    BY <1>5, <2>1 DEF IInv, PlacesOK
<1>7. T = EmptyTree
  BY <1>6 DEF SpaceOK, EmptyIs
<1>8. T[n].box = NoRectangle
  BY <1>7 DEF EmptyTree, TreeNode
<1>9. QED
  BY <1>8 DEF NoRectangle, Rect

\* Every node of positive extent has a cell that moves it.
LEMMA CellsFollow ==
  ASSUME IInv, NowTight, SpaceOK
  PROVE  CellsMoveEveryNode
<1> SUFFICES ASSUME pc = "idle", NEW n \in Nodes, tree_nodes[n].box.left < tree_nodes[n].box.right,
                    tree_nodes[n].box.bottom < tree_nodes[n].box.top
             PROVE  \E c \in Cells : n \in MigrateNodesQuery(c)
  BY DEF CellsMoveEveryNode
<1>1. n \in DOMAIN tree_nodes
  BY DEF Nodes
<1>2. tree_nodes[n].kids # <<>>
  BY <1>1, NothingHeld
<1>3. PICK b : b = tree_nodes[n].box
  OBVIOUS
<1>4. b \in RectT
  BY <1>1, <1>3, TheTree DEF NodeT
<1>5. Tight(tree_nodes, objects) /\ Inside(objects)
  BY DEF NowTight, SpaceOK
<1>6. Contains(Space, b)
  BY <1>1, <1>2, <1>3, <1>5, BoxesInside
<1>7. PICK c \in Cells : c \in RectT /\ IsOverlap(b, c)
  BY <1>3, <1>4, <1>6, CellMeets
<1>8. n \in Visited(c)
  BY <1>1, <1>3, <1>7, VisitedIs
<1>9. QED
  BY <1>8 DEF MigrateNodesQuery

\* At every call of every insertion a query counts exactly the objects in the
\* leaves that contain it, and between insertions registering the tree with
\* the grid moves every node of positive extent: Query and MigrateNodesQuery
\* go down only where a box overlaps, and no box is ever smaller than what is
\* below it.
THEOREM QueriesExact ==
  Spec => []QueryExact
<1>1. Init => IInv /\ BoxesOK /\ SpaceOK
  BY InitIInv, BoxesInit, SpaceInit
<1>2. (IInv /\ BoxesOK /\ SpaceOK) /\ [Next]_vars => (IInv /\ BoxesOK /\ SpaceOK)'
  BY NextKeeps, BoxesStep, SpaceStep
<1>3. IInv /\ BoxesOK /\ SpaceOK => QueryExact
  <2>1. IInv /\ NowTight => CountExact
    BY CountFollows, QueriesAssumption DEF CountExact
  <2>2. IInv /\ NowTight /\ SpaceOK => CellsMoveEveryNode
    BY CellsFollow
  <2>3. QED
    BY <2>1, <2>2 DEF BoxesOK, QueryExact
<1>4. QED
  BY <1>1, <1>2, <1>3, PTL DEF Spec


-------------------------------------------------------------------------------
\* The nearest.  The smaller of two numbers has the smaller square.
LEMMA SquaresGrow ==
  ASSUME NEW u \in Nat, NEW v \in Nat, u <= v
  PROVE  u * u <= v * v
<1>1. PICK d \in Nat : d = v - u /\ v = u + d
  <2>1. v - u \in Nat /\ v = u + (v - u)
    OBVIOUS
  <2>2. QED
    BY <2>1
<1>2. v * v = u * u + 2 * (u * d) + d * d
  BY <1>1
<1>3. u * d \in Nat /\ d * d \in Nat /\ u * u \in Nat
  BY <1>1
<1>4. QED
  BY <1>2, <1>3

\* How far a coordinate is from an interval: no farther than from a part of it.
Off(x, lo, hi) == IF x > hi THEN x - hi ELSE IF x < lo THEN lo - x ELSE 0
LEMMA OffLess ==
  ASSUME NEW x \in Int, NEW l \in Int, NEW h \in Int, NEW a \in Int, NEW b \in Int,
         l <= a, a <= b, b <= h
  PROVE  /\ Off(x, l, h) \in Nat /\ Off(x, a, b) \in Nat
         /\ Off(x, l, h) * Off(x, l, h) <= Off(x, a, b) * Off(x, a, b)
<1>1. Off(x, l, h) \in Nat /\ Off(x, a, b) \in Nat /\ Off(x, l, h) <= Off(x, a, b)
  BY DEF Off
<1>2. QED
  BY <1>1, SquaresGrow

\* A distance is a number.
LEMMA DistanceIsInt ==
  ASSUME NEW x \in Int, NEW y \in Int, NEW a \in RectT
  PROVE  MinDistance(x, y, a) \in Int
<1>1. a.left \in Int /\ a.right \in Int /\ a.bottom \in Int /\ a.top \in Int
  BY RectFields
<1>2. Off(x, a.left, a.right) \in Int /\ Off(y, a.bottom, a.top) \in Int
  BY <1>1 DEF Off
<1>3. PICK u \in Int, v \in Int : u = Off(x, a.left, a.right) /\ v = Off(y, a.bottom, a.top)
  BY <1>2
<1>4. MinDistance(x, y, a) = u * u + v * v
  BY <1>3 DEF MinDistance, Off
<1>5. QED
  BY <1>4

\* A box is no farther than what it contains.
LEMMA BoxIsNearer ==
  ASSUME NEW x \in Int, NEW y \in Int, NEW a \in RectT, NEW b \in RectT, Contains(b, a), Upright(a)
  PROVE  MinDistance(x, y, b) <= MinDistance(x, y, a)
<1>1. \A r \in {a, b} : r.left \in Int /\ r.right \in Int /\ r.bottom \in Int /\ r.top \in Int
  BY RectFields
<1>2. /\ b.left <= a.left /\ a.left <= a.right /\ a.right <= b.right
      /\ b.bottom <= a.bottom /\ a.bottom <= a.top /\ a.top <= b.top
  BY DEF Contains, Upright
<1>3. PICK u, v : u = Off(x, b.left, b.right) /\ v = Off(y, b.bottom, b.top)
  OBVIOUS
<1>4. PICK s, t : s = Off(x, a.left, a.right) /\ t = Off(y, a.bottom, a.top)
  OBVIOUS
<1>5. u \in Nat /\ s \in Nat /\ u * u <= s * s
  BY <1>1, <1>2, <1>3, <1>4, OffLess
<1>6. v \in Nat /\ t \in Nat /\ v * v <= t * t
  BY <1>1, <1>2, <1>3, <1>4, OffLess
<1>7. MinDistance(x, y, b) = u * u + v * v /\ MinDistance(x, y, a) = s * s + t * t
  BY <1>3, <1>4 DEF MinDistance, Off
<1>8. u * u \in Int /\ v * v \in Int /\ s * s \in Int /\ t * t \in Int
  BY <1>5, <1>6
<1>9. QED
  BY <1>5, <1>6, <1>7, <1>8

-------------------------------------------------------------------------------
\* Sequences of pairs, the nearest first and none twice.
Pairs == Int \X Nat
Rising(s) == \A i, j \in DOMAIN s : i <= j => s[i][1] <= s[j][1]
Near(s) == s \in Seq(Pairs) /\ Rising(s) /\ Injective(s)

\* Pairs are tuples of two scores.
LEMMA PairsAre ==
  \A p \in Pairs : /\ p \in Tuples(2) /\ p[1] \in Int /\ p[2] \in Nat /\ p = <<p[1], p[2]>>
                   /\ \A q \in Pairs : Less(p, q) => p[1] <= q[1]
<1>1. SUFFICES ASSUME NEW p \in Pairs
               PROVE  /\ p \in Tuples(2) /\ p[1] \in Int /\ p[2] \in Nat /\ p = <<p[1], p[2]>>
                      /\ \A q \in Pairs : Less(p, q) => p[1] <= q[1]
  OBVIOUS
<1>2. p[1] \in Int /\ p[2] \in Nat /\ p = <<p[1], p[2]>>
  BY DEF Pairs
<1>3. p \in Tuples(2)
  <2>1. p = [i \in 1..2 |-> p[i]]
    BY <1>2
  <2>2. \A i \in 1..2 : p[i] \in Int
    BY <1>2
  <2>3. QED
    BY <2>1, <2>2 DEF Tuples
<1>4. ASSUME NEW q \in Pairs, Less(p, q) PROVE p[1] <= q[1]
  <2>1. q[1] \in Int
    BY DEF Pairs
  <2>2. PICK i \in 1..2 : p[i] < q[i] /\ \A j \in 1..i - 1 : p[j] = q[j]
    BY <1>3, <1>4 DEF Less, Tuples
  <2>3. i = 1 \/ (i = 2 /\ 1 \in 1..i - 1)
    OBVIOUS
  <2>4. QED
    BY <1>2, <2>1, <2>2, <2>3
<1>5. QED
  BY <1>2, <1>3, <1>4

\* Ordering pairs by themselves puts the nearest first.
LEMMA OrderedNear ==
  ASSUME NEW m \in Nat, NEW s \in [1..m -> Pairs], Injective(s)
  PROVE  Near(Ordered(s, s)) /\ ASet(Ordered(s, s)) = ASet(s)
<1>1. PICK t : t = Ordered(s, s)
  OBVIOUS
<1>2. s \in [1..m -> Tuples(2)] /\ DOMAIN s = 1..m
  BY PairsAre
<1>3. Permutes(t, s)
  BY <1>1, <1>2, OrderedPermutes
<1>4. DOMAIN t = 1..m /\ ASet(t) = ASet(s) /\ Injective(t)
  BY <1>2, <1>3 DEF Permutes
<1>5. t \in Seq(Pairs) /\ Len(t) = m
  <2>1. \A k \in 1..m : t[k] \in Pairs
    <3>1. \A k \in 1..m : t[k] \in ASet(s)
      BY <1>4 DEF ASet
    <3>2. \A p \in ASet(s) : p \in Pairs
      BY DEF ASet
    <3>3. QED
      BY <3>1, <3>2
  <2>2. t = [k \in 1..m |-> t[k]]
    BY <1>1, <1>2 DEF Ordered
  <2>3. QED
    BY <2>1, <2>2
<1>6. Rising(t)
  <2>1. ASSUME NEW k \in 1..m, NEW l \in 1..m, k < l PROVE t[k][1] <= t[l][1]
    <3>1. InOrder(t, s, s)
      BY <1>1, <1>2, OrderedPermutes
    <3>2. PICK i \in 1..m, j \in 1..m : t[k] = s[i] /\ t[l] = s[j] /\ Less(s[i], s[j])
      BY <1>2, <2>1, <3>1 DEF InOrder
    <3>3. s[i] \in Pairs /\ s[j] \in Pairs
      OBVIOUS
    <3>4. QED
      BY <3>2, <3>3, PairsAre
  <2>2. ASSUME NEW k \in 1..m PROVE t[k][1] <= t[k][1]
    <3>1. t[k] \in Pairs
      BY <1>5
    <3>2. t[k][1] \in Int
      BY <3>1, PairsAre
    <3>3. QED
      BY <3>2
  <2>3. \A k, l \in 1..m : k <= l => k < l \/ k = l
    OBVIOUS
  <2>4. QED
    BY <1>4, <2>1, <2>2, <2>3 DEF Rising
<1>7. QED
  BY <1>1, <1>4, <1>5, <1>6 DEF Near


\* What is left of a sequence once i of its elements are taken.
From(s, i) == SubSeq(s, i + 1, Len(s))
LEMMA FromIs ==
  ASSUME NEW s, NEW i, s \in Seq(Pairs), i \in 0..Len(s)
  PROVE  /\ From(s, 0) = s /\ From(s, i) \in Seq(Pairs) /\ (From(s, i) = <<>> <=> i = Len(s))
         /\ i # Len(s) => /\ i + 1 \in 1..Len(s) /\ s[i + 1] \in Pairs
                          /\ Head(From(s, i)) = s[i + 1] /\ Tail(From(s, i)) = From(s, i + 1)
<1>1. Len(s) \in Nat /\ \A q \in 1..Len(s) : s[q] \in Pairs
  OBVIOUS
<1>2. From(s, 0) = s
  BY SubSeqFull DEF From
<1>3. CASE i = Len(s)
  <2>1. From(s, i) = <<>>
    BY <1>1, <1>3, SubSeqEmpty DEF From
  <2>2. <<>> \in Seq(Pairs)
    OBVIOUS
  <2>3. QED
    BY <1>2, <1>3, <2>1, <2>2
<1>4. CASE i # Len(s)
  <2>1. i + 1 \in 1..Len(s) /\ Len(s) \in (i + 1)..Len(s)
    BY <1>1, <1>4
  <2>2. Head(From(s, i)) = s[i + 1] /\ Tail(From(s, i)) = From(s, i + 1)
    BY <2>1, HeadTailOfSubSeq DEF From
  <2>3. /\ From(s, i) \in Seq(Pairs) /\ Len(From(s, i)) = Len(s) - i
    <3>1. \A q \in (i + 1)..Len(s) : s[q] \in Pairs
      BY <1>1
    <3>2. i + 1 \in Int /\ Len(s) \in Int
      BY <1>1
    <3>3. /\ SubSeq(s, i + 1, Len(s)) \in Seq(Pairs)
          /\ Len(SubSeq(s, i + 1, Len(s))) = IF i + 1 <= Len(s) THEN Len(s) - (i + 1) + 1 ELSE 0
      BY <3>1, <3>2, SubSeqProperties
    <3>4. QED
      BY <1>1, <2>1, <3>3 DEF From
  <2>4. From(s, i) # <<>>
    <3>1. Len(From(s, i)) # 0
      BY <1>1, <1>4, <2>3
    <3>2. QED
      BY <3>1
  <2>5. QED
    BY <1>1, <1>2, <1>4, <2>1, <2>2, <2>3, <2>4
<1>5. QED
  BY <1>3, <1>4

\* out has i elements of a and j of b: none that is left is nearer, nor is
\* out's p-th farther than that of either.
MergeAt(out, a, b, i, j) ==
  /\ out \in Seq(Pairs) /\ Rising(out) /\ Injective(out)
  /\ i \in 0..Len(a) /\ j \in 0..Len(b) /\ Len(out) = i + j
  /\ ASet(out) = Piece(a, 1, i) \cup Piece(b, 1, j)
  /\ \A p \in 1..Len(out) : /\ \A q \in (i + 1)..Len(a) : out[p][1] <= a[q][1]
                            /\ \A q \in (j + 1)..Len(b) : out[p][1] <= b[q][1]
                            /\ p <= Len(a) => out[p][1] <= a[p][1]
                            /\ p <= Len(b) => out[p][1] <= b[p][1]

\* The two are alike.
LEMMA MergeSwaps ==
  ASSUME NEW out, NEW a, NEW b, NEW i, NEW j, MergeAt(out, a, b, i, j)
  PROVE  MergeAt(out, b, a, j, i)
<1>1. Piece(b, 1, j) \cup Piece(a, 1, i) = Piece(a, 1, i) \cup Piece(b, 1, j)
  OBVIOUS
<1>2. i + j = j + i
  <2>1. i \in Int /\ j \in Int
    BY DEF MergeAt
  <2>2. QED
    BY <2>1
<1>3. QED
  BY <1>1, <1>2 DEF MergeAt

\* Taking one of a, if none that is left is nearer.
LEMMA MergeTakes ==
  ASSUME NEW a, NEW b, NEW out, NEW i \in Nat, NEW j \in Nat, Near(a), Near(b), ASet(a) \cap ASet(b) = {},
         MergeAt(out, a, b, i, j), i # Len(a), \A q \in (j + 1)..Len(b) : a[i + 1][1] <= b[q][1]
  PROVE  MergeAt(Append(out, a[i + 1]), a, b, i + 1, j)
<1>1. /\ a \in Seq(Pairs) /\ b \in Seq(Pairs) /\ Rising(a) /\ Rising(b) /\ Injective(a)
      /\ out \in Seq(Pairs) /\ Rising(out) /\ Injective(out)
      /\ i \in 0..Len(a) /\ j \in 0..Len(b) /\ Len(out) = i + j
      /\ ASet(out) = Piece(a, 1, i) \cup Piece(b, 1, j)
  BY DEF Near, MergeAt
<1>2. /\ Len(a) \in Nat /\ Len(b) \in Nat /\ DOMAIN a = 1..Len(a) /\ DOMAIN b = 1..Len(b)
      /\ \A q \in 1..Len(a) : a[q] \in Pairs /\ a[q][1] \in Int
      /\ \A q \in 1..Len(b) : b[q] \in Pairs /\ b[q][1] \in Int
  BY <1>1, LenProperties, PairsAre
<1>3. PICK n \in Nat : n = Len(out) /\ n = i + j /\ DOMAIN out = 1..n
  BY <1>1, LenProperties
<1>4. i \in Nat /\ j \in Nat /\ Len(a) \in Nat /\ Len(b) \in Nat /\ i + 1 <= Len(a) /\ i <= Len(a) /\ j <= Len(b)
  <2>1. Len(a) \in Nat /\ Len(b) \in Nat
    BY <1>2
  <2>2. i \in 0..Len(a) /\ j \in 0..Len(b)
    BY <1>1
  <2>3. i \in Nat /\ j \in Nat /\ i # Len(a)
    OBVIOUS
  <2>4. QED
    BY ONLY <2>1, <2>2, <2>3
<1>5. i + 1 \in 1..Len(a) /\ i + 1 <= n + 1 /\ j + 1 <= n + 1
  BY ONLY <1>4, n \in Nat, <1>3
<1>6. PICK x : x = a[i + 1]
  OBVIOUS
<1>7. x \in Pairs /\ x[1] \in Int
  BY <1>2, <1>6, <1>5
<1>8. PICK o : o = Append(out, x)
  OBVIOUS
<1>9. /\ o \in Seq(Pairs) /\ Len(o) = n + 1 /\ DOMAIN o = 1..n + 1
      /\ (\A p \in 1..n : o[p] = out[p]) /\ o[n + 1] = x
  <2>1. /\ Append(out, x) \in Seq(Pairs) /\ Len(Append(out, x)) = Len(out) + 1
        /\ (\A p \in 1..Len(out) : Append(out, x)[p] = out[p]) /\ Append(out, x)[Len(out) + 1] = x
    BY <1>1, <1>7, AppendProperties
  <2>2. QED
    BY <1>3, <1>8, <2>1, LenProperties
<1>10. \A p \in 1..n + 1 : p = n + 1 \/ p \in 1..n
  BY <1>3
<1>11. ASSUME NEW p \in 1..n PROVE out[p] \in Pairs /\ out[p][1] \in Int
  BY <1>1, <1>3, PairsAre
<1>12. ASSUME NEW p \in 1..n
       PROVE  /\ \A q \in (i + 1)..Len(a) : out[p][1] <= a[q][1]
              /\ \A q \in (j + 1)..Len(b) : out[p][1] <= b[q][1]
              /\ p <= Len(a) => out[p][1] <= a[p][1]
              /\ p <= Len(b) => out[p][1] <= b[p][1]
  BY <1>3 DEF MergeAt
<1>13. Rising(o)
  <2>1. ASSUME NEW p \in 1..n + 1, NEW q \in 1..n + 1, p <= q PROVE o[p][1] <= o[q][1]
    <3>1. CASE q \in 1..n
      <4>1. p \in 1..n
        BY <2>1, <3>1
      <4>2. QED
        BY <1>1, <1>3, <1>9, <2>1, <3>1, <4>1 DEF Rising
    <3>2. CASE q = n + 1 /\ p \in 1..n
      <4>1. i + 1 \in (i + 1)..Len(a)
        BY ONLY <1>4
      <4>2. QED
        BY <1>6, <1>9, <1>12, <3>2, <4>1
    <3>3. CASE q = n + 1 /\ p = n + 1
      BY <1>7, <1>9, <3>3
    <3>4. QED
      BY <1>10, <3>1, <3>2, <3>3
  <2>2. QED
    BY <1>9, <2>1 DEF Rising
<1>14. x \notin ASet(out)
  <2>1. x \in ASet(a) /\ x \notin ASet(b)
    BY <1>2, <1>6, <1>5 DEF ASet
  <2>2. x \notin Piece(b, 1, j)
    <3>1. \A q \in 1..j : q \in 1..Len(b)
      BY ONLY <1>4
    <3>2. QED
      BY <1>2, <2>1, <3>1 DEF Piece, ASet
  <2>3. x \notin Piece(a, 1, i)
    <3>1. \A q \in 1..i : q \in 1..Len(a) /\ q # i + 1
      BY ONLY <1>4
    <3>2. i + 1 \in DOMAIN a
      BY <1>2, <1>5
    <3>3. QED
      BY <1>1, <1>2, <1>6, <3>1, <3>2 DEF Piece, Injective
  <2>4. QED
    BY <1>1, <2>2, <2>3
<1>15. Injective(o)
  <2>1. \A p \in 1..n : out[p] # x
    BY <1>3, <1>14 DEF ASet
  <2>2. ASSUME NEW p \in 1..n + 1, NEW q \in 1..n + 1, o[p] = o[q] PROVE p = q
    BY <1>1, <1>3, <1>9, <1>10, <2>1, <2>2 DEF Injective
  <2>3. QED
    BY <1>9, <2>2 DEF Injective
<1>16. ASet(o) = Piece(a, 1, i + 1) \cup Piece(b, 1, j)
  <2>1. ASet(o) = ASet(out) \cup {x}
    <3>1. \A p \in 1..n : p \in 1..n + 1
      BY <1>3
    <3>2. n + 1 \in 1..n + 1
      BY <1>3
    <3>3. QED
      BY <1>3, <1>9, <1>10, <3>1, <3>2 DEF ASet
  <2>2. Piece(a, 1, i + 1) = Piece(a, 1, i) \cup {x}
    <3>1. \A q : q \in 1..i + 1 <=> q \in 1..i \/ q = i + 1
      BY <1>4
    <3>2. QED
      BY <1>6, <3>1 DEF Piece
  <2>3. QED
    BY <1>1, <2>1, <2>2
<1>17. ASSUME NEW p \in 1..n + 1
       PROVE  /\ \A q \in (i + 1 + 1)..Len(a) : o[p][1] <= a[q][1]
              /\ \A q \in (j + 1)..Len(b) : o[p][1] <= b[q][1]
              /\ p <= Len(a) => o[p][1] <= a[p][1]
              /\ p <= Len(b) => o[p][1] <= b[p][1]
  <2>1. CASE p \in 1..n
    <3>1. \A q \in (i + 1 + 1)..Len(a) : q \in (i + 1)..Len(a)
      BY ONLY <1>4
    <3>2. o[p] = out[p]
      BY <1>9, <2>1
    <3>3. QED
      BY <1>12, <2>1, <3>1, <3>2
  <2>2. CASE p = n + 1
    <3>1. o[p] = x
      BY <1>9, <2>2
    <3>2. ASSUME NEW q \in (i + 1)..Len(a) PROVE x[1] <= a[q][1]
      <4>1. q \in 1..Len(a) /\ i + 1 <= q
        BY ONLY <1>4, q \in (i + 1)..Len(a)
      <4>2. QED
        BY <1>1, <1>2, <1>6, <1>5, <4>1 DEF Rising
    <3>3. \A q \in (j + 1)..Len(b) : x[1] <= b[q][1]
      BY <1>6
    <3>4. \A q \in (i + 1 + 1)..Len(a) : q \in (i + 1)..Len(a)
      BY ONLY <1>4
    <3>5. p <= Len(a) => p \in (i + 1)..Len(a)
      BY ONLY <1>3, <1>4, <1>5, <2>2, n \in Nat
    <3>6. p <= Len(b) => p \in (j + 1)..Len(b)
      BY ONLY <1>3, <1>4, <1>5, <2>2, n \in Nat
    <3>7. QED
      BY <3>1, <3>2, <3>3, <3>4, <3>5, <3>6
  <2>3. QED
    BY <1>10, <2>1, <2>2
<1>18. i + 1 \in 0..Len(a) /\ Len(o) = i + 1 + j
  <2>1. Len(o) = n + 1 /\ n = i + j
    BY <1>3, <1>9
  <2>2. QED
    BY ONLY <1>4, <2>1
<1>19. MergeAt(o, a, b, i + 1, j)
  BY <1>1, <1>9, <1>13, <1>15, <1>16, <1>17, <1>18 DEF MergeAt
<1>20. QED
  BY <1>6, <1>8, <1>19


\* One step of TopK's loop.
TakeT == [out : Seq(Pairs), a : Seq(Pairs), b : Seq(Pairs)]
TakeStep(s, k) ==
  LET fromA == [s EXCEPT !.out = Append(@, Head(s.a)), !.a = Tail(@)]
      fromB == [s EXCEPT !.out = Append(@, Head(s.b)), !.b = Tail(@)]
      both == [out |-> s.out \o <<Head(s.b), Head(s.a)>>, a |-> Tail(s.a), b |-> Tail(s.b)]
  IN  IF Len(s.out) >= k \/ (s.a = <<>> /\ s.b = <<>>) THEN s
      ELSE IF s.a = <<>> THEN fromB ELSE IF s.b = <<>> THEN fromA
      ELSE IF Head(s.a)[1] < Head(s.b)[1] THEN fromA
      ELSE IF Head(s.a)[1] > Head(s.b)[1] THEN fromB ELSE both

\* What a step changes of its state.
LEMMA TakeFields ==
  ASSUME NEW s \in TakeT, NEW p, NEW q
  PROVE  /\ [s EXCEPT !.out = p, !.a = q] = [out |-> p, a |-> q, b |-> s.b]
         /\ [s EXCEPT !.out = p, !.b = q] = [out |-> p, a |-> s.a, b |-> q]
<1>1. ASSUME NEW r, NEW d, DOMAIN r = {"out", "a", "b"}, r = [f \in {"out", "a", "b"} |-> r[f]],
             d = [out |-> r.out, a |-> r.a, b |-> r.b]
      PROVE  r = d
  <2>1. d = [f \in {"out", "a", "b"} |-> r[f]]
    BY <1>1
  <2>2. QED
    BY <1>1, <2>1
<1>2. PICK r : r = [s EXCEPT !.out = p, !.a = q]
  OBVIOUS
<1>3. /\ DOMAIN r = {"out", "a", "b"} /\ r = [f \in {"out", "a", "b"} |-> r[f]]
      /\ r.out = p /\ r.a = q /\ r.b = s.b
  BY <1>2 DEF TakeT
<1>4. PICK u : u = [s EXCEPT !.out = p, !.b = q]
  OBVIOUS
<1>5. /\ DOMAIN u = {"out", "a", "b"} /\ u = [f \in {"out", "a", "b"} |-> u[f]]
      /\ u.out = p /\ u.a = s.a /\ u.b = q
  BY <1>4 DEF TakeT
<1>6. r = [out |-> p, a |-> q, b |-> s.b]
  BY <1>1, <1>3
<1>7. u = [out |-> p, a |-> s.a, b |-> q]
  BY <1>1, <1>5
<1>8. QED
  BY <1>2, <1>4, <1>6, <1>7

\* Where the loop is when i of a and j of b are taken.
TakenAt(s, a, b, k, i, j) ==
  s \in TakeT /\ s.a = From(a, i) /\ s.b = From(b, j) /\ MergeAt(s.out, a, b, i, j) /\ Len(s.out) <= k + 1
Taken(s, a, b, k) == \E i \in 0..Len(a), j \in 0..Len(b) : TakenAt(s, a, b, k, i, j)

\* Taking the head of a, if none of b that is left is nearer.
LEMMA TakenFromA ==
  ASSUME NEW a, NEW b, NEW k \in Nat, NEW s, NEW i \in Nat, NEW j \in Nat,
         Near(a), Near(b), ASet(a) \cap ASet(b) = {},
         TakenAt(s, a, b, k, i, j), i # Len(a), Len(s.out) <= k, \A q \in (j + 1)..Len(b) : a[i + 1][1] <= b[q][1]
  PROVE  /\ i + 1 \in 0..Len(a) /\ Len(Append(s.out, Head(s.a))) = Len(s.out) + 1
         /\ TakenAt([out |-> Append(s.out, Head(s.a)), a |-> Tail(s.a), b |-> s.b], a, b, k, i + 1, j)
<1>1. /\ a \in Seq(Pairs) /\ s.out \in Seq(Pairs) /\ s.a = From(a, i) /\ s.b = From(b, j) /\ s.b \in Seq(Pairs)
      /\ MergeAt(s.out, a, b, i, j) /\ i \in 0..Len(a)
  BY DEF TakenAt, TakeT, MergeAt, Near
<1>2. i + 1 \in 0..Len(a) /\ a[i + 1] \in Pairs /\ Head(s.a) = a[i + 1] /\ Tail(s.a) = From(a, i + 1)
  <2>1. Len(a) \in Nat /\ i # Len(a)
    BY <1>1
  <2>2. i + 1 \in 1..Len(a) /\ a[i + 1] \in Pairs /\ Head(From(a, i)) = a[i + 1] /\ Tail(From(a, i)) = From(a, i + 1)
    BY <1>1, <2>1, FromIs
  <2>3. i + 1 \in 0..Len(a)
    BY ONLY <2>1, <2>2
  <2>4. QED
    BY <1>1, <2>2, <2>3
<1>3. From(a, i + 1) \in Seq(Pairs)
  BY <1>1, <1>2, FromIs
<1>4. PICK o : o = Append(s.out, a[i + 1])
  OBVIOUS
<1>5. o \in Seq(Pairs) /\ Len(o) = Len(s.out) + 1 /\ Len(o) <= k + 1
  <2>1. Append(s.out, a[i + 1]) \in Seq(Pairs) /\ Len(Append(s.out, a[i + 1])) = Len(s.out) + 1
    BY <1>1, <1>2, AppendProperties
  <2>2. Len(s.out) \in Nat
    BY <1>1
  <2>3. QED
    BY <1>4, <2>1, <2>2
<1>6. MergeAt(o, a, b, i + 1, j)
  BY <1>1, <1>4, MergeTakes
<1>7. PICK t : t = [out |-> o, a |-> From(a, i + 1), b |-> s.b]
  OBVIOUS
<1>8. t \in TakeT /\ t.out = o /\ t.a = From(a, i + 1) /\ t.b = From(b, j)
  BY <1>1, <1>3, <1>5, <1>7 DEF TakeT
<1>9. TakenAt(t, a, b, k, i + 1, j)
  BY <1>5, <1>6, <1>8 DEF TakenAt
<1>10. QED
  BY <1>2, <1>4, <1>5, <1>7, <1>9

\* Taking the head of b, if none of a that is left is nearer.
LEMMA TakenFromB ==
  ASSUME NEW a, NEW b, NEW k \in Nat, NEW s, NEW i \in Nat, NEW j \in Nat,
         Near(a), Near(b), ASet(a) \cap ASet(b) = {},
         TakenAt(s, a, b, k, i, j), j # Len(b), Len(s.out) <= k, \A q \in (i + 1)..Len(a) : b[j + 1][1] <= a[q][1]
  PROVE  /\ j + 1 \in 0..Len(b) /\ Len(Append(s.out, Head(s.b))) = Len(s.out) + 1
         /\ TakenAt([out |-> Append(s.out, Head(s.b)), a |-> s.a, b |-> Tail(s.b)], a, b, k, i, j + 1)
<1>1. /\ s.out \in Seq(Pairs) /\ s.a \in Seq(Pairs) /\ s.b \in Seq(Pairs)
      /\ s.a = From(a, i) /\ s.b = From(b, j) /\ Len(s.out) <= k + 1
  BY DEF TakenAt, TakeT
<1>2. PICK t : t = [out |-> s.out, a |-> s.b, b |-> s.a]
  OBVIOUS
<1>3. TakenAt(t, b, a, k, j, i) /\ t.out = s.out /\ t.a = s.b /\ t.b = s.a
  <2>1. t \in TakeT /\ t.out = s.out /\ t.a = s.b /\ t.b = s.a
    BY <1>1, <1>2 DEF TakeT
  <2>2. MergeAt(t.out, b, a, j, i)
    BY <2>1, MergeSwaps DEF TakenAt
  <2>3. QED
    BY <1>1, <2>1, <2>2 DEF TakenAt
<1>4. PICK u : u = [out |-> Append(t.out, Head(t.a)), a |-> Tail(t.a), b |-> t.b]
  OBVIOUS
<1>5. ASet(b) \cap ASet(a) = {}
  OBVIOUS
<1>6. /\ j + 1 \in 0..Len(b) /\ Len(Append(t.out, Head(t.a))) = Len(t.out) + 1
      /\ TakenAt(u, b, a, k, j + 1, i)
  BY <1>3, <1>4, <1>5, TakenFromA
<1>7. PICK v : v = [out |-> Append(s.out, Head(s.b)), a |-> s.a, b |-> Tail(s.b)]
  OBVIOUS
<1>8. TakenAt(v, a, b, k, i, j + 1)
  <2>1. v.out = u.out /\ v.a = u.b /\ v.b = u.a
    BY <1>3, <1>4, <1>7
  <2>2. u \in TakeT /\ u.a = From(b, j + 1) /\ u.b = From(a, i) /\ Len(u.out) <= k + 1 /\ MergeAt(u.out, b, a, j + 1, i)
    BY <1>6 DEF TakenAt
  <2>3. v \in TakeT
    BY <1>7, <2>1, <2>2 DEF TakeT
  <2>4. MergeAt(v.out, a, b, i, j + 1)
    BY <2>1, <2>2, MergeSwaps
  <2>5. QED
    BY <2>1, <2>2, <2>3, <2>4 DEF TakenAt
<1>9. QED
  BY <1>3, <1>6, <1>7, <1>8

\* Every step takes one or two, unless there are k or none is left.
LEMMA TakeStepIs ==
  ASSUME NEW a, NEW b, NEW k \in Nat, NEW s,
         Near(a), Near(b), ASet(a) \cap ASet(b) = {}, Taken(s, a, b, k)
  PROVE  /\ Taken(TakeStep(s, k), a, b, k)
         /\ IF Len(s.out) >= k \/ Len(s.out) = Len(a) + Len(b) THEN TakeStep(s, k) = s
            ELSE Len(TakeStep(s, k).out) >= Len(s.out) + 1
<1>1. PICK i \in 0..Len(a), j \in 0..Len(b) : TakenAt(s, a, b, k, i, j)
  BY DEF Taken
<1>2. /\ s \in TakeT /\ s.a = From(a, i) /\ s.b = From(b, j) /\ Len(s.out) <= k + 1 /\ MergeAt(s.out, a, b, i, j)
      /\ s.out \in Seq(Pairs) /\ s.a \in Seq(Pairs) /\ s.b \in Seq(Pairs)
      /\ s = [out |-> s.out, a |-> s.a, b |-> s.b]
  BY <1>1 DEF TakenAt, TakeT
<1>3. /\ a \in Seq(Pairs) /\ b \in Seq(Pairs) /\ Rising(a) /\ Rising(b)
      /\ Len(a) \in Nat /\ Len(b) \in Nat /\ DOMAIN a = 1..Len(a) /\ DOMAIN b = 1..Len(b)
  BY LenProperties DEF Near
<1>4. Len(s.out) \in Nat /\ Len(s.out) = i + j /\ i \in Nat /\ j \in Nat
  BY <1>2, <1>3 DEF MergeAt
<1>5. /\ s.a = <<>> <=> i = Len(a)
      /\ i # Len(a) => i + 1 \in 1..Len(a) /\ a[i + 1] \in Pairs /\ Head(s.a) = a[i + 1] /\ Tail(s.a) = From(a, i + 1)
  BY <1>2, <1>3, FromIs
<1>6. /\ s.b = <<>> <=> j = Len(b)
      /\ j # Len(b) => j + 1 \in 1..Len(b) /\ b[j + 1] \in Pairs /\ Head(s.b) = b[j + 1] /\ Tail(s.b) = From(b, j + 1)
  BY <1>2, <1>3, FromIs
<1>7. (s.a = <<>> /\ s.b = <<>>) <=> Len(s.out) = Len(a) + Len(b)
  <2>1. i \in 0..Len(a) /\ j \in 0..Len(b) /\ Len(a) \in Nat /\ Len(b) \in Nat
    BY <1>3
  <2>2. (i = Len(a) /\ j = Len(b)) <=> i + j = Len(a) + Len(b)
    BY ONLY <2>1
  <2>3. QED
    BY <1>4, <1>5, <1>6, <2>2
<1>8. \A q \in (i + 1)..Len(a) : a[q] \in Pairs /\ a[q][1] \in Int /\ a[i + 1][1] <= a[q][1]
  <2>1. ASSUME NEW q \in (i + 1)..Len(a) PROVE q \in 1..Len(a) /\ i + 1 \in 1..Len(a) /\ i + 1 <= q
    BY <1>3
  <2>2. QED
    BY <1>3, <2>1, PairsAre DEF Rising
<1>9. \A q \in (j + 1)..Len(b) : b[q] \in Pairs /\ b[q][1] \in Int /\ b[j + 1][1] <= b[q][1]
  <2>1. ASSUME NEW q \in (j + 1)..Len(b) PROVE q \in 1..Len(b) /\ j + 1 \in 1..Len(b) /\ j + 1 <= q
    BY <1>3
  <2>2. QED
    BY <1>3, <2>1, PairsAre DEF Rising
<1> DEFINE fromA == [out |-> Append(s.out, Head(s.a)), a |-> Tail(s.a), b |-> s.b]
           fromB == [out |-> Append(s.out, Head(s.b)), a |-> s.a, b |-> Tail(s.b)]
           both == [out |-> s.out \o <<Head(s.b), Head(s.a)>>, a |-> Tail(s.a), b |-> Tail(s.b)]
<1>10. CASE Len(s.out) >= k \/ (s.a = <<>> /\ s.b = <<>>)
  <2>1. TakeStep(s, k) = s
    BY <1>10 DEF TakeStep
  <2>2. QED
    BY <1>7, <1>10, <2>1
<1>11. CASE ~(Len(s.out) >= k \/ (s.a = <<>> /\ s.b = <<>>))
  <2>1. Len(s.out) <= k /\ ~(Len(s.out) >= k \/ Len(s.out) = Len(a) + Len(b))
    BY <1>4, <1>7, <1>11
  <2>2. /\ [s EXCEPT !.out = Append(@, Head(s.a)), !.a = Tail(@)] = fromA
        /\ [s EXCEPT !.out = Append(@, Head(s.b)), !.b = Tail(@)] = fromB
    <3>1. \A p, q : /\ [s EXCEPT !.out = p, !.a = q] = [out |-> p, a |-> q, b |-> s.b]
                    /\ [s EXCEPT !.out = p, !.b = q] = [out |-> p, a |-> s.a, b |-> q]
      BY <1>2, TakeFields
    <3>2. [s EXCEPT !.out = Append(s.out, Head(s.a)), !.a = Tail(s.a)] = fromA
      BY ONLY <3>1
    <3>3. [s EXCEPT !.out = Append(s.out, Head(s.b)), !.b = Tail(s.b)] = fromB
      BY ONLY <3>1
    <3>4. QED
      BY <3>2, <3>3
  <2>3. TakeStep(s, k) = IF s.a = <<>> THEN fromB ELSE IF s.b = <<>> THEN fromA
                         ELSE IF Head(s.a)[1] < Head(s.b)[1] THEN fromA
                         ELSE IF Head(s.a)[1] > Head(s.b)[1] THEN fromB ELSE both
    BY <1>11, <2>2 DEF TakeStep
  <2>4. SUFFICES Taken(TakeStep(s, k), a, b, k) /\ Len(TakeStep(s, k).out) >= Len(s.out) + 1
    BY <2>1
  <2>5. ASSUME i # Len(a), \A q \in (j + 1)..Len(b) : a[i + 1][1] <= b[q][1]
        PROVE  Taken(fromA, a, b, k) /\ Len(fromA.out) = Len(s.out) + 1
    <3>1. /\ i + 1 \in 0..Len(a) /\ Len(Append(s.out, Head(s.a))) = Len(s.out) + 1
          /\ TakenAt(fromA, a, b, k, i + 1, j)
      BY <1>1, <1>4, <2>1, <2>5, TakenFromA
    <3>2. QED
      BY <3>1 DEF Taken
  <2>6. ASSUME j # Len(b), \A q \in (i + 1)..Len(a) : b[j + 1][1] <= a[q][1]
        PROVE  /\ j + 1 \in 0..Len(b) /\ Len(fromB.out) = Len(s.out) + 1 /\ TakenAt(fromB, a, b, k, i, j + 1)
               /\ Taken(fromB, a, b, k)
    <3>1. /\ j + 1 \in 0..Len(b) /\ Len(Append(s.out, Head(s.b))) = Len(s.out) + 1
          /\ TakenAt(fromB, a, b, k, i, j + 1)
      BY <1>1, <1>4, <2>1, <2>6, TakenFromB
    <3>2. QED
      BY <3>1 DEF Taken
  <2>7. CASE s.a = <<>>
    <3>1. j # Len(b) /\ \A q \in (i + 1)..Len(a) : b[j + 1][1] <= a[q][1]
      <4>1. i = Len(a) /\ j # Len(b)
        BY <1>5, <1>6, <1>11, <2>7
      <4>2. (i + 1)..Len(a) = {}
        BY ONLY <1>4, <4>1
      <4>3. QED
        BY <4>1, <4>2
    <3>2. QED
      BY <1>4, <2>3, <2>6, <2>7, <3>1
  <2>8. CASE s.a # <<>> /\ s.b = <<>>
    <3>1. i # Len(a) /\ \A q \in (j + 1)..Len(b) : a[i + 1][1] <= b[q][1]
      <4>1. j = Len(b) /\ i # Len(a)
        BY <1>5, <1>6, <2>8
      <4>2. (j + 1)..Len(b) = {}
        BY ONLY <1>4, <4>1
      <4>3. QED
        BY <4>1, <4>2
    <3>2. QED
      BY <1>4, <2>3, <2>5, <2>8, <3>1
  <2>9. CASE s.a # <<>> /\ s.b # <<>>
    <3>1. /\ i # Len(a) /\ j # Len(b) /\ Head(s.a) = a[i + 1] /\ Head(s.b) = b[j + 1]
          /\ a[i + 1] \in Pairs /\ b[j + 1] \in Pairs
      BY <1>5, <1>6, <2>9
    <3>2. a[i + 1][1] \in Int /\ b[j + 1][1] \in Int
      BY <3>1, PairsAre
    <3>3. CASE a[i + 1][1] < b[j + 1][1]
      <4>1. \A q \in (j + 1)..Len(b) : a[i + 1][1] <= b[q][1]
        BY <1>9, <3>2, <3>3
      <4>2. TakeStep(s, k) = fromA
        BY <2>3, <2>9, <3>1, <3>3
      <4>3. QED
        BY <1>4, <2>5, <3>1, <4>1, <4>2
    <3>4. CASE a[i + 1][1] > b[j + 1][1]
      <4>1. \A q \in (i + 1)..Len(a) : b[j + 1][1] <= a[q][1]
        BY <1>8, <3>2, <3>4
      <4>2. TakeStep(s, k) = fromB
        <5>1. ~(Head(s.a)[1] < Head(s.b)[1]) /\ Head(s.a)[1] > Head(s.b)[1]
          BY <3>1, <3>2, <3>4
        <5>2. QED
          BY <2>3, <2>9, <5>1, Zenon
      <4>3. QED
        BY <1>4, <2>6, <3>1, <4>1, <4>2
    <3>5. CASE a[i + 1][1] = b[j + 1][1]
      <4>1. /\ \A q \in (i + 1)..Len(a) : b[j + 1][1] <= a[q][1]
            /\ \A q \in (j + 1)..Len(b) : a[i + 1][1] <= b[q][1]
        BY <1>8, <1>9, <3>5
      <4>2. j + 1 \in 0..Len(b) /\ Len(fromB.out) = Len(s.out) + 1 /\ TakenAt(fromB, a, b, k, i, j + 1)
        BY <2>6, <3>1, <4>1
      <4>3. \A q \in (j + 1 + 1)..Len(b) : a[i + 1][1] <= b[q][1]
        <5>1. \A q \in (j + 1 + 1)..Len(b) : q \in (j + 1)..Len(b)
          BY <1>3
        <5>2. QED
          BY <4>1, <5>1
      <4>4. Len(fromB.out) <= k
        BY <1>4, <1>11, <4>2
      <4>5. PICK t : t = fromB
        OBVIOUS
      <4>6. /\ i + 1 \in 0..Len(a) /\ Len(Append(t.out, Head(t.a))) = Len(t.out) + 1
            /\ TakenAt([out |-> Append(t.out, Head(t.a)), a |-> Tail(t.a), b |-> t.b], a, b, k, i + 1, j + 1)
        <5>1. TakenAt(t, a, b, k, i, j + 1) /\ Len(t.out) <= k
          BY <4>2, <4>4, <4>5
        <5>2. j + 1 \in Nat
          BY <1>4
        <5> HIDE DEF fromA, fromB, both
        <5>3. QED
          BY <1>4, <3>1, <4>3, <5>1, <5>2, TakenFromA
      <4>7. t.out = Append(s.out, Head(s.b)) /\ t.a = s.a /\ t.b = Tail(s.b)
        BY <4>5
      <4>8. Append(Append(s.out, Head(s.b)), Head(s.a)) = s.out \o <<Head(s.b), Head(s.a)>>
        <5>1. Head(s.a) \in Pairs /\ Head(s.b) \in Pairs
          BY <3>1
        <5>2. PICK o \in Seq(Pairs), x \in Pairs, y \in Pairs : o = s.out /\ x = Head(s.b) /\ y = Head(s.a)
          BY <1>2, <5>1
        <5>3. Append(Append(o, x), y) = o \o <<x, y>>
          OBVIOUS
        <5>4. QED
          BY <5>2, <5>3
      <4>9. [out |-> Append(t.out, Head(t.a)), a |-> Tail(t.a), b |-> t.b] = both
        BY <4>7, <4>8
      <4>10. Taken(both, a, b, k)
        <5>1. TakenAt(both, a, b, k, i + 1, j + 1)
          BY <4>6, <4>9
        <5>2. QED
          BY <4>2, <4>6, <5>1 DEF Taken
      <4>11. Len(both.out) >= Len(s.out) + 1
        <5>1. both.out = Append(t.out, Head(t.a))
          BY <4>7, <4>8
        <5>2. QED
          BY <1>4, <4>2, <4>5, <4>6, <5>1
      <4>12. TakeStep(s, k) = both
        <5>1. ~(Head(s.a)[1] < Head(s.b)[1]) /\ ~(Head(s.a)[1] > Head(s.b)[1])
          BY <3>1, <3>2, <3>5
        <5>2. QED
          BY <2>3, <2>9, <5>1, Zenon
      <4>13. QED
        BY <4>10, <4>11, <4>12
    <3>6. QED
      BY <3>2, <3>3, <3>4, <3>5
  <2>10. QED
    BY <2>7, <2>8, <2>9
<1>12. QED
  BY <1>10, <1>11


\* What TopK returns: the nearest of two sequences, none of them farther than
\* the one at its place in the first was.
NearestOf(out, a, b, k) ==
  /\ Near(out) /\ Len(out) <= k + 1 /\ ASet(out) \subseteq ASet(a) \cup ASet(b)
  /\ Len(out) >= k \/ ASet(out) = ASet(a) \cup ASet(b)
  /\ Len(a) >= k => Len(out) >= k
  /\ \A x \in (ASet(a) \cup ASet(b)) \ ASet(out) : \A p \in 1..Len(out) : out[p][1] <= x[1]
  /\ \A p \in 1..Len(out) : p <= Len(a) => out[p][1] <= a[p][1]

\* When the loop has ended, with k or all.
LEMMA TakenEnds ==
  ASSUME NEW a, NEW b, NEW k \in Nat, NEW s, Near(a), Near(b), Taken(s, a, b, k),
         Len(s.out) >= k \/ Len(s.out) >= Len(a) + Len(b)
  PROVE  NearestOf(s.out, a, b, k)
<1>1. PICK i \in 0..Len(a), j \in 0..Len(b) : TakenAt(s, a, b, k, i, j)
  BY DEF Taken
<1>2. PICK out : out = s.out
  OBVIOUS
<1>3. MergeAt(out, a, b, i, j) /\ Len(out) <= k + 1
  BY <1>1, <1>2 DEF TakenAt
<1>4. /\ a \in Seq(Pairs) /\ b \in Seq(Pairs) /\ Len(a) \in Nat /\ Len(b) \in Nat
      /\ DOMAIN a = 1..Len(a) /\ DOMAIN b = 1..Len(b)
  BY LenProperties DEF Near
<1>5. /\ out \in Seq(Pairs) /\ Near(out) /\ Len(out) = i + j
      /\ ASet(out) = Piece(a, 1, i) \cup Piece(b, 1, j)
      /\ \A p \in 1..Len(out) : p <= Len(a) => out[p][1] <= a[p][1]
  BY <1>3 DEF MergeAt, Near
<1>6. ASet(a) = Piece(a, 1, Len(a)) /\ ASet(b) = Piece(b, 1, Len(b))
  BY <1>4 DEF ASet, Piece
<1>7. ASet(out) \subseteq ASet(a) \cup ASet(b)
  <2>1. (\A q \in 1..i : q \in 1..Len(a)) /\ (\A q \in 1..j : q \in 1..Len(b))
    BY <1>4
  <2>2. QED
    BY <1>5, <1>6, <2>1 DEF Piece
<1>8. Len(out) >= k \/ ASet(out) = ASet(a) \cup ASet(b)
  <2>1. CASE Len(out) >= Len(a) + Len(b)
    <3>1. i \in 0..Len(a) /\ j \in 0..Len(b) /\ Len(a) \in Nat /\ Len(b) \in Nat /\ i + j >= Len(a) + Len(b)
      BY <1>4, <1>5, <2>1
    <3>2. i = Len(a) /\ j = Len(b)
      BY ONLY <3>1
    <3>3. QED
      BY <1>5, <1>6, <3>2
  <2>2. QED
    BY <1>2, <2>1
<1>9. Len(a) >= k => Len(out) >= k
  BY <1>2, <1>4, <1>5
<1>10. ASSUME NEW x \in (ASet(a) \cup ASet(b)) \ ASet(out), NEW p \in 1..Len(out) PROVE out[p][1] <= x[1]
  <2>1. CASE x \in ASet(a)
    <3>1. PICK q \in 1..Len(a) : x = a[q]
      BY <1>4, <2>1 DEF ASet
    <3>2. q \notin 1..i
      BY <1>5, <1>10, <3>1 DEF Piece
    <3>3. q \in (i + 1)..Len(a)
      BY <1>4, <3>2
    <3>4. QED
      BY <1>3, <3>1, <3>3 DEF MergeAt
  <2>2. CASE x \in ASet(b)
    <3>1. PICK q \in 1..Len(b) : x = b[q]
      BY <1>4, <2>2 DEF ASet
    <3>2. q \notin 1..j
      BY <1>5, <1>10, <3>1 DEF Piece
    <3>3. q \in (j + 1)..Len(b)
      BY <1>4, <3>2
    <3>4. QED
      BY <1>3, <3>1, <3>3 DEF MergeAt
  <2>3. QED
    BY <1>10, <2>1, <2>2
<1>11. NearestOf(out, a, b, k)
  BY <1>3, <1>5, <1>7, <1>8, <1>9, <1>10 DEF NearestOf
<1>12. QED
  BY <1>2, <1>11

\* TopK returns that.
LEMMA TopKIs ==
  ASSUME NEW results, NEW tmp, NEW k \in Nat,
         Near(results), Near(tmp), ASet(results) \cap ASet(tmp) = {}
  PROVE  NearestOf(TopK(results, tmp, k), results, tmp, k)
<1> DEFINE N == Len(results) + Len(tmp)
           first == [out |-> <<>>, a |-> results, b |-> tmp]
           E(f, t) == IF t = 0 THEN first ELSE TakeStep(f[t - 1], k)
           g == CHOOSE taken : taken = [t \in 0..N |-> E(taken, t)]
           V == {s \in TakeT : Taken(s, results, tmp, k)}
<1>1. /\ results \in Seq(Pairs) /\ tmp \in Seq(Pairs) /\ Len(results) \in Nat /\ Len(tmp) \in Nat /\ N \in Nat
  BY DEF Near
<1>2. TopK(results, tmp, k) = g[N].out
  BY Zenon DEF TopK, TakeStep
<1>3. \A s : Taken(s, results, tmp, k) => s \in V
  BY DEF Taken, TakenAt
<1>4. first \in V /\ first.out = <<>>
  <2>1. PICK s : s = first
    OBVIOUS
  <2>2. s \in TakeT /\ s.out = <<>> /\ s.a = results /\ s.b = tmp
    BY <1>1, <2>1 DEF TakeT
  <2>3. MergeAt(<<>>, results, tmp, 0, 0)
    <3>1. DOMAIN <<>> = {} /\ Len(<<>>) = 0 /\ <<>> \in Seq(Pairs) /\ 1..0 = {}
      OBVIOUS
    <3>2. 0 \in 0..Len(results) /\ 0 \in 0..Len(tmp)
      BY <1>1
    <3>3. ASet(<<>>) = {} /\ Piece(results, 1, 0) = {} /\ Piece(tmp, 1, 0) = {}
      BY <3>1 DEF ASet, Piece
    <3>4. QED
      BY <3>1, <3>2, <3>3 DEF MergeAt, Rising, Injective
  <2>4. 0 \in 0..Len(results) /\ 0 \in 0..Len(tmp)
    BY <1>1
  <2>5. From(results, 0) = results /\ From(tmp, 0) = tmp
    BY <1>1, <2>4, FromIs
  <2>6. Len(<<>>) <= k + 1
    OBVIOUS
  <2>7. TakenAt(s, results, tmp, k, 0, 0)
    BY <2>2, <2>3, <2>5, <2>6 DEF TakenAt
  <2>8. Taken(s, results, tmp, k)
    BY <2>4, <2>7 DEF Taken
  <2>9. QED
    BY <2>1, <2>2, <2>8
<1>5. ASSUME NEW s \in V
      PROVE  /\ TakeStep(s, k) \in V /\ Len(s.out) \in Nat /\ Len(TakeStep(s, k).out) \in Nat
             /\ IF Len(s.out) >= k \/ Len(s.out) = N THEN TakeStep(s, k) = s
                ELSE Len(TakeStep(s, k).out) >= Len(s.out) + 1
  <2>1. Taken(s, results, tmp, k)
    OBVIOUS
  <2>2. /\ Taken(TakeStep(s, k), results, tmp, k)
        /\ IF Len(s.out) >= k \/ Len(s.out) = N THEN TakeStep(s, k) = s
           ELSE Len(TakeStep(s, k).out) >= Len(s.out) + 1
    BY <2>1, TakeStepIs
  <2>3. \A u \in TakeT : Len(u.out) \in Nat
    BY DEF TakeT
  <2>4. QED
    BY <1>3, <2>2, <2>3
<1> HIDE DEF V
<1>6. PICK G : G = [p \in (1..N) \X V |-> TakeStep(p[2], k)]
  OBVIOUS
<1>7. /\ G \in [(1..N) \X V -> V]
      /\ \A t \in 1..N : \A s \in V : G[<<t, s>>] = TakeStep(s, k)
  <2>1. \A p \in (1..N) \X V : p[2] \in V /\ TakeStep(p[2], k) \in V
    BY <1>5
  <2>2. QED
    BY <1>6, <2>1
<1> HIDE DEF first, N
<1>8. PICK f \in [0..N -> V] : f[0] = first /\ \A t \in 1..N : f[t] = G[<<t, f[t - 1]>>]
  <2>1. LoopRuns(N, V, first, G)
    BY <1>1, <1>4, <1>7, Loop
  <2>2. QED
    BY <2>1 DEF LoopRuns
<1>9. f = [t \in 0..N |-> E(f, t)]
  <2>1. ASSUME NEW t \in 0..N PROVE f[t] = E(f, t)
    <3>1. CASE t = 0
      BY <1>8, <3>1
    <3>2. CASE t # 0
      <4>1. t \in 1..N /\ t - 1 \in 0..N
        BY <1>1, <3>2
      <4>2. f[t - 1] \in V
        BY <4>1
      <4>3. QED
        BY <1>7, <1>8, <3>2, <4>1, <4>2
    <3>3. QED
      BY <3>1, <3>2
  <2> HIDE DEF E
  <2>2. QED
    BY <2>1
<1>10. g = [t \in 0..N |-> E(g, t)]
  <2> HIDE DEF E
  <2>1. QED
    BY Zenon, <1>9
<1> HIDE DEF g
<1>11. \A t \in 0..N : g[t] = E(g, t)
  <2> HIDE DEF E
  <2>1. QED
    BY <1>10
<1>12. g[0] = first /\ \A t \in 1..N : g[t] = TakeStep(g[t - 1], k)
  <2>1. 0 \in 0..N /\ \A t \in 1..N : t \in 0..N /\ t # 0
    BY <1>1
  <2>2. QED
    BY <1>11, <2>1
<1>13. \A t \in 0..N : g[t] \in V
  <2>1. g[0] \in V
    BY <1>4, <1>12
  <2>2. \A t \in 1..N : g[t - 1] \in V => g[t] = G[<<t, g[t - 1]>>]
    BY <1>7, <1>12
  <2>3. QED
    BY <1>1, <1>7, <2>1, <2>2, LoopStays
<1>14. ASSUME NEW t \in 1..N
       PROVE  /\ g[t - 1] \in V /\ Len(g[t].out) \in Nat /\ Len(g[t - 1].out) \in Nat
              /\ Len(g[t - 1].out) >= k \/ Len(g[t - 1].out) >= t - 1 => Len(g[t].out) >= k \/ Len(g[t].out) >= t
  <2>1. t - 1 \in 0..N
    BY <1>1
  <2>2. PICK s \in V : s = g[t - 1]
    BY <1>13, <2>1
  <2>3. g[t] = TakeStep(s, k)
    BY <1>12, <2>2
  <2>4. /\ Len(s.out) \in Nat /\ Len(TakeStep(s, k).out) \in Nat
        /\ IF Len(s.out) >= k \/ Len(s.out) = N THEN TakeStep(s, k) = s
           ELSE Len(TakeStep(s, k).out) >= Len(s.out) + 1
    BY <1>5
  <2>5. QED
    BY <1>1, <2>2, <2>3, <2>4
<1>15. Len(g[N].out) >= k \/ Len(g[N].out) >= N
  <2>1. PICK S : S = {t \in 1..N : Len(g[t].out) >= k \/ Len(g[t].out) >= t}
    OBVIOUS
  <2>2. 1 \in S \/ N = 0
    <3>1. SUFFICES ASSUME N # 0 PROVE 1 \in S
      OBVIOUS
    <3>2. 1 \in 1..N /\ 1 - 1 = 0
      BY <1>1, <3>1
    <3>3. Len(g[0].out) >= 1 - 1
      BY <1>4, <1>12
    <3>4. QED
      BY <1>14, <2>1, <3>2, <3>3
  <2>3. ASSUME NEW t \in 2..N, t - 1 \in S PROVE t \in S
    <3>1. t \in 1..N
      BY <1>1
    <3>2. Len(g[t - 1].out) >= k \/ Len(g[t - 1].out) >= t - 1
      BY <2>1, <2>3
    <3>3. QED
      BY <1>14, <2>1, <3>1, <3>2
  <2>4. 1..N \subseteq S
    BY <1>1, <2>2, <2>3, StepsReach
  <2>5. CASE N = 0
    <3>1. Len(g[0].out) >= 0
      BY <1>4, <1>12
    <3>2. QED
      BY <2>5, <3>1
  <2>6. CASE N # 0
    <3>1. N \in 1..N
      BY <1>1, <2>6
    <3>2. QED
      BY <2>1, <2>4, <3>1
  <2>7. QED
    BY <2>5, <2>6
<1>16. PICK s \in V : s = g[N]
  <2>1. N \in 0..N
    BY <1>1
  <2>2. QED
    BY <1>13, <2>1
<1>17. Taken(s, results, tmp, k)
  BY DEF V
<1>18. NearestOf(s.out, results, tmp, k)
  <2>1. Len(s.out) >= k \/ Len(s.out) >= Len(results) + Len(tmp)
    BY <1>15, <1>16 DEF N
  <2>2. QED
    BY <1>17, <2>1, TakenEnds
<1>19. QED
  BY <1>2, <1>16, <1>18


-------------------------------------------------------------------------------
\* The search, by names: how near a node and an object are, the entries of a
\* leaf, and one turn of the loop.
Far(x, y, n) == <<MinDistance(x, y, tree_nodes[n].box), n>>
PairOf(x, y, j) == <<MinDistance(x, y, objects[j]), j>>
Row(x, y, n) == [i \in DOMAIN Entries(n) |-> <<MinDistance(x, y, objects[Entries(n)[i]]), Entries(n)[i]>>]
SearchT == [queue : SUBSET Pairs, results : Seq(Pairs)]
SearchStep(x, y, k, s) ==
  LET top == Least(s.queue)
      full == Len(s.results) >= k
      rest == s.queue \ {top}
  IN  IF s.queue = {} \/ (full /\ top[1] > s.results[k][1]) THEN [s EXCEPT !.queue = {}]
      ELSE IF tree_nodes[top[2]].leaf
           THEN [queue |-> rest, results |-> TopK(s.results, Ordered(Row(x, y, top[2]), Row(x, y, top[2])), k)]
      ELSE [s EXCEPT !.queue = rest \cup {f \in {Far(x, y, n) : n \in ASet(Entries(top[2]))} :
                                             full => f[1] < s.results[k][1]}]

\* D are the nodes taken from the queue.  A node whose father is among them is
\* too, or it is in the queue, or there are k results that are no farther; the
\* same holds of the objects of the leaves among them and the results.
FoundIn(D) == UNION {Kids(tree_nodes, n) : n \in D \cap LeavesOf(tree_nodes)}
PairsOf(x, y, S) == {PairOf(x, y, j) : j \in S}
Behind(results, k, d) == Len(results) >= k /\ results[k][1] <= d
Below(D, n) == n # root => tree_nodes[n].father \in D
SearchOK(s, D, x, y, k) ==
  /\ s \in SearchT /\ D \subseteq Nodes
  /\ s.queue \subseteq {Far(x, y, n) : n \in Nodes \ D}
  /\ Near(s.results) /\ Len(s.results) <= k + 1 /\ ASet(s.results) \subseteq PairsOf(x, y, FoundIn(D))
  /\ \A n \in D : Below(D, n)
  /\ \A n \in Nodes : Far(x, y, n) \in s.queue => Below(D, n)
  /\ \A n \in Nodes \ D : Below(D, n) =>
         Far(x, y, n) \in s.queue \/ Behind(s.results, k, MinDistance(x, y, tree_nodes[n].box))
  /\ \A j \in FoundIn(D) : PairOf(x, y, j) \in ASet(s.results) \/ Behind(s.results, k, MinDistance(x, y, objects[j]))

\* What these are pairs of.
LEMMA PairsThere ==
  ASSUME IInv, NEW x \in Int, NEW y \in Int
  PROVE  /\ \A n \in Nodes : MinDistance(x, y, tree_nodes[n].box) \in Int /\ Far(x, y, n) \in Pairs
         /\ \A j \in DOMAIN objects : MinDistance(x, y, objects[j]) \in Int /\ PairOf(x, y, j) \in Pairs
         /\ \A n \in LeavesOf(tree_nodes) : Kids(tree_nodes, n) \subseteq DOMAIN objects
<1>1. /\ Whole(tree_nodes, objects, root, height, minimum_entry, maximum_entry) /\ Stored(objects)
      /\ \A n \in DOMAIN tree_nodes : tree_nodes[n] \in NodeT
  BY TheTree DEF IInv, TreeOK
<1>2. Nodes \subseteq Nat /\ DOMAIN objects \subseteq Nat
  <2>1. DOMAIN objects = 0..Cardinality(DOMAIN objects) - 1 /\ Cardinality(DOMAIN objects) \in Nat
    BY <1>1, FS_CardinalityType DEF Stored, Numbered
  <2>2. DOMAIN objects \subseteq Nat
    BY <2>1
  <2>3. QED
    BY <1>1, <2>2 DEF Whole, Skeleton, Nodes
<1>3. ASSUME NEW n \in Nodes PROVE MinDistance(x, y, tree_nodes[n].box) \in Int /\ Far(x, y, n) \in Pairs
  <2>1. tree_nodes[n].box \in RectT
    BY <1>1 DEF Nodes, NodeT
  <2>2. MinDistance(x, y, tree_nodes[n].box) \in Int /\ n \in Nat
    BY <1>2, <2>1, DistanceIsInt
  <2>3. QED
    BY <2>2 DEF Far, Pairs
<1>4. ASSUME NEW j \in DOMAIN objects PROVE MinDistance(x, y, objects[j]) \in Int /\ PairOf(x, y, j) \in Pairs
  <2>1. objects[j] \in RectT
    BY <1>1 DEF Stored
  <2>2. MinDistance(x, y, objects[j]) \in Int /\ j \in Nat
    BY <1>2, <2>1, DistanceIsInt
  <2>3. QED
    BY <2>2 DEF PairOf, Pairs
<1>5. \A n \in LeavesOf(tree_nodes) : Kids(tree_nodes, n) \subseteq DOMAIN objects
  BY <1>1 DEF Whole, PlacedIn
<1>6. QED
  BY <1>3, <1>4, <1>5

\* The entries of a leaf, the nearest first.
LEMMA LeafNear ==
  ASSUME IInv, NEW x \in Int, NEW y \in Int, NEW n \in LeavesOf(tree_nodes)
  PROVE  /\ Near(Ordered(Row(x, y, n), Row(x, y, n)))
         /\ ASet(Ordered(Row(x, y, n), Row(x, y, n))) = PairsOf(x, y, Kids(tree_nodes, n))
<1>1. PICK e : e = Entries(n)
  OBVIOUS
<1>2. Ids(e) /\ ASet(e) = Kids(tree_nodes, n)
  BY <1>1, TheTree DEF Entries, Kids, LeavesOf
<1>3. Len(e) \in Nat /\ DOMAIN e = 1..Len(e) /\ \A i, j \in DOMAIN e : e[i] = e[j] => i = j
  BY <1>2, SetOf DEF Ids, Injective
<1>4. PICK r : r = Row(x, y, n)
  OBVIOUS
<1>5. r = [i \in 1..Len(e) |-> PairOf(x, y, e[i])]
  BY <1>1, <1>3, <1>4 DEF Row, PairOf
<1>6. r \in [1..Len(e) -> Pairs]
  <2>1. \A i \in 1..Len(e) : e[i] \in Kids(tree_nodes, n)
    BY <1>2, <1>3 DEF ASet
  <2>2. \A i \in 1..Len(e) : PairOf(x, y, e[i]) \in Pairs
    BY <2>1, PairsThere
  <2>3. QED
    BY <1>5, <2>2
<1>7. Injective(r)
  <2>1. ASSUME NEW i \in 1..Len(e), NEW j \in 1..Len(e), r[i] = r[j] PROVE i = j
    <3>1. PairOf(x, y, e[i]) = PairOf(x, y, e[j])
      BY <1>5, <2>1
    <3>2. e[i] = e[j]
      BY <3>1 DEF PairOf
    <3>3. QED
      BY <1>3, <3>2
  <2>2. DOMAIN r = 1..Len(e)
    BY <1>5
  <2>3. QED
    BY <2>1, <2>2 DEF Injective
<1>8. Near(Ordered(r, r)) /\ ASet(Ordered(r, r)) = ASet(r)
  BY <1>3, <1>6, <1>7, OrderedNear
<1>9. ASet(r) = PairsOf(x, y, Kids(tree_nodes, n))
  <2>1. ASet(r) = {PairOf(x, y, e[i]) : i \in 1..Len(e)}
    BY <1>5 DEF ASet
  <2>2. Kids(tree_nodes, n) = {e[i] : i \in 1..Len(e)}
    BY <1>2, <1>3 DEF ASet
  <2>3. QED
    BY <2>1, <2>2 DEF PairsOf
<1>10. QED
  BY <1>4, <1>8, <1>9

\* How the search begins.
LEMMA SearchBegins ==
  ASSUME IInv, NEW x \in Int, NEW y \in Int, NEW k \in Nat
  PROVE  SearchOK([queue |-> {Far(x, y, root)}, results |-> <<>>], {}, x, y, k)
<1>1. PICK s : s = [queue |-> {Far(x, y, root)}, results |-> <<>>]
  OBVIOUS
<1>2. root \in Nodes
  BY TheTree DEF Nodes
<1>3. s \in SearchT /\ s.queue = {Far(x, y, root)} /\ s.results = <<>>
  <2>1. Far(x, y, root) \in Pairs
    BY <1>2, PairsThere
  <2>2. QED
    BY <1>1, <2>1 DEF SearchT
<1>4. Near(<<>>) /\ Len(<<>>) = 0 /\ ASet(<<>>) = {}
  <2>1. DOMAIN <<>> = {} /\ Len(<<>>) = 0 /\ <<>> \in Seq(Pairs)
    OBVIOUS
  <2>2. QED
    BY <2>1 DEF Near, Rising, Injective, ASet
<1>5. \A n \in Nodes : Below({}, n) <=> n = root
  BY DEF Below
<1>6. \A n \in Nodes : Far(x, y, n) = Far(x, y, root) => n = root
  BY DEF Far
<1>7. FoundIn({}) = {}
  BY DEF FoundIn
<1>8. SearchOK(s, {}, x, y, k)
  <2>1. s.queue \subseteq {Far(x, y, n) : n \in Nodes \ {}}
    BY <1>2, <1>3
  <2>2. Len(s.results) <= k + 1 /\ Near(s.results) /\ ASet(s.results) \subseteq PairsOf(x, y, FoundIn({}))
    BY <1>3, <1>4
  <2>3. \A n \in Nodes : Far(x, y, n) \in s.queue => Below({}, n)
    BY <1>3, <1>5, <1>6
  <2>4. \A n \in Nodes : Below({}, n) => Far(x, y, n) \in s.queue
    BY <1>3, <1>5
  <2>5. QED
    BY <1>3, <1>7, <2>1, <2>2, <2>3, <2>4 DEF SearchOK
<1>9. QED
  BY <1>1, <1>8


\* A node is taken that is in the queue, so it was not taken before: E are the
\* nodes taken then.
TakesNode(s, D, E, x, y, n) ==
  /\ n \notin D /\ Below(D, n)
  /\ E \subseteq Nodes /\ \A m \in E : Below(E, m)
  /\ \A m \in Nodes : Below(D, m) => Below(E, m)
  /\ s.queue \ {Far(x, y, n)} \subseteq {Far(x, y, m) : m \in Nodes \ E}

LEMMA QueuedIs ==
  ASSUME NEW s, NEW D, NEW x, NEW y, NEW k, NEW n, NEW E,
         SearchOK(s, D, x, y, k), n \in Nodes, Far(x, y, n) \in s.queue, E = D \cup {n}
  PROVE  TakesNode(s, D, E, x, y, n)
<1>1. /\ D \subseteq Nodes /\ s.queue \subseteq {Far(x, y, m) : m \in Nodes \ D}
      /\ (\A m \in D : Below(D, m)) /\ Below(D, n)
  BY DEF SearchOK
<1>2. n \notin D
  <2>1. PICK m \in Nodes \ D : Far(x, y, n) = Far(x, y, m)
    BY <1>1
  <2>2. n = m
    BY <2>1 DEF Far
  <2>3. QED
    BY <2>2
<1>3. \A m : Below(D, m) => Below(E, m)
  BY DEF Below
<1>4. s.queue \ {Far(x, y, n)} \subseteq {Far(x, y, m) : m \in Nodes \ E}
  <2>1. ASSUME NEW f \in s.queue, f # Far(x, y, n) PROVE \E m \in Nodes \ E : f = Far(x, y, m)
    <3>1. PICK m \in Nodes \ D : f = Far(x, y, m)
      BY <1>1
    <3>2. m # n
      BY <2>1, <3>1
    <3>3. QED
      BY <3>1, <3>2
  <2>2. QED
    BY <2>1
<1>5. E \subseteq Nodes /\ \A m \in E : Below(E, m)
  <2>1. ASSUME NEW m \in E PROVE m \in Nodes /\ Below(D, m)
    BY <1>1
  <2>2. QED
    BY <1>3, <2>1
<1>6. QED
  BY <1>1, <1>2, <1>3, <1>4, <1>5 DEF TakesNode

\* Better results leave behind what was left behind.
LEMMA BehindStays ==
  ASSUME NEW a, NEW b, NEW out, NEW k \in Nat \ {0}, NEW d \in Int,
         Near(a), NearestOf(out, a, b, k), Behind(a, k, d)
  PROVE  Behind(out, k, d)
<1>1. /\ a \in Seq(Pairs) /\ out \in Seq(Pairs) /\ Len(a) >= k /\ a[k][1] <= d /\ Len(out) >= k
      /\ \A p \in 1..Len(out) : p <= Len(a) => out[p][1] <= a[p][1]
  BY DEF NearestOf, Near, Behind
<1>2. k \in 1..Len(a) /\ k \in 1..Len(out) /\ k <= Len(a)
  BY <1>1
<1>3. a[k] \in Pairs /\ out[k] \in Pairs
  BY <1>1, <1>2
<1>4. a[k][1] \in Int /\ out[k][1] \in Int /\ out[k][1] <= a[k][1]
  BY <1>1, <1>2, <1>3, PairsAre
<1>5. QED
  BY <1>1, <1>4 DEF Behind

\* Taking a leaf.
LEMMA SearchLeaf ==
  ASSUME NEW s, NEW D, NEW x \in Int, NEW y \in Int, NEW k \in Nat \ {0}, NEW n,
         IInv, SearchOK(s, D, x, y, k), n \in Nodes, tree_nodes[n].leaf, Far(x, y, n) \in s.queue
  PROVE  SearchOK([queue |-> s.queue \ {Far(x, y, n)},
                   results |-> TopK(s.results, Ordered(Row(x, y, n), Row(x, y, n)), k)], D \cup {n}, x, y, k)
<1> DEFINE T == tree_nodes
<1>1. /\ s \in SearchT /\ Near(s.results) /\ ASet(s.results) \subseteq PairsOf(x, y, FoundIn(D))
      /\ D \subseteq Nodes
      /\ \A m \in Nodes : Far(x, y, m) \in s.queue => Below(D, m)
      /\ \A m \in Nodes \ D : Below(D, m) =>
             Far(x, y, m) \in s.queue \/ Behind(s.results, k, MinDistance(x, y, T[m].box))
      /\ \A j \in FoundIn(D) : PairOf(x, y, j) \in ASet(s.results) \/ Behind(s.results, k, MinDistance(x, y, objects[j]))
  BY DEF SearchOK
<1>2. n \in LeavesOf(T) /\ T[n].leaf
  BY DEF LeavesOf, Nodes
<1>3. PICK E : E = D \cup {n}
  OBVIOUS
<1>4. /\ n \notin D /\ Below(D, n) /\ E \subseteq Nodes /\ \A m \in E : Below(E, m)
      /\ \A m \in Nodes : Below(D, m) => Below(E, m)
      /\ s.queue \ {Far(x, y, n)} \subseteq {Far(x, y, m) : m \in Nodes \ E}
  <2>1. TakesNode(s, D, E, x, y, n)
    BY <1>3, QueuedIs
  <2>2. QED
    BY <2>1 DEF TakesNode
<1>5. Apart(T) /\ Skeleton(T, root, height)
  BY TheTree DEF Whole
<1>6. PICK t : t = Ordered(Row(x, y, n), Row(x, y, n))
  OBVIOUS
<1>7. Near(t) /\ ASet(t) = PairsOf(x, y, Kids(T, n))
  BY <1>2, <1>6, LeafNear
<1>8. FoundIn(E) = FoundIn(D) \cup Kids(T, n) /\ FoundIn(E) \subseteq DOMAIN objects
  <2>1. E \cap LeavesOf(T) = (D \cap LeavesOf(T)) \cup {n}
    BY <1>2, <1>3
  <2>2. QED
    BY <2>1, PairsThere DEF FoundIn
<1>9. FoundIn(D) \cap Kids(T, n) = {}
  BY <1>2, <1>4, <1>5 DEF FoundIn, Apart
<1>10. ASet(s.results) \cap ASet(t) = {}
  <2>1. \A i, j : PairOf(x, y, i) = PairOf(x, y, j) => i = j
    BY DEF PairOf
  <2>2. QED
    BY <1>1, <1>7, <1>9, <2>1 DEF PairsOf
<1>11. PICK out : out = TopK(s.results, t, k)
  OBVIOUS
<1>12. NearestOf(out, s.results, t, k)
  BY <1>1, <1>7, <1>10, <1>11, TopKIs
<1>13. PICK u : u = [queue |-> s.queue \ {Far(x, y, n)}, results |-> out]
  OBVIOUS
<1>14. u \in SearchT /\ u.queue = s.queue \ {Far(x, y, n)} /\ u.results = out
  <2>1. out \in Seq(Pairs) /\ s.queue \in SUBSET Pairs
    BY <1>1, <1>12 DEF NearestOf, Near, SearchT
  <2>2. QED
    BY <1>13, <2>1 DEF SearchT
<1>15. Near(out) /\ Len(out) <= k + 1 /\ ASet(out) \subseteq PairsOf(x, y, FoundIn(E))
  BY <1>1, <1>7, <1>8, <1>12 DEF NearestOf, PairsOf
<1>16. \A m \in Nodes : Far(x, y, m) \in u.queue => Below(E, m)
  BY <1>1, <1>4, <1>14
<1>17. ASSUME NEW m \in Nodes \ E, Below(E, m)
       PROVE  Far(x, y, m) \in u.queue \/ Behind(out, k, MinDistance(x, y, T[m].box))
  <2>1. Below(D, m)
    <3>1. m # root => T[m].father # n
      BY <1>2, <1>5 DEF Skeleton, Nodes
    <3>2. QED
      BY <1>3, <1>17, <3>1 DEF Below
  <2>2. m \in Nodes \ D /\ Far(x, y, m) # Far(x, y, n)
    BY <1>3 DEF Far
  <2>3. MinDistance(x, y, T[m].box) \in Int
    BY PairsThere
  <2>4. QED
    BY <1>1, <1>12, <1>14, <2>1, <2>2, <2>3, BehindStays
<1>18. ASSUME NEW j \in FoundIn(E) PROVE PairOf(x, y, j) \in ASet(out) \/ Behind(out, k, MinDistance(x, y, objects[j]))
  <2>1. PICK d \in Int : d = MinDistance(x, y, objects[j]) /\ PairOf(x, y, j)[1] = d
    BY <1>8, PairsThere DEF PairOf
  <2>2. CASE PairOf(x, y, j) \in ASet(s.results) \cup ASet(t)
    <3>1. SUFFICES ASSUME PairOf(x, y, j) \notin ASet(out) PROVE Behind(out, k, d)
      BY <2>1
    <3>2. /\ Len(out) >= k /\ \A p \in 1..Len(out) : out[p][1] <= PairOf(x, y, j)[1]
      BY <1>12, <2>2, <3>1 DEF NearestOf
    <3>3. k \in 1..Len(out)
      <4>1. Len(out) \in Nat
        BY <1>15 DEF Near
      <4>2. QED
        BY <3>2, <4>1
    <3>4. QED
      BY <2>1, <3>2, <3>3 DEF Behind
  <2>3. CASE PairOf(x, y, j) \notin ASet(s.results) \cup ASet(t)
    <3>1. j \in FoundIn(D)
      BY <1>7, <1>8, <2>3 DEF PairsOf
    <3>2. Behind(s.results, k, d)
      BY <1>1, <2>1, <2>3, <3>1
    <3>3. Behind(out, k, d)
      BY <1>1, <1>12, <3>2, BehindStays
    <3>4. QED
      BY <2>1, <3>3
  <2>4. QED
    BY <2>2, <2>3
<1>19. SearchOK(u, E, x, y, k)
  BY <1>4, <1>14, <1>15, <1>16, <1>17, <1>18 DEF SearchOK
<1>20. QED
  BY <1>3, <1>6, <1>11, <1>13, <1>19

\* Taking an inner node, and queueing the children that are near enough.
LEMMA SearchInner ==
  ASSUME NEW s, NEW D, NEW x \in Int, NEW y \in Int, NEW k \in Nat \ {0}, NEW n, NEW Q,
         IInv, SearchOK(s, D, x, y, k), n \in Nodes, ~tree_nodes[n].leaf, Far(x, y, n) \in s.queue,
         Q = {f \in {Far(x, y, m) : m \in ASet(Entries(n))} : Len(s.results) >= k => f[1] < s.results[k][1]}
  PROVE  SearchOK([s EXCEPT !.queue = (s.queue \ {Far(x, y, n)}) \cup Q], D \cup {n}, x, y, k)
<1> DEFINE T == tree_nodes
<1>1. /\ s \in SearchT /\ Near(s.results) /\ Len(s.results) <= k + 1
      /\ ASet(s.results) \subseteq PairsOf(x, y, FoundIn(D))
      /\ D \subseteq Nodes /\ \A m \in D : Below(D, m)
      /\ \A m \in Nodes : Far(x, y, m) \in s.queue => Below(D, m)
      /\ \A m \in Nodes \ D : Below(D, m) =>
             Far(x, y, m) \in s.queue \/ Behind(s.results, k, MinDistance(x, y, T[m].box))
      /\ \A j \in FoundIn(D) : PairOf(x, y, j) \in ASet(s.results) \/ Behind(s.results, k, MinDistance(x, y, objects[j]))
  BY DEF SearchOK
<1>2. PICK E : E = D \cup {n}
  OBVIOUS
<1>3. /\ n \notin D /\ Below(D, n) /\ E \subseteq Nodes /\ \A m \in E : Below(E, m)
      /\ \A m \in Nodes : Below(D, m) => Below(E, m)
      /\ s.queue \ {Far(x, y, n)} \subseteq {Far(x, y, m) : m \in Nodes \ E}
  <2>1. TakesNode(s, D, E, x, y, n)
    BY <1>2, QueuedIs
  <2>2. QED
    BY <2>1 DEF TakesNode
<1>4. Skeleton(T, root, height)
  BY TheTree DEF Whole
<1>5. ASSUME NEW m \in Kids(T, n) PROVE m \in Nodes \ E /\ Below(E, m) /\ m # root
  <2>1. m \in Nodes /\ T[m].father = n /\ n \in Nat /\ T[root].father = -1
    BY <1>4 DEF Skeleton, Nodes
  <2>2. m # root
    BY <2>1
  <2>3. m \notin D
    BY <1>1, <1>3, <2>1, <2>2 DEF Below
  <2>4. m # n
    BY <1>3, <2>1, <2>2 DEF Below
  <2>5. QED
    BY <1>2, <2>1, <2>2, <2>3, <2>4 DEF Below
<1>6. FoundIn(E) = FoundIn(D)
  <2>1. E \cap LeavesOf(T) = D \cap LeavesOf(T)
    BY <1>2 DEF LeavesOf
  <2>2. QED
    BY <2>1 DEF FoundIn
<1>7. Q = {f \in {Far(x, y, m) : m \in Kids(T, n)} : Len(s.results) >= k => f[1] < s.results[k][1]}
  BY DEF Entries, Kids
<1>8. Q \subseteq {Far(x, y, m) : m \in Nodes \ E} /\ Q \in SUBSET Pairs
  <2>1. Q \subseteq {Far(x, y, m) : m \in Kids(T, n)}
    BY <1>7
  <2>2. \A m \in Kids(T, n) : m \in Nodes \ E /\ Far(x, y, m) \in Pairs
    BY <1>5, PairsThere
  <2>3. QED
    BY <2>1, <2>2
<1>9. PICK u : u = [s EXCEPT !.queue = (s.queue \ {Far(x, y, n)}) \cup Q]
  OBVIOUS
<1>10. u \in SearchT /\ u.queue = (s.queue \ {Far(x, y, n)}) \cup Q /\ u.results = s.results
  BY <1>1, <1>8, <1>9 DEF SearchT
<1>11. ASSUME NEW m \in Nodes, Far(x, y, m) \in u.queue PROVE Below(E, m)
  <2>1. CASE Far(x, y, m) \in s.queue
    BY <1>1, <1>3, <2>1
  <2>2. CASE Far(x, y, m) \in Q
    <3>1. Q \subseteq {Far(x, y, c) : c \in Kids(T, n)}
      BY <1>7
    <3>2. PICK c \in Kids(T, n) : Far(x, y, m) = Far(x, y, c)
      BY <2>2, <3>1
    <3>3. m = c
      BY <3>2 DEF Far
    <3>4. QED
      BY <1>5, <3>3
  <2>3. QED
    BY <1>10, <1>11, <2>1, <2>2
<1>12. ASSUME NEW m \in Nodes \ E, Below(E, m)
       PROVE  Far(x, y, m) \in u.queue \/ Behind(s.results, k, MinDistance(x, y, T[m].box))
  <2>1. m \in Nodes \ D /\ Far(x, y, m) # Far(x, y, n)
    BY <1>2 DEF Far
  <2>2. CASE Below(D, m)
    BY <1>1, <1>10, <2>1, <2>2
  <2>3. CASE ~Below(D, m)
    <3>1. m # root /\ T[m].father = n
      BY <1>2, <1>12, <2>3 DEF Below
    <3>2. m \in Kids(T, n)
      BY <1>4, <3>1 DEF Skeleton, Nodes
    <3>3. Far(x, y, m)[1] = MinDistance(x, y, T[m].box) /\ MinDistance(x, y, T[m].box) \in Int
      BY PairsThere DEF Far
    <3>4. CASE Far(x, y, m) \in Q
      BY <1>10, <3>4
    <3>5. CASE Far(x, y, m) \notin Q
      <4>1. Len(s.results) >= k /\ ~(Far(x, y, m)[1] < s.results[k][1])
        BY <1>7, <3>2, <3>5
      <4>2. s.results[k][1] \in Int
        <5>1. s.results \in Seq(Pairs) /\ k \in 1..Len(s.results)
          BY <1>1, <4>1 DEF Near
        <5>2. s.results[k] \in Pairs
          BY <5>1
        <5>3. QED
          BY <5>2, PairsAre
      <4>3. s.results[k][1] <= MinDistance(x, y, T[m].box)
        BY <3>3, <4>1, <4>2
      <4>4. QED
        BY <4>1, <4>3 DEF Behind
    <3>6. QED
      BY <3>4, <3>5
  <2>4. QED
    BY <2>2, <2>3
<1>13. u.queue \subseteq {Far(x, y, m) : m \in Nodes \ E}
  BY <1>3, <1>8, <1>10
<1>14. SearchOK(u, E, x, y, k)
  BY <1>1, <1>3, <1>6, <1>10, <1>11, <1>12, <1>13 DEF SearchOK
<1>15. QED
  BY <1>2, <1>9, <1>14


\* What is still in the queue may be dropped if it is too far.
LEMMA SearchStops ==
  ASSUME NEW s, NEW D, NEW x \in Int, NEW y \in Int, NEW k \in Nat \ {0},
         SearchOK(s, D, x, y, k), \A f \in s.queue : Behind(s.results, k, f[1])
  PROVE  SearchOK([s EXCEPT !.queue = {}], D, x, y, k)
<1>1. PICK u : u = [s EXCEPT !.queue = {}]
  OBVIOUS
<1>2. u \in SearchT /\ u.queue = {} /\ u.results = s.results
  BY <1>1 DEF SearchOK, SearchT
<1>3. ASSUME NEW n \in Nodes \ D, Below(D, n) PROVE Behind(s.results, k, MinDistance(x, y, tree_nodes[n].box))
  <2>1. CASE Far(x, y, n) \in s.queue
    <3>1. Behind(s.results, k, Far(x, y, n)[1])
      BY <2>1
    <3>2. QED
      BY <3>1 DEF Far
  <2>2. CASE Far(x, y, n) \notin s.queue
    BY <1>3, <2>2 DEF SearchOK
  <2>3. QED
    BY <2>1, <2>2
<1>4. SearchOK(u, D, x, y, k)
  BY <1>2, <1>3 DEF SearchOK
<1>5. QED
  BY <1>1, <1>4

\* One turn of the loop takes a node, or ends the search.
LEMMA SearchStepIs ==
  ASSUME NEW s, NEW D, NEW x \in Int, NEW y \in Int, NEW k \in Nat \ {0}, IInv, SearchOK(s, D, x, y, k)
  PROVE  \/ SearchOK(SearchStep(x, y, k, s), D, x, y, k) /\ SearchStep(x, y, k, s).queue = {}
         \/ \E n \in Nodes \ D : SearchOK(SearchStep(x, y, k, s), D \cup {n}, x, y, k)
<1>1. s \in SearchT /\ s.queue \subseteq {Far(x, y, n) : n \in Nodes \ D} /\ s.queue \subseteq Pairs /\ Near(s.results)
  BY DEF SearchOK, SearchT
<1>2. PICK top : top = Least(s.queue)
  OBVIOUS
<1>3. PICK full : full = (Len(s.results) >= k)
  OBVIOUS
<1>4. s.queue # {} => top \in s.queue /\ \A w \in s.queue : top = w \/ Less(top, w)
  <2>1. IsFiniteSet(s.queue)
    <3>1. PICK F : F = [n \in Nodes |-> Far(x, y, n)]
      OBVIOUS
    <3>2. IsFiniteSet(Nodes)
      BY TheTree DEF Whole, Typed, Numbered, Nodes
    <3>3. IsFiniteSet({F[n] : n \in Nodes})
      BY <3>2, FiniteImage
    <3>4. s.queue \subseteq {F[n] : n \in Nodes}
      BY <1>1, <3>1
    <3>5. QED
      BY <3>3, <3>4, FS_Subset
  <2>2. s.queue \subseteq Tuples(2)
    BY <1>1, PairsAre
  <2>3. QED
    BY <1>2, <2>1, <2>2, LeastOf
<1>5. s.queue # {} => \A w \in s.queue : top[1] \in Int /\ w[1] \in Int /\ top[1] <= w[1]
  BY <1>1, <1>4, PairsAre
<1>6. CASE s.queue = {} \/ (full /\ top[1] > s.results[k][1])
  <2>1. SearchStep(x, y, k, s) = [s EXCEPT !.queue = {}]
    BY <1>2, <1>3, <1>6 DEF SearchStep
  <2>2. ASSUME NEW f \in s.queue PROVE Behind(s.results, k, f[1])
    <3>1. Len(s.results) >= k /\ top[1] > s.results[k][1]
      BY <1>3, <1>6, <2>2
    <3>2. s.results[k][1] \in Int
      <4>1. s.results \in Seq(Pairs) /\ k \in 1..Len(s.results)
        BY <1>1, <3>1 DEF Near
      <4>2. s.results[k] \in Pairs
        BY <4>1
      <4>3. QED
        BY <4>2, PairsAre
    <3>3. top[1] \in Int /\ f[1] \in Int /\ top[1] <= f[1]
      BY <1>5
    <3>4. QED
      BY <3>1, <3>2, <3>3 DEF Behind
  <2>3. SearchOK([s EXCEPT !.queue = {}], D, x, y, k)
    BY <2>2, SearchStops
  <2>4. [s EXCEPT !.queue = {}].queue = {}
    BY <1>1 DEF SearchT
  <2>5. QED
    BY <2>1, <2>3, <2>4
<1>7. CASE ~(s.queue = {} \/ (full /\ top[1] > s.results[k][1]))
  <2>1. top \in s.queue
    BY <1>4, <1>7
  <2>2. PICK n \in Nodes \ D : top = Far(x, y, n)
    BY <1>1, <2>1
  <2>3. top[2] = n /\ Far(x, y, n) \in s.queue
    BY <2>1, <2>2 DEF Far
  <2>4. CASE tree_nodes[n].leaf
    <3>1. SearchStep(x, y, k, s) = [queue |-> s.queue \ {Far(x, y, n)},
                   results |-> TopK(s.results, Ordered(Row(x, y, n), Row(x, y, n)), k)]
      BY <1>2, <1>3, <1>7, <2>2, <2>3, <2>4 DEF SearchStep
    <3>2. SearchOK([queue |-> s.queue \ {Far(x, y, n)},
                   results |-> TopK(s.results, Ordered(Row(x, y, n), Row(x, y, n)), k)], D \cup {n}, x, y, k)
      BY <2>3, <2>4, SearchLeaf
    <3>3. QED
      BY <3>1, <3>2
  <2>5. CASE ~tree_nodes[n].leaf
    <3>1. PICK Q : Q = {f \in {Far(x, y, m) : m \in ASet(Entries(n))} : Len(s.results) >= k => f[1] < s.results[k][1]}
      OBVIOUS
    <3>2. SearchStep(x, y, k, s) = [s EXCEPT !.queue = (s.queue \ {Far(x, y, n)}) \cup Q]
      BY <1>2, <1>3, <1>7, <2>2, <2>3, <2>5, <3>1 DEF SearchStep
    <3>3. SearchOK([s EXCEPT !.queue = (s.queue \ {Far(x, y, n)}) \cup Q], D \cup {n}, x, y, k)
      BY <2>3, <2>5, <3>1, SearchInner
    <3>4. QED
      BY <3>2, <3>3
  <2>6. QED
    BY <2>4, <2>5
<1>8. QED
  BY <1>6, <1>7

\* After t turns t nodes are taken, unless the search has ended.
SearchAt(s, t, x, y, k) ==
  \E D \in SUBSET Nodes : SearchOK(s, D, x, y, k) /\ (s.queue = {} \/ Cardinality(D) = t)

LEMMA SearchTurns ==
  ASSUME NEW s, NEW t \in Nat, NEW x \in Int, NEW y \in Int, NEW k \in Nat \ {0}, IInv, SearchAt(s, t, x, y, k)
  PROVE  SearchAt(SearchStep(x, y, k, s), t + 1, x, y, k)
<1>1. PICK D \in SUBSET Nodes : SearchOK(s, D, x, y, k) /\ (s.queue = {} \/ Cardinality(D) = t)
  BY DEF SearchAt
<1>2. PICK u : u = SearchStep(x, y, k, s)
  OBVIOUS
<1>3. CASE s.queue = {}
  <2>1. u = [s EXCEPT !.queue = {}]
    BY <1>2, <1>3 DEF SearchStep
  <2>2. u = s
    BY <1>1, <1>3, <2>1 DEF SearchOK, SearchT
  <2>3. QED
    BY <1>1, <1>2, <1>3, <2>2 DEF SearchAt
<1>4. CASE s.queue # {}
  <2>1. \/ SearchOK(u, D, x, y, k) /\ u.queue = {}
        \/ \E n \in Nodes \ D : SearchOK(u, D \cup {n}, x, y, k)
    BY <1>1, <1>2, SearchStepIs
  <2>2. ASSUME NEW n \in Nodes \ D, SearchOK(u, D \cup {n}, x, y, k) PROVE SearchAt(u, t + 1, x, y, k)
    <3>1. IsFiniteSet(D)
      <4>1. IsFiniteSet(Nodes)
        BY TheTree DEF Whole, Typed, Numbered, Nodes
      <4>2. QED
        BY <4>1, FS_Subset
    <3>2. Cardinality(D \cup {n}) = t + 1
      BY <1>1, <1>4, <3>1, FS_AddElement
    <3>3. D \cup {n} \in SUBSET Nodes
      OBVIOUS
    <3>4. QED
      BY <2>2, <3>2, <3>3 DEF SearchAt
  <2>3. QED
    BY <1>2, <2>1, <2>2 DEF SearchAt
<1>5. QED
  BY <1>3, <1>4

\* So after as many turns as there are nodes the queue is empty.
LEMMA SearchEnds ==
  ASSUME NEW x \in Int, NEW y \in Int, NEW k \in Nat \ {0}, IInv
  PROVE  \E s, D : SearchOK(s, D, x, y, k) /\ s.queue = {} /\ KNNQuery(x, y, k) = s.results
<1> DEFINE N == NodeCount
           first == [queue |-> {Far(x, y, root)}, results |-> <<>>]
           E(f, t) == IF t = 0 THEN first ELSE SearchStep(x, y, k, f[t - 1])
           g == CHOOSE after : after = [t \in 0..N |-> E(after, t)]
           V == {s \in SearchT : \E t \in Nat : SearchAt(s, t, x, y, k)}
<1>1. IsFiniteSet(Nodes) /\ N = Cardinality(Nodes) /\ N \in Nat
  <2>1. IsFiniteSet(Nodes)
    BY TheTree DEF Whole, Typed, Numbered, Nodes
  <2>2. QED
    BY <2>1, FS_CardinalityType DEF NodeCount, Nodes
<1>2. KNNQuery(x, y, k) = g[N].results
  BY Zenon DEF KNNQuery, SearchStep, Far, Row
<1> HIDE DEF N
<1>3. SearchAt(first, 0, x, y, k)
  <2>1. SearchOK(first, {}, x, y, k)
    BY SearchBegins
  <2>2. Cardinality({}) = 0 /\ {} \in SUBSET Nodes
    BY FS_EmptySet
  <2> HIDE DEF first
  <2>3. QED
    BY <2>1, <2>2 DEF SearchAt
<1>4. \A s, t : t \in Nat /\ SearchAt(s, t, x, y, k) => s \in V
  BY DEF SearchAt, SearchOK
<1>5. first \in V
  BY <1>3, <1>4
<1>6. ASSUME NEW s \in V PROVE SearchStep(x, y, k, s) \in V
  <2>1. PICK t \in Nat : SearchAt(s, t, x, y, k)
    OBVIOUS
  <2>2. SearchAt(SearchStep(x, y, k, s), t + 1, x, y, k) /\ t + 1 \in Nat
    BY <2>1, SearchTurns
  <2>3. QED
    BY <1>4, <2>2
<1> HIDE DEF V, first
<1>7. PICK G : G = [p \in (1..N) \X V |-> SearchStep(x, y, k, p[2])]
  OBVIOUS
<1>8. /\ G \in [(1..N) \X V -> V]
      /\ \A t \in 1..N : \A s \in V : G[<<t, s>>] = SearchStep(x, y, k, s)
  <2>1. \A p \in (1..N) \X V : p[2] \in V /\ SearchStep(x, y, k, p[2]) \in V
    BY <1>6
  <2>2. QED
    BY <1>7, <2>1
<1>9. PICK f \in [0..N -> V] : f[0] = first /\ \A t \in 1..N : f[t] = G[<<t, f[t - 1]>>]
  <2>1. LoopRuns(N, V, first, G)
    BY <1>1, <1>5, <1>8, Loop
  <2>2. QED
    BY <2>1 DEF LoopRuns
<1>10. f = [t \in 0..N |-> E(f, t)]
  <2>1. ASSUME NEW t \in 0..N PROVE f[t] = E(f, t)
    <3>1. CASE t = 0
      BY <1>9, <3>1
    <3>2. CASE t # 0
      <4>1. t \in 1..N /\ t - 1 \in 0..N
        BY <1>1, <3>2
      <4>2. f[t - 1] \in V
        BY <4>1
      <4>3. QED
        BY <1>8, <1>9, <3>2, <4>1, <4>2
    <3>3. QED
      BY <3>1, <3>2
  <2> HIDE DEF E
  <2>2. QED
    BY <2>1
<1>11. g = [t \in 0..N |-> E(g, t)]
  <2> HIDE DEF E
  <2>1. QED
    BY Zenon, <1>10
<1> HIDE DEF g
<1>12. \A t \in 0..N : g[t] = E(g, t)
  <2> HIDE DEF E
  <2>1. QED
    BY <1>11
<1>13. g[0] = first /\ \A t \in 1..N : g[t] = SearchStep(x, y, k, g[t - 1])
  <2>1. 0 \in 0..N /\ \A t \in 1..N : t \in 0..N /\ t # 0
    BY <1>1
  <2>2. QED
    BY <1>12, <2>1
<1>14. ASSUME NEW t \in 1..N, SearchAt(g[t - 1], t - 1, x, y, k) PROVE SearchAt(g[t], t, x, y, k)
  <2>1. t - 1 \in Nat /\ (t - 1) + 1 = t
    BY <1>1
  <2>2. SearchAt(SearchStep(x, y, k, g[t - 1]), (t - 1) + 1, x, y, k)
    BY <1>14, <2>1, SearchTurns
  <2>3. QED
    BY <1>13, <2>1, <2>2
<1>15. SearchAt(g[N], N, x, y, k)
  <2>1. PICK S : S = {t \in 1..N : SearchAt(g[t], t, x, y, k)}
    OBVIOUS
  <2>2. SearchAt(g[0], 0, x, y, k)
    BY <1>3, <1>13
  <2>3. 1 \in S \/ N = 0
    <3>1. SUFFICES ASSUME N # 0 PROVE 1 \in S
      OBVIOUS
    <3>2. 1 \in 1..N /\ 1 - 1 = 0
      BY <1>1, <3>1
    <3>3. QED
      BY <1>14, <2>1, <2>2, <3>2
  <2>4. ASSUME NEW t \in 2..N, t - 1 \in S PROVE t \in S
    <3>1. t \in 1..N /\ SearchAt(g[t - 1], t - 1, x, y, k)
      BY <1>1, <2>1, <2>4
    <3>2. QED
      BY <1>14, <2>1, <3>1
  <2>5. 1..N \subseteq S
    BY <1>1, <2>3, <2>4, StepsReach
  <2>6. CASE N = 0
    BY <2>2, <2>6
  <2>7. CASE N # 0
    <3>1. N \in 1..N
      BY <1>1, <2>7
    <3>2. QED
      BY <2>1, <2>5, <3>1
  <2>8. QED
    BY <2>6, <2>7
<1>16. PICK D \in SUBSET Nodes : SearchOK(g[N], D, x, y, k) /\ (g[N].queue = {} \/ Cardinality(D) = N)
  BY <1>15 DEF SearchAt
<1>17. g[N].queue = {}
  <2>1. CASE Cardinality(D) = N
    <3>1. D = Nodes
      BY <1>1, <2>1, FS_Subset
    <3>2. g[N].queue \subseteq {Far(x, y, n) : n \in Nodes \ D}
      BY <1>16 DEF SearchOK
    <3>3. QED
      BY <3>1, <3>2
  <2>2. QED
    BY <1>16, <2>1
<1>18. QED
  BY <1>2, <1>16, <1>17


\* When it is, whatever was not taken is in a box that is too far.
LEMMA NotTaken ==
  ASSUME NEW s, NEW D, NEW x \in Int, NEW y \in Int, NEW k \in Nat \ {0}, NEW n,
         IInv, NowTight, SearchOK(s, D, x, y, k), s.queue = {}, n \in Nodes \ D
  PROVE  \E b \in RectT : Contains(b, tree_nodes[n].box) /\ Behind(s.results, k, MinDistance(x, y, b))
<1> DEFINE T == tree_nodes
           Shut(m) == \E b \in RectT : Contains(b, T[m].box) /\ Behind(s.results, k, MinDistance(x, y, b))
<1>1. PICK lev : Levels(T, root, height, lev)
  BY TheTree DEF Whole, Skeleton
<1>2. /\ Skeleton(T, root, height) /\ \A m \in Nodes : T[m].box \in RectT
      /\ lev \in [Nodes -> 1..height] /\ height \in Nat
  BY <1>1, TheTree DEF Whole, Skeleton, Levels, Nodes, NodeT
<1>3. ASSUME NEW m \in Nodes \ D, Below(D, m) PROVE Shut(m)
  <2>1. Behind(s.results, k, MinDistance(x, y, T[m].box))
    BY <1>3 DEF SearchOK
  <2>2. PICK b \in RectT : b = T[m].box
    BY <1>2
  <2>3. Contains(b, b)
    BY <2>2, RectFields DEF Contains
  <2>4. QED
    BY <2>1, <2>2, <2>3
<1>4. ASSUME NEW m \in Nodes \ D, ~Below(D, m)
      PROVE  /\ T[m].father \in Nodes \ D /\ lev[T[m].father] = lev[m] + 1
             /\ Shut(T[m].father) => Shut(m)
  <2>1. m # root /\ T[m].father \notin D
    BY <1>4 DEF Below
  <2>2. PICK f \in Nodes : f = T[m].father /\ ~T[f].leaf /\ m \in Kids(T, f)
    BY <1>2, <2>1 DEF Skeleton, Nodes
  <2>3. lev[m] = lev[f] - 1 /\ lev[m] \in Int /\ lev[f] \in Int
    BY <1>1, <1>2, <2>2 DEF Levels, Nodes
  <2>4. T[m].box \in Held(T, objects, f)
    BY <2>2 DEF Held
  <2>5. Contains(T[f].box, T[m].box)
    BY <2>2, <2>4, BoxAbove DEF Nodes
  <2>6. ASSUME Shut(f) PROVE Shut(m)
    <3>1. PICK b \in RectT : Contains(b, T[f].box) /\ Behind(s.results, k, MinDistance(x, y, b))
      BY <2>6
    <3>2. PICK c \in RectT, d \in RectT : c = T[f].box /\ d = T[m].box
      BY <1>2
    <3>3. Contains(b, d)
      BY <2>5, <3>1, <3>2, RectFields DEF Contains
    <3>4. QED
      BY <3>1, <3>2, <3>3
  <2> HIDE DEF Shut
  <2>7. QED
    BY <2>1, <2>2, <2>3, <2>6
<1> HIDE DEF Shut
<1>5. PICK S : S = {h \in 1..height : \A m \in Nodes \ D : lev[m] = height - h + 1 => Shut(m)}
  OBVIOUS
<1>6. 1 \in S \/ height = 0
  <2>1. SUFFICES ASSUME height # 0 PROVE 1 \in S
    OBVIOUS
  <2>2. 1 \in 1..height /\ height - 1 + 1 = height
    BY <1>2, <2>1
  <2>3. ASSUME NEW m \in Nodes \ D, lev[m] = height PROVE Shut(m)
    <3>1. ASSUME ~Below(D, m) PROVE FALSE
      <4>1. T[m].father \in Nodes /\ lev[T[m].father] = height + 1
        BY <1>4, <2>3, <3>1
      <4>2. PICK c \in 1..height : c = height + 1
        BY <1>2, <4>1
      <4>3. QED
        BY <1>2, <4>2
    <3>2. QED
      BY <1>3, <3>1
  <2>4. QED
    BY <1>5, <2>2, <2>3
<1>7. ASSUME NEW h \in 2..height, h - 1 \in S PROVE h \in S
  <2>1. ASSUME NEW m \in Nodes \ D, lev[m] = height - h + 1 PROVE Shut(m)
    <3>1. CASE Below(D, m)
      BY <1>3, <3>1
    <3>2. CASE ~Below(D, m)
      <4>1. PICK f \in Nodes \ D : f = T[m].father /\ lev[f] = lev[m] + 1 /\ (Shut(f) => Shut(m))
        BY <1>4, <3>2
      <4>2. lev[f] = height - (h - 1) + 1
        BY <1>2, <2>1, <4>1
      <4>3. QED
        BY <1>5, <1>7, <4>1, <4>2
    <3>3. QED
      BY <3>1, <3>2
  <2>2. h \in 1..height
    BY <1>2
  <2>3. QED
    BY <1>5, <2>1, <2>2
<1>8. 1..height \subseteq S
  BY <1>2, <1>6, <1>7, StepsReach
<1>9. Shut(n)
  <2>1. lev[n] \in 1..height
    BY <1>2
  <2>2. PICK h : h = height - lev[n] + 1
    OBVIOUS
  <2>3. h \in 1..height /\ lev[n] = height - h + 1
    BY <1>2, <2>1, <2>2
  <2>4. QED
    BY <1>5, <1>8, <2>3
<1>10. QED
  BY <1>9 DEF Shut

\* And so is every object in a leaf that is not among the results.
LEMMA NotFound ==
  ASSUME NEW s, NEW D, NEW x \in Int, NEW y \in Int, NEW k \in Nat \ {0}, NEW j \in Placed,
         IInv, NowTight, Inside(objects), SearchOK(s, D, x, y, k), s.queue = {}, PairOf(x, y, j) \notin ASet(s.results)
  PROVE  Behind(s.results, k, MinDistance(x, y, objects[j]))
<1> DEFINE T == tree_nodes
<1>1. PICK n \in Leaves : j \in Kids(T, n)
  BY DEF Placed, Entries, Kids
<1>2. n \in Nodes /\ n \in LeavesOf(T) /\ T[n].leaf
  BY DEF Leaves, LeavesOf, Nodes
<1>3. CASE n \in D
  <2>1. j \in FoundIn(D)
    BY <1>1, <1>2, <1>3 DEF FoundIn
  <2>2. QED
    BY <2>1 DEF SearchOK
<1>4. CASE n \notin D
  <2>1. PICK b \in RectT : Contains(b, T[n].box) /\ Behind(s.results, k, MinDistance(x, y, b))
    BY <1>2, <1>4, NotTaken
  <2>2. PICK o : o = objects[j]
    OBVIOUS
  <2>3. o \in Held(T, objects, n)
    BY <1>1, <1>2, <2>2 DEF Held
  <2>4. Contains(T[n].box, o) /\ T[n].box \in RectT /\ o \in RectT
    BY <1>2, <2>3, BoxAbove DEF Nodes
  <2>5. Upright(o)
    BY <1>1, <1>2, <2>2, PairsThere DEF Inside
  <2>6. Contains(b, o)
    <3>1. PICK c \in RectT : c = T[n].box
      BY <2>4
    <3>2. QED
      BY <2>1, <2>4, <3>1, RectFields DEF Contains
  <2>7. MinDistance(x, y, b) <= MinDistance(x, y, o) /\ MinDistance(x, y, b) \in Int /\ MinDistance(x, y, o) \in Int
    BY <2>4, <2>5, <2>6, BoxIsNearer, DistanceIsInt
  <2>8. Len(s.results) >= k /\ s.results[k][1] <= MinDistance(x, y, b)
    BY <2>1 DEF Behind
  <2>9. s.results[k][1] \in Int
    <3>1. s.results \in Seq(Pairs) /\ k \in 1..Len(s.results)
      BY <2>8 DEF SearchOK, Near
    <3>2. s.results[k] \in Pairs
      BY <3>1
    <3>3. QED
      BY <3>2, PairsAre
  <2>10. s.results[k][1] <= MinDistance(x, y, o)
    BY <2>7, <2>8, <2>9
  <2>11. QED
    BY <2>2, <2>8, <2>10 DEF Behind
<1>5. QED
  BY <1>3, <1>4

\* What KNNNearest says of one point and one k.
NearestAt(x, y, k) ==
  LET found == KNNQuery(x, y, k)
      ids == {found[i][2] : i \in DOMAIN found}
  IN  /\ ids \subseteq Placed /\ Cardinality(ids) = Len(found)
      /\ Len(found) >= Lower(k, Cardinality(Placed)) /\ Len(found) <= k + 1
      /\ \A i \in DOMAIN found : i <= k => \A j \in Placed \ ids :
             MinDistance(x, y, objects[j]) >= found[i][1]

LEMMA NearestFollows ==
  ASSUME NEW x \in Int, NEW y \in Int, NEW k \in Nat \ {0}, IInv, NowTight, Inside(objects)
  PROVE  NearestAt(x, y, k)
<1>1. PICK s, D : SearchOK(s, D, x, y, k) /\ s.queue = {} /\ KNNQuery(x, y, k) = s.results
  BY SearchEnds
<1>2. PICK found : found = KNNQuery(x, y, k)
  OBVIOUS
<1>3. PICK ids : ids = {found[i][2] : i \in DOMAIN found}
  OBVIOUS
<1>4. /\ found = s.results /\ found \in Seq(Pairs) /\ Rising(found) /\ Injective(found)
      /\ Len(found) <= k + 1 /\ ASet(found) \subseteq PairsOf(x, y, FoundIn(D))
      /\ Len(found) \in Nat /\ DOMAIN found = 1..Len(found)
  BY <1>1, <1>2, LenProperties DEF SearchOK, Near
<1>5. FoundIn(D) \subseteq Placed /\ Placed \subseteq DOMAIN objects
  <2>1. Leaves = LeavesOf(tree_nodes)
    BY DEF Leaves, LeavesOf, Nodes
  <2>2. Placed = UNION {Kids(tree_nodes, n) : n \in LeavesOf(tree_nodes)}
    BY <2>1 DEF Placed, Entries, Kids
  <2>3. QED
    BY <2>2, PairsThere DEF FoundIn
<1>6. ASSUME NEW i \in 1..Len(found) PROVE found[i] = PairOf(x, y, found[i][2]) /\ found[i][2] \in FoundIn(D)
  <2>1. found[i] \in ASet(found)
    BY <1>4 DEF ASet
  <2>2. PICK j \in FoundIn(D) : found[i] = PairOf(x, y, j)
    BY <1>4, <2>1 DEF PairsOf
  <2>3. found[i][2] = j
    BY <2>2 DEF PairOf
  <2>4. QED
    BY <2>2, <2>3
<1>7. ids \subseteq Placed
  BY <1>3, <1>4, <1>5, <1>6
<1>8. Cardinality(ids) = Len(found)
  <2>1. PICK e : e = [i \in 1..Len(found) |-> found[i][2]]
    OBVIOUS
  <2>2. \A i \in 1..Len(found) : found[i][2] \in Nat
    BY <1>4, PairsAre
  <2>3. e \in Seq(Nat) /\ Len(e) = Len(found) /\ DOMAIN e = 1..Len(found)
    BY <1>4, <2>1, <2>2
  <2>4. Injective(e)
    <3>1. ASSUME NEW i \in 1..Len(found), NEW j \in 1..Len(found), e[i] = e[j] PROVE i = j
      <4>1. found[i][2] = found[j][2]
        BY <2>1, <3>1
      <4>2. found[i] = found[j]
        BY <1>6, <4>1
      <4>3. QED
        BY <1>4, <4>2 DEF Injective
    <3>2. QED
      BY <2>3, <3>1 DEF Injective
  <2>5. Cardinality(ASet(e)) = Len(e)
    BY <2>3, <2>4, RowCounts DEF Ids
  <2>6. ASet(e) = ids
    BY <1>3, <1>4, <2>1, <2>3 DEF ASet
  <2>7. QED
    BY <2>3, <2>5, <2>6
<1>9. ASSUME NEW j \in Placed \ ids PROVE Behind(found, k, MinDistance(x, y, objects[j]))
  <2>1. PairOf(x, y, j) \notin ASet(found)
    <3>1. ASSUME NEW i \in 1..Len(found), found[i] = PairOf(x, y, j) PROVE FALSE
      <4>1. found[i][2] = j
        BY <3>1 DEF PairOf
      <4>2. QED
        BY <1>3, <1>4, <4>1
    <3>2. QED
      BY <1>4, <3>1 DEF ASet
  <2>2. QED
    BY <1>1, <1>4, <2>1, NotFound
<1>10. Len(found) >= Lower(k, Cardinality(Placed))
  <2>1. CASE Placed \subseteq ids
    <3>1. Placed = ids
      BY <1>7, <2>1
    <3>2. QED
      BY <1>4, <1>8, <3>1 DEF Lower
  <2>2. CASE ~(Placed \subseteq ids)
    <3>1. PICK j \in Placed \ ids : TRUE
      BY <2>2
    <3>2. Len(found) >= k
      BY <1>9, <3>1 DEF Behind
    <3>3. Cardinality(Placed) \in Nat
      <4>1. IsFiniteSet(DOMAIN objects)
        BY DEF IInv, TreeOK, Stored, Numbered
      <4>2. QED
        BY <1>5, <4>1, FS_Subset, FS_CardinalityType
    <3>4. QED
      BY <1>4, <3>2, <3>3 DEF Lower
  <2>3. QED
    BY <2>1, <2>2
<1>11. ASSUME NEW i \in 1..Len(found), i <= k, NEW j \in Placed \ ids
       PROVE  MinDistance(x, y, objects[j]) >= found[i][1]
  <2>1. Len(found) >= k /\ found[k][1] <= MinDistance(x, y, objects[j])
    BY <1>9 DEF Behind
  <2>2. k \in 1..Len(found)
    BY <1>4, <2>1
  <2>3. found[i][1] <= found[k][1]
    BY <1>4, <1>11, <2>2 DEF Rising
  <2>4. found[i] \in Pairs /\ found[k] \in Pairs
    BY <1>4, <2>2
  <2>5. found[i][1] \in Int /\ found[k][1] \in Int /\ MinDistance(x, y, objects[j]) \in Int
    BY <1>5, <2>4, PairsAre, PairsThere
  <2>6. QED
    BY <2>1, <2>3, <2>5
<1>12. QED
  BY <1>2, <1>3, <1>4, <1>7, <1>8, <1>10, <1>11, Zenon DEF NearestAt

\* At every call of every insertion KNNQuery finds the nearest: it stops, and
\* leaves children out of its queue, only when k results are no farther than
\* the box, which is no farther than what is below it.
THEOREM NearestFound ==
  Spec => []KNNNearest
<1>1. Init => IInv /\ BoxesOK /\ SpaceOK
  BY InitIInv, BoxesInit, SpaceInit
<1>2. (IInv /\ BoxesOK /\ SpaceOK) /\ [Next]_vars => (IInv /\ BoxesOK /\ SpaceOK)'
  BY NextKeeps, BoxesStep, SpaceStep
<1>3. IInv /\ BoxesOK /\ SpaceOK => KNNNearest
  <2>1. SUFFICES ASSUME IInv, NowTight, Inside(objects), NEW p \in Points, NEW k \in 1..3
                 PROVE  NearestAt(p[1], p[2], k)
    BY Zenon DEF BoxesOK, SpaceOK, KNNNearest, NearestAt
  <2>2. p[1] \in Int /\ p[2] \in Int /\ k \in Nat \ {0}
    BY PointsAssumption
  <2>3. QED
    BY <2>1, <2>2, NearestFollows
<1>4. QED
  BY <1>1, <1>2, <1>3, PTL DEF Spec

-------------------------------------------------------------------------------
\* What earlier calls have listed of the node at hand is what they would list
\* now: the sorted cuts, the cuts by their place, the two candidates, the
\* children.
AsListed ==
  /\ pc = "sorted" => sorted_split_loc = SortSplitLocByPerimeter(iter)
  /\ pc \in {"candidates", "action"} => split_locations = PrepareSplitLocations(iter)
  /\ pc = "action" => \A loc \in {1, 2} : candidate_split_action[loc] \in NonOverlapping
  /\ tmp_sorted_children # <<>> => ASet(tmp_sorted_children) = Kids(tree_nodes, iter)

\* Whoever is not choosing from a list, and has sorted no children, is right.
LEMMA NothingListed ==
  ASSUME pc' \notin {"sorted", "candidates", "action"}, tmp_sorted_children' = <<>>
  PROVE  AsListed'
BY DEF AsListed

\* What is listed of an unchanged node stays so.
LEMMA ListsSame ==
  ASSUME UNCHANGED <<tree_nodes, objects, fixed, iter>>
  PROVE  /\ SortSplitLocByPerimeter(iter)' = SortSplitLocByPerimeter(iter)
         /\ PrepareSplitLocations(iter)' = PrepareSplitLocations(iter)
<1>1. EntryBoxes(iter)' = EntryBoxes(iter) /\ Entries(iter)' = Entries(iter) /\ iter' = iter
  BY DEF EntryBoxes, Entries
<1>2. CutsPerOrder' = CutsPerOrder /\ Locations' = Locations
  BY DEF CutsPerOrder, Locations, fixed
<1>3. maximum_entry' = maximum_entry /\ minimum_entry' = minimum_entry
  BY DEF fixed
<1>4. \A i : LocationOf(i)' = LocationOf(i)
  BY <1>2 DEF LocationOf
<1>5. \A o : SweepAt(iter, o)' = SweepAt(iter, o)
  BY <1>1, <1>2, <1>3, Zenon DEF SweepAt, Sweep
<1>6. SortSplitLocByPerimeter(iter)' = SortSplitLocByPerimeter(iter)
  <2> DEFINE sweep == [o \in {1, 2} |-> SweepAt(iter, o)]
             row(i) == LET at == LocationOf(i)
                           b == sweep[at[1]][at[2]]
                       IN  <<SplitPerimeter(b[1], b[2]), 2 - at[1], at[2]>>
             rows == [i \in Locations |-> row(i)]
  <2>1. SortSplitLocByPerimeter(iter) = Ordered(rows, rows)
    BY Zenon DEF SortSplitLocByPerimeter
  <2>2. SortSplitLocByPerimeter(iter)' = Ordered(rows', rows')
    BY Zenon DEF SortSplitLocByPerimeter
  <2>3. sweep' = sweep
    BY <1>5
  <2> HIDE DEF sweep
  <2>4. \A i : row(i)' = row(i)
    BY <1>4, <2>3
  <2> HIDE DEF row
  <2>5. rows' = rows
    BY <1>2, <2>4
  <2>6. QED
    BY <2>1, <2>2, <2>5
<1>7. PrepareSplitLocations(iter)' = PrepareSplitLocations(iter)
  <2> DEFINE sweep == [o \in {1, 2} |-> SweepAt(iter, o)]
             row(i) == SplitLocation(sweep[LocationOf(i)[1]][LocationOf(i)[2]], i)
             rows == [i \in Locations |-> row(i)]
  <2>1. PrepareSplitLocations(iter) = rows /\ PrepareSplitLocations(iter)' = rows'
    BY Zenon DEF PrepareSplitLocations
  <2>3. sweep' = sweep
    BY <1>5
  <2> HIDE DEF sweep
  <2>4. \A i : row(i)' = row(i)
    BY <1>4, <2>3 DEF SplitLocation
  <2> HIDE DEF row
  <2>5. rows' = rows
    BY <1>2, <2>4
  <2>6. QED
    BY <2>1, <2>5
<1>8. QED
  BY <1>6, <1>7

\* The calls that list.
LEMMA ListsListed ==
  ASSUME IInv, AsListed, Lists
  PROVE  AsListed'
<1>1. ASSUME NEW t, RetrieveSortedInsertStates(t) PROVE AsListed'
  <2>1. /\ pc = "insert" /\ pc' = pc /\ ~tree_nodes[iter].leaf /\ iter' = iter /\ tree_nodes' = tree_nodes
        /\ tmp_sorted_children' \in SortedChildren(iter, objects[rec], t)
    BY <1>1 DEF RetrieveSortedInsertStates, treeVars
  <2>2. objects[rec] \in RectT
    BY <2>1, TheObject DEF Inserting
  <2>3. ASet(tmp_sorted_children') = Kids(tree_nodes, iter)
    BY <2>1, <2>2, SortedAreChildren
  <2>4. ASet(tmp_sorted_children') = ASet(tmp_sorted_children)'
    BY DEF ASet
  <2>5. QED
    BY <2>1, <2>3, <2>4 DEF AsListed
<1>2. pc # "insert" => tmp_sorted_children = <<>>
  BY DEF IInv, SortedOK
<1>3. ASSUME RetrieveSortedSplitStates PROVE AsListed'
  <2>1. /\ pc = "split" /\ pc' = "sorted" /\ sorted_split_loc' = SortSplitLocByPerimeter(iter)
        /\ tmp_sorted_children' = tmp_sorted_children /\ UNCHANGED <<tree_nodes, objects, fixed, iter>>
    BY <1>3 DEF RetrieveSortedSplitStates, Splitting, treeVars
  <2>2. SortSplitLocByPerimeter(iter)' = SortSplitLocByPerimeter(iter)
    BY <2>1, ListsSame
  <2>3. QED
    BY <1>2, <2>1, <2>2 DEF AsListed
<1>4. ASSUME GetNumberOfNonOverlapSplitLocs PROVE AsListed'
  <2>1. /\ pc = "split" /\ pc' = "candidates" /\ split_locations' = PrepareSplitLocations(iter)
        /\ tmp_sorted_children' = tmp_sorted_children /\ UNCHANGED <<tree_nodes, objects, fixed, iter>>
    BY <1>4 DEF GetNumberOfNonOverlapSplitLocs, Splitting, treeVars
  <2>2. PrepareSplitLocations(iter)' = PrepareSplitLocations(iter)
    BY <2>1, ListsSame
  <2>3. QED
    BY <1>2, <2>1, <2>2 DEF AsListed
<1>5. ASSUME RetrieveZeroOVLPSplitStates PROVE AsListed'
  <2>1. /\ pc = "candidates" /\ Cardinality(NonOverlapping) >= 2 /\ split_locations' = split_locations
        /\ \/ pc' = "action" /\ candidate_split_action' = ZeroOverlapCandidates
           \/ pc' = "weighted"
        /\ tmp_sorted_children' = tmp_sorted_children /\ UNCHANGED <<tree_nodes, objects, fixed, iter>>
    BY <1>5 DEF RetrieveZeroOVLPSplitStates, treeVars
  <2>2. PrepareSplitLocations(iter)' = PrepareSplitLocations(iter)
    BY <2>1, ListsSame
  <2>3. \A loc \in {1, 2} : ZeroOverlapCandidates[loc] \in NonOverlapping
    BY <2>1, ZeroOverlapCandidatesAre
  <2>4. NonOverlapping' = NonOverlapping
    BY <2>1 DEF NonOverlapping
  <2>5. QED
    BY <1>2, <2>1, <2>2, <2>3, <2>4 DEF AsListed
<1>6. QED
  BY <1>1, <1>3, <1>4, <1>5 DEF Lists

\* The calls of an insertion keep AsListed: those that change the tree leave
\* nothing listed.
LEMMA CallListed ==
  ASSUME IInv, AsListed, Call
  PROVE  AsListed'
<1>1. pc # "insert" => tmp_sorted_children = <<>>
  BY DEF IInv, SortedOK
<1>2. CASE Inserts
  <2>1. tmp_sorted_children' = <<>> /\ pc' \in {"split", "insert"}
    BY <1>2 DEF Inserts, InsertAt
  <2>2. QED
    BY <2>1, NothingListed
<1>3. CASE Cuts
  <2>1. PICK d : Divides(d, EntryBoxes(iter), Entries(iter)) /\ Link(d)
    BY <1>3 DEF Cuts
  <2>2. pc' = "split" /\ tmp_sorted_children' = tmp_sorted_children /\ pc # "insert"
    BY <1>3, <2>1, LinkDoes DEF LinkDid, Cuts, Splittings
  <2>3. QED
    BY <1>1, <2>2, NothingListed
<1>4. CASE NoCut
  BY <1>1, <1>4, NothingListed DEF NoCut
<1>5. CASE Lists
  BY <1>5, ListsListed
<1>6. CASE TryDescend
  BY <1>1, <1>6, NothingListed DEF TryDescend, learned
<1>7. CASE TryPlace
  <2>1. pc = "try" /\ pc' \in {"idle", "insert"} /\ tmp_sorted_children' = tmp_sorted_children
    BY <1>7 DEF TryPlace, learned
  <2>2. QED
    BY <1>1, <2>1, NothingListed
<1>8. CASE DirectSplitWithReinsert
  <2>1. pc = "split" /\ pc' = "insert" /\ tmp_sorted_children' = tmp_sorted_children
    BY <1>8 DEF DirectSplitWithReinsert, Splitting, learned
  <2>2. QED
    BY <1>1, <2>1, NothingListed
<1>9. CASE Settle
  <2>1. pc = "split" /\ pc' \in {"idle", "insert"} /\ tmp_sorted_children' = tmp_sorted_children
    BY <1>9 DEF Settle, learned
  <2>2. QED
    BY <1>1, <2>1, NothingListed
<1>10. QED
  BY <1>2, <1>3, <1>4, <1>5, <1>6, <1>7, <1>8, <1>9, CallIs

\* Every step keeps it.
LEMMA NextListed ==
  ASSUME IInv, AsListed, [Next]_vars
  PROVE  AsListed'
<1>1. pc # "insert" => tmp_sorted_children = <<>>
  BY DEF IInv, SortedOK
<1>2. ASSUME InsertRec \/ Clear \/ SaveTree \/ RestoreTree PROVE AsListed'
  <2>1. pc = "idle" /\ pc' \in {"idle", "try", "insert"} /\ tmp_sorted_children' = tmp_sorted_children
    BY <1>2 DEF InsertRec, Clear, SaveTree, RestoreTree, learned
  <2>2. QED
    BY <1>1, <2>1, NothingListed
<1>3. ASSUME UNCHANGED vars PROVE AsListed'
  <2>1. UNCHANGED <<tree_nodes, objects, fixed, iter, pc, sorted_split_loc, split_locations,
                    candidate_split_action, tmp_sorted_children>>
    BY <1>3 DEF vars, treeVars, learned
  <2>2. /\ SortSplitLocByPerimeter(iter)' = SortSplitLocByPerimeter(iter)
        /\ PrepareSplitLocations(iter)' = PrepareSplitLocations(iter)
    BY <2>1, ListsSame
  <2>3. NonOverlapping' = NonOverlapping
    BY <2>1 DEF NonOverlapping
  <2>4. QED
    BY <2>1, <2>2, <2>3 DEF AsListed
<1>4. QED
  BY <1>2, <1>3, CallListed DEF Next

\* So the lists are always about the tree as it is.
LEMMA AlwaysListed ==
  Spec => []AsListed
<1>1. Init => AsListed
  BY DEF Init, AsListed
<1>2. IInv /\ AsListed /\ [Next]_vars => AsListed'
  BY NextListed
<1>3. QED
  BY <1>1, <1>2, Inductive, PTL DEF Spec

\* The sweep gives a cut the boxes that the cut itself computes.
LEMMA SweepIsCut ==
  ASSUME FanOuts, NEW e, Overfull(e), NEW R, \A x \in ASet(e) : R[x] \in RectT,
         NEW s, Rearranges(s, e), NEW c \in 1..CutsPerOrder
  PROVE  Sweep(R, s)[c][1] = CutAt(R, s, c).box1 /\ Sweep(R, s)[c][2] = CutAt(R, s, c).box2
<1>1. PICK k \in Nat : k = minimum_entry - 1 + c /\ k <= Len(e)
  BY DEF FanOuts, CutsPerOrder, Overfull
<1>2. PICK d : d = CutAt(R, s, c)
  OBVIOUS
<1>3. Boxed(d, R)
  BY <1>2, CutAtDivides DEF Divides
<1>4. d.low = SubSeq(s, 1, k) /\ d.high = SubSeq(s, k + 1, Len(s))
  BY <1>1, <1>2 DEF CutAt
<1>5. ASet(d.low) = Piece(s, 1, k) /\ ASet(d.high) = Piece(s, k + 1, Len(s))
  <2>1. Rearranges(s, e) /\ k \in Nat /\ k <= Len(e)
    BY <1>1
  <2>2. CutIs(d, e, s, k)
    BY <1>4, <2>1, CutShares
  <2>3. QED
    BY <2>2 DEF CutIs
<1>6. Overfull(s) /\ \A x \in ASet(s) : R[x] \in RectT
  BY DEF Overfull, Rearranges
<1>7. PICK X, Y : X = BoxesOf(R, Piece(s, 1, k)) /\ Y = BoxesOf(R, Piece(s, k + 1, Len(s)))
  OBVIOUS
<1>8. BoxOf(Sweep(R, s)[c][1], X) /\ BoxOf(Sweep(R, s)[c][2], Y)
  BY <1>1, <1>6, <1>7, SweepBoxes
<1>9. BoxOf(d.box1, X) /\ BoxOf(d.box2, Y)
  BY <1>3, <1>5, <1>7 DEF Boxed
<1>10. \A x \in X \cup Y : x \in RectT
  <2>1. Divides(d, R, e)
    BY <1>2, CutAtDivides
  <2>2. \A x \in Piece(s, 1, k) \cup Piece(s, k + 1, Len(s)) : R[x] \in RectT
    BY <1>5, <2>1 DEF Divides, Shares
  <2>3. QED
    BY <1>7, <2>2 DEF BoxesOf
<1>11. QED
  BY <1>2, <1>8, <1>9, <1>10, OneBox

\* A number below N * c is one of N rows of c.
LEMMA InRows ==
  ASSUME NEW N \in Nat, NEW c \in Nat, c >= 1, NEW loc \in 0..N * c - 1
  PROVE  /\ (loc \div c) + 1 \in 1..N /\ (loc % c) + 1 \in 1..c
         /\ loc = c * (loc \div c) + (loc % c)
<1>1. PICK q, m : q = loc \div c /\ m = loc % c
  OBVIOUS
<1>2. q \in Nat /\ m \in 0..c - 1 /\ loc = c * q + m
  BY <1>1, Quotient
<1>3. q < N
  <2>1. SUFFICES ASSUME q >= N PROVE FALSE
    BY <1>2
  <2>2. c * q >= c * N
    BY <1>2, <2>1
  <2>3. c * N = N * c
    OBVIOUS
  <2>4. QED
    BY <1>2, <2>2, <2>3
<1>4. QED
  BY <1>1, <1>2, <1>3

\* The cut that is described by row i of the rows under some orders.
CutOfRow(orders, i) ==
  CutAt(EntryBoxes(iter), Sorted(EntryBoxes(iter), Entries(iter), orders[((i - 1) \div CutsPerOrder) + 1]),
        ((i - 1) % CutsPerOrder) + 1)

\* The row for a cut is made of the boxes that the cut then has.
LEMMA SweptRowIs ==
  ASSUME IInv, Overflow, NEW orders \in Seq(Orders4), NEW i \in 1..Len(orders) * CutsPerOrder
  PROVE  /\ DOMAIN SweptRows(iter, orders) = 1..Len(orders) * CutsPerOrder
         /\ SweptRows(iter, orders)[i] = SplitFeatures(CutOfRow(orders, i).box1, CutOfRow(orders, i).box2)
         /\ CutOfRow(orders, i).box1 \in RectT /\ CutOfRow(orders, i).box2 \in RectT
<1>1. /\ Overfull(Entries(iter)) /\ FanOuts
      /\ \A x \in ASet(Entries(iter)) : EntryBoxes(iter)[x] \in RectT
  BY OverfullNode
<1>2. CutsPerOrder \in Nat /\ CutsPerOrder >= 1 /\ Len(orders) \in Nat /\ DOMAIN orders = 1..Len(orders)
  BY <1>1, CutsPositive, LenProperties
<1>3. PICK o \in 1..Len(orders), c \in 1..CutsPerOrder :
          o = ((i - 1) \div CutsPerOrder) + 1 /\ c = ((i - 1) % CutsPerOrder) + 1
  <2>1. i - 1 \in 0..Len(orders) * CutsPerOrder - 1
    BY <1>2
  <2>2. QED
    BY <1>2, <2>1, InRows
<1>4. orders[o] \in Orders4
  BY <1>2, ElementOfSeq
<1>5. PICK s : s = Sorted(EntryBoxes(iter), Entries(iter), orders[o])
  OBVIOUS
<1>6. Rearranges(s, Entries(iter))
  BY <1>1, <1>4, <1>5, SortedRearranges DEF Overfull
<1>7. PICK d : d = CutAt(EntryBoxes(iter), s, c)
  OBVIOUS
<1>8. d = CutOfRow(orders, i)
  BY <1>3, <1>5, <1>7 DEF CutOfRow
<1>9. PICK b : b = Sweep(EntryBoxes(iter), s)[c]
  OBVIOUS
<1>10. b[1] = d.box1 /\ b[2] = d.box2
  BY <1>1, <1>6, <1>7, <1>9, SweepIsCut
<1>11. b[1] \in RectT /\ b[2] \in RectT
  <2>1. Overfull(s) /\ \A x \in ASet(s) : EntryBoxes(iter)[x] \in RectT
    BY <1>1, <1>6 DEF Overfull, Rearranges
  <2>2. QED
    BY <1>1, <1>9, <2>1, SweepRects
<1>12. SweptRows(iter, orders)
       = [j \in 1..Len(orders) * CutsPerOrder |->
             SplitFeatures([k \in DOMAIN orders |-> Sweep(EntryBoxes(iter), Sorted(EntryBoxes(iter), Entries(iter), orders[k]))]
                               [((j - 1) \div CutsPerOrder) + 1][((j - 1) % CutsPerOrder) + 1][1],
                           [k \in DOMAIN orders |-> Sweep(EntryBoxes(iter), Sorted(EntryBoxes(iter), Entries(iter), orders[k]))]
                               [((j - 1) \div CutsPerOrder) + 1][((j - 1) % CutsPerOrder) + 1][2])]
  BY DEF SweptRows
<1>13. SweptRows(iter, orders)[i] = SplitFeatures(b[1], b[2])
  BY <1>2, <1>3, <1>5, <1>9, <1>12
<1>14. QED
  BY <1>8, <1>10, <1>11, <1>12, <1>13

\* The orders of the two states.
LEMMA OrdersOfStates ==
  /\ AllOrders \in Seq(Orders4) /\ Len(AllOrders) = 4 /\ AllOrders[1] = "left"
  /\ <<"left">> \in Seq(Orders4) /\ Len(<<"left">>) = 1
BY DEF AllOrders, Orders4

\* Rows of cuts lead to the cuts they describe.
LEMMA RowsLeadToCuts ==
  ASSUME IInv
  PROVE  RowLeadsToCut
<1> SUFFICES ASSUME AboutToSplit
             PROVE  /\ \A loc \in 0..4 * CutsPerOrder - 1 :
                           LET d == LocCut(iter, loc)
                           IN  GetSplitStates(iter).rows[loc + 1] = SplitFeatures(d.box1, d.box2)
                    /\ GetShortSplitStates(iter).rows = SubSeq(GetSplitStates(iter).rows, 1, CutsPerOrder)
  BY DEF RowLeadsToCut
<1>1. Overflow
  BY DEF AboutToSplit
<1>2. CutsPerOrder \in Nat /\ CutsPerOrder >= 1
  BY <1>1, OverfullNode, CutsPositive
<1>3. PICK long, short : long = SweptRows(iter, AllOrders) /\ short = SweptRows(iter, <<"left">>)
  OBVIOUS
<1>4. GetSplitStates(iter).rows = long /\ GetShortSplitStates(iter).rows = short
  BY <1>3 DEF GetSplitStates, GetShortSplitStates, ScaledByRange
<1>5. ASSUME NEW loc \in 0..4 * CutsPerOrder - 1
      PROVE  long[loc + 1] = SplitFeatures(LocCut(iter, loc).box1, LocCut(iter, loc).box2)
  <2>1. loc + 1 \in 1..Len(AllOrders) * CutsPerOrder
    BY <1>2, OrdersOfStates
  <2>2. long[loc + 1] = SplitFeatures(CutOfRow(AllOrders, loc + 1).box1, CutOfRow(AllOrders, loc + 1).box2)
    BY <1>1, <1>3, <2>1, SweptRowIs, OrdersOfStates
  <2>3. (loc + 1) - 1 = loc
    OBVIOUS
  <2>4. CutOfRow(AllOrders, loc + 1) = LocCut(iter, loc)
    BY <2>3 DEF CutOfRow, LocCut
  <2>5. QED
    BY <2>2, <2>4
<1>6. short = SubSeq(long, 1, CutsPerOrder)
  <2>1. PICK c \in Nat : c = CutsPerOrder /\ c >= 1
    BY <1>2
  <2>2. DOMAIN short = 1..c
    <3>1. 1 \in 1..Len(<<"left">>) * CutsPerOrder /\ Len(<<"left">>) * CutsPerOrder = c
      BY <2>1, OrdersOfStates
    <3>2. QED
      BY <1>1, <1>3, <3>1, SweptRowIs, OrdersOfStates
  <2>3. ASSUME NEW i \in 1..c PROVE short[i] = long[i]
    <3>1. i \in 1..Len(<<"left">>) * CutsPerOrder /\ i \in 1..Len(AllOrders) * CutsPerOrder
      BY <2>1, OrdersOfStates
    <3>2. ((i - 1) \div CutsPerOrder) + 1 = 1
      <4>1. i - 1 \in 0..1 * c - 1
        OBVIOUS
      <4>2. QED
        BY <2>1, <4>1, InRows
    <3>3. CutOfRow(AllOrders, i) = CutOfRow(<<"left">>, i)
      BY <3>2, OrdersOfStates DEF CutOfRow
    <3>4. QED
      BY <1>1, <1>3, <3>1, <3>3, SweptRowIs, OrdersOfStates
  <2>4. SubSeq(long, 1, c) = [i \in 1..c |-> long[i]]
    BY <2>1 DEF SubSeq
  <2>5. short = [i \in 1..c |-> short[i]]
    BY <1>3, <2>2 DEF SweptRows
  <2>6. QED
    BY <2>1, <2>3, <2>4, <2>5
<1>7. QED
  BY <1>4, <1>5, <1>6

\* The numbers in some columns of a table.
LEMMA ColumnIs ==
  ASSUME NEW N \in Nat \ {0}, NEW m \in Nat, NEW rows, DOMAIN rows = 1..N,
         \A i \in 1..N : rows[i] \in Tuples(m), NEW cs, cs \subseteq 1..m, cs # {}
  PROVE  /\ Column(rows, cs) \subseteq Int /\ Column(rows, cs) # {} /\ IsFiniteSet(Column(rows, cs))
         /\ \A i \in 1..N, c \in cs : rows[i][c] \in Column(rows, cs)
<1>1. \A i \in 1..N, c \in cs : rows[i][c] \in Int
  BY DEF Tuples
<1>2. PICK f : f = [p \in (1..N) \X cs |-> rows[p[1]][p[2]]]
  OBVIOUS
<1>3. IsFiniteSet((1..N) \X cs)
  <2>1. IsFiniteSet(1..N) /\ IsFiniteSet(1..m)
    BY FS_Interval
  <2>2. IsFiniteSet(cs)
    BY <2>1, FS_Subset
  <2>3. QED
    BY <2>1, <2>2, FS_Product
<1>4. IsFiniteSet({f[p] : p \in (1..N) \X cs})
  BY <1>3, FiniteImage
<1>5. Column(rows, cs) \subseteq {f[p] : p \in (1..N) \X cs}
  <2>1. SUFFICES ASSUME NEW x \in Column(rows, cs) PROVE x \in {f[p] : p \in (1..N) \X cs}
    OBVIOUS
  <2>2. PICK i \in 1..N, c \in cs : x = rows[i][c]
    BY DEF Column
  <2>3. PICK p : p = <<i, c>>
    OBVIOUS
  <2>4. p \in (1..N) \X cs /\ f[p] = x
    BY <1>2, <2>2, <2>3
  <2>5. QED
    BY <2>4
<1>6. ASSUME NEW i \in 1..N, NEW c \in cs PROVE rows[i][c] \in Column(rows, cs)
  <2>1. PICK D : D = DOMAIN rows /\ i \in D
    OBVIOUS
  <2>2. rows[i][c] \in {rows[k][d] : k \in D, d \in cs}
    BY <2>1, SMT
  <2>3. QED
    BY <2>1, <2>2 DEF Column
<1>7. Column(rows, cs) # {}
  <2>1. 1 \in 1..N
    OBVIOUS
  <2>2. PICK c : c \in cs
    OBVIOUS
  <2>3. QED
    BY <1>6, <2>1, <2>2
<1>8. Column(rows, cs) \subseteq Int
  BY <1>1 DEF Column
<1>9. IsFiniteSet(Column(rows, cs))
  BY <1>4, <1>5, FS_Subset
<1>10. QED
  BY <1>6, <1>7, <1>8, <1>9

\* Scaled by the least and the greatest number of their columns, rows of five
\* numbers are fractions.
LEMMA RangeFractions ==
  ASSUME NEW N \in Nat \ {0}, NEW rows, DOMAIN rows = 1..N, \A i \in 1..N : rows[i] \in Tuples(5)
  PROVE  Fractions(ScaledByRange(rows))
<1> DEFINE like(c) == IF c \in {1, 2} THEN {1, 2} ELSE IF c \in {3, 4} THEN {3, 4} ELSE {5}
<1>1. PICK s : s = ScaledByRange(rows)
  OBVIOUS
<1>2. /\ s.rows = rows
      /\ \A c \in 1..5 : s.lo[c] = Min(Column(rows, like(c))) /\ s.hi[c] = Max(Column(rows, like(c)))
  BY <1>1 DEF ScaledByRange
<1>3. ASSUME NEW i \in 1..N, NEW c \in 1..5 PROVE s.lo[c] <= rows[i][c] /\ rows[i][c] <= s.hi[c]
  <2>1. PICK cs : cs = like(c)
    OBVIOUS
  <2>2. cs \subseteq 1..5 /\ c \in cs
    BY <2>1
  <2>3. PICK C : C = Column(rows, cs)
    OBVIOUS
  <2>4. C \subseteq Int /\ C # {} /\ IsFiniteSet(C) /\ rows[i][c] \in C
    BY <2>2, <2>3, ColumnIs
  <2>5. Min(C) <= rows[i][c] /\ rows[i][c] <= Max(C)
    BY <2>4, ExtremeOf
  <2>6. QED
    BY <1>2, <2>1, <2>3, <2>5
<1>4. \A i \in 1..N : DOMAIN rows[i] = 1..5
  BY DEF Tuples
<1>5. QED
  BY <1>1, <1>2, <1>3, <1>4 DEF Fractions

\* The features of a cut are five numbers.
LEMMA SplitFeaturesAre ==
  ASSUME NEW a \in RectT, NEW b \in RectT
  PROVE  SplitFeatures(a, b) \in Tuples(5)
<1>1. /\ Area(a) \in Int /\ Area(b) \in Int /\ Perimeter(a) \in Int /\ Perimeter(b) \in Int
      /\ SplitOverlap(a, b) \in Int
  BY MeasuresAreInt, OverlapIsNat
<1>2. QED
  BY <1>1 DEF SplitFeatures, Tuples

\* The features of the cuts of a node become fractions.
LEMMA CutsScaled ==
  ASSUME IInv
  PROVE  CutsAreFractions
<1> SUFFICES ASSUME AboutToSplit
             PROVE  Fractions(GetSplitStates(iter)) /\ Fractions(GetShortSplitStates(iter))
  BY DEF CutsAreFractions
<1>1. Overflow
  BY DEF AboutToSplit
<1>2. CutsPerOrder \in Nat /\ CutsPerOrder >= 1
  BY <1>1, OverfullNode, CutsPositive
<1>3. ASSUME NEW orders \in Seq(Orders4), Len(orders) >= 1 PROVE Fractions(ScaledByRange(SweptRows(iter, orders)))
  <2>1. PICK rows : rows = SweptRows(iter, orders)
    OBVIOUS
  <2>2. PICK N \in Nat \ {0} : N = Len(orders) * CutsPerOrder
    <3>1. Len(orders) \in Nat
      BY LenProperties
    <3>2. PICK l \in Nat, c \in Nat : l = Len(orders) /\ c = CutsPerOrder /\ l >= 1 /\ c >= 1
      BY <1>2, <1>3, <3>1
    <3>3. l * c \in Nat /\ l * c # 0
      BY <3>2
    <3>4. QED
      BY <3>2, <3>3
  <2>3. \A i \in 1..N : rows[i] \in Tuples(5)
    <3>1. ASSUME NEW i \in 1..N PROVE rows[i] \in Tuples(5)
      <4>1. i \in 1..Len(orders) * CutsPerOrder
        BY <2>2
      <4>2. PICK a \in RectT, b \in RectT : rows[i] = SplitFeatures(a, b)
        BY <1>1, <2>1, <4>1, SweptRowIs
      <4>3. QED
        BY <4>2, SplitFeaturesAre
    <3>2. QED
      BY <3>1
  <2>4. DOMAIN rows = 1..N
    BY <2>1, <2>2 DEF SweptRows
  <2>5. QED
    BY <2>1, <2>3, <2>4, RangeFractions
<1>4. Fractions(ScaledByRange(SweptRows(iter, AllOrders)))
  <2>1. AllOrders \in Seq(Orders4) /\ Len(AllOrders) >= 1
    BY OrdersOfStates
  <2>2. QED
    BY <1>3, <2>1
<1>5. Fractions(ScaledByRange(SweptRows(iter, <<"left">>)))
  <2>1. PICK short : short = <<"left">>
    OBVIOUS
  <2>2. short \in Seq(Orders4) /\ Len(short) >= 1
    BY <2>1, OrdersOfStates
  <2>3. QED
    BY <1>3, <2>1, <2>2
<1>6. QED
  BY <1>4, <1>5 DEF GetSplitStates, GetShortSplitStates

\* The swept cuts under the two orders are the cuts.
LEMMA SweptTwoOrders ==
  ASSUME IInv, Overflow, NEW o \in {1, 2}, NEW c \in 1..CutsPerOrder
  PROVE  /\ SweepAt(iter, o)[c][1] = TwoOrdersCut(iter, <<o, c>>).box1
         /\ SweepAt(iter, o)[c][2] = TwoOrdersCut(iter, <<o, c>>).box2
<1>1. /\ Overfull(Entries(iter)) /\ FanOuts
      /\ \A x \in ASet(Entries(iter)) : EntryBoxes(iter)[x] \in RectT
  BY OverfullNode
<1>2. PICK order \in Orders4 : order = TwoOrders[o]
  BY DEF TwoOrders, Orders4
<1>3. PICK s : s = Sorted(EntryBoxes(iter), Entries(iter), order)
  OBVIOUS
<1>4. Rearranges(s, Entries(iter))
  BY <1>1, <1>2, <1>3, SortedRearranges DEF Overfull
<1>5. SweepAt(iter, o) = Sweep(EntryBoxes(iter), s)
  BY <1>2, <1>3 DEF SweepAt
<1>6. <<o, c>>[1] = o /\ <<o, c>>[2] = c
  OBVIOUS
<1>7. TwoOrdersCut(iter, <<o, c>>) = CutAt(EntryBoxes(iter), s, c)
  BY <1>2, <1>3, <1>6 DEF TwoOrdersCut
<1>8. QED
  BY <1>1, <1>4, <1>5, <1>7, SweepIsCut

\* Whichever of its two candidates a policy takes, the cut has no overlap.
LEMMA CandidatesApart ==
  ASSUME IInv, AsListed
  PROVE  CandidatesDoNotOverlap
<1> SUFFICES ASSUME pc = "action", NEW loc \in {1, 2}
             PROVE  LET d == TwoOrdersCut(iter, split_locations[candidate_split_action[loc]].at)
                    IN  SplitOverlap(d.box1, d.box2) = 0
  BY DEF CandidatesDoNotOverlap
<1> DEFINE sweep == [o \in {1, 2} |-> SweepAt(iter, o)]
<1>1. Overflow /\ split_locations # <<>>
  BY DEF IInv, DriverOK, Splittings, Overflow
<1>2. FanOuts
  BY <1>1, OverfullNode
<1>3. PICK i : i = candidate_split_action[loc]
  OBVIOUS
<1>4. i \in Locations /\ split_locations[i].overlap = 0
  BY <1>1, <1>3 DEF AsListed, NonOverlapping, IInv, ListedOK
<1>5. split_locations = [k \in Locations |-> SplitLocation(sweep[LocationOf(k)[1]][LocationOf(k)[2]], k)]
  <2>1. split_locations = PrepareSplitLocations(iter)
    BY DEF AsListed
  <2>2. QED
    BY <2>1, Zenon DEF PrepareSplitLocations
<1>6. PICK o \in {1, 2}, c \in 1..CutsPerOrder : LocationOf(i) = <<o, c>>
  BY <1>2, <1>4, LocationsAre
<1>7. PICK b : b = SweepAt(iter, o)[c]
  OBVIOUS
<1>8. split_locations[i] = SplitLocation(b, i)
  BY <1>4, <1>5, <1>6, <1>7
<1>9. split_locations[i].at = <<o, c>> /\ SplitOverlap(b[1], b[2]) = 0
  BY <1>4, <1>6, <1>8 DEF SplitLocation
<1>10. QED
  BY <1>1, <1>3, <1>7, <1>9, SweptTwoOrders

\* The sorted cuts of a leaf come by growing perimeter, each as it will be.
LEMMA SortedRowsLeadToCuts ==
  ASSUME IInv, AsListed
  PROVE  SortedRowLeadsToCut
<1> SUFFICES ASSUME pc = "sorted", tree_nodes[iter].leaf
             PROVE  LET states == GetSortedSplitStates(iter, 2 * CutsPerOrder)
                    IN  \A loc \in Locations :
                           LET d == TwoOrdersCut(iter, <<2 - sorted_split_loc[loc][2], sorted_split_loc[loc][3]>>)
                           IN  /\ states.rows[loc] = LargerFirst(d.box1, d.box2)
                               /\ loc > 1 => states.rows[loc - 1][3] + states.rows[loc - 1][4]
                                             <= states.rows[loc][3] + states.rows[loc][4]
  BY DEF SortedRowLeadsToCut
<1> DEFINE cut(i) == TwoOrdersCut(iter, <<2 - sorted_split_loc[i][2], sorted_split_loc[i][3]>>)
           order(at) == IF at[2] = 1 THEN "left" ELSE "bottom"
           row(at) == LET s == Sorted(objects, Entries(iter), order(at))
                          k == minimum_entry - 1 + at[3]
                      IN  LargerFirst(MergeRange(objects, SubSeq(s, 1, k)), MergeRange(objects, SubSeq(s, k + 1, Len(s))))
<1>1. Overflow /\ EntryBoxes(iter) = objects
  BY DEF IInv, DriverOK, Splittings, Overflow, EntryBoxes
<1>2. CutsPerOrder \in Nat /\ CutsPerOrder >= 1
  BY <1>1, OverfullNode, CutsPositive
<1>3. PICK l : l = sorted_split_loc /\ l = SortSplitLocByPerimeter(iter)
  BY DEF AsListed
<1>4. /\ \A i \in Locations : l[i] \in Tuples(3) /\ IsLocation(<<2 - l[i][2], l[i][3]>>)
      /\ \A i \in Locations : l[i][1] = SplitPerimeter(SweepAt(iter, 2 - l[i][2])[l[i][3]][1],
                                                       SweepAt(iter, 2 - l[i][2])[l[i][3]][2])
      /\ \A i, j \in Locations : i < j => l[i][1] <= l[j][1]
  BY <1>1, <1>3, SortSplitLocLists
<1>5. PICK rows : rows = GetSortedSplitStates(iter, 2 * CutsPerOrder).rows
  OBVIOUS
<1>6. rows = [i \in 1..2 * CutsPerOrder |-> row(l[i])]
  BY <1>3, <1>5 DEF GetSortedSplitStates, ScaledByRange
<1>7. ASSUME NEW i \in Locations
      PROVE  /\ rows[i] = LargerFirst(cut(i).box1, cut(i).box2)
             /\ cut(i).box1 \in RectT /\ cut(i).box2 \in RectT
             /\ SplitPerimeter(cut(i).box1, cut(i).box2) = l[i][1]
  <2>1. PICK o \in {1, 2}, c \in 1..CutsPerOrder : 2 - l[i][2] = o /\ l[i][3] = c
    BY <1>4 DEF IsLocation
  <2>2. PICK d : d = TwoOrdersCut(iter, <<o, c>>)
    OBVIOUS
  <2>3. cut(i) = d
    BY <1>3, <2>1, <2>2
  <2>4. PICK s : s = Sorted(objects, Entries(iter), TwoOrders[o])
    OBVIOUS
  <2>5. d = CutAt(objects, s, c)
    <3>1. <<o, c>>[1] = o /\ <<o, c>>[2] = c
      OBVIOUS
    <3>2. QED
      BY <1>1, <2>2, <2>4, <3>1 DEF TwoOrdersCut
  <2>6. order(l[i]) = TwoOrders[o]
    <3>1. CASE l[i][2] = 1
      BY <2>1, <3>1 DEF TwoOrders
    <3>2. CASE l[i][2] # 1
      <4>1. l[i][2] \in Int
        <5>1. l[i] \in Tuples(3)
          BY <1>4
        <5>2. QED
          BY <5>1 DEF Tuples
      <4>2. o = 2
        BY <2>1, <3>2, <4>1
      <4>3. QED
        BY <3>2, <4>2 DEF TwoOrders
    <3>3. QED
      BY <3>1, <3>2
  <2>7. row(l[i]) = LargerFirst(d.box1, d.box2)
    <3>1. PICK k : k = minimum_entry - 1 + c
      OBVIOUS
    <3>2. d.box1 = MergeRange(objects, SubSeq(s, 1, k)) /\ d.box2 = MergeRange(objects, SubSeq(s, k + 1, Len(s)))
      BY <2>5, <3>1 DEF CutAt
    <3>3. row(l[i]) = LargerFirst(MergeRange(objects, SubSeq(s, 1, k)), MergeRange(objects, SubSeq(s, k + 1, Len(s))))
      BY <2>1, <2>4, <2>6, <3>1
    <3>4. QED
      BY <3>2, <3>3
  <2>8. d.box1 \in RectT /\ d.box2 \in RectT
    <3>1. IsLocation(<<o, c>>)
      BY DEF IsLocation
    <3>2. Boxed(d, EntryBoxes(iter))
      BY <1>1, <2>2, <3>1, TwoOrdersCutDivides DEF Divides
    <3>3. QED
      BY <3>2 DEF Boxed, BoxOf
  <2>9. SplitPerimeter(d.box1, d.box2) = l[i][1]
    BY <1>1, <1>4, <2>1, <2>2, SweptTwoOrders
  <2>10. QED
    BY <1>6, <2>3, <2>7, <2>8, <2>9 DEF Locations
<1> HIDE DEF cut, row, order
<1>8. \A a, b \in RectT : LargerFirst(a, b)[3] + LargerFirst(a, b)[4] = SplitPerimeter(a, b)
  BY MeasuresAreInt DEF LargerFirst, SplitPerimeter, Higher, Lower
<1>9. ASSUME NEW i \in Locations PROVE rows[i][3] + rows[i][4] = l[i][1]
  BY <1>7, <1>8
<1>10. ASSUME NEW i \in Locations, i > 1
       PROVE  rows[i - 1][3] + rows[i - 1][4] <= rows[i][3] + rows[i][4]
  <2>1. i - 1 \in Locations /\ i - 1 < i
    BY <1>2, <1>10 DEF Locations
  <2>2. QED
    BY <1>4, <1>9, <2>1
<1>11. \A i \in Locations : rows[i] = LargerFirst(cut(i).box1, cut(i).box2)
  BY <1>7
<1>12. QED
  BY <1>5, <1>10, <1>11 DEF cut

\* What a policy is shown of the cuts is what it gets if it chooses one: the
\* sweep over an order and the cut agree, a listed cut is still one of the node
\* at hand, and the rows are scaled by their bounds.
THEOREM CutsShownAreCuts ==
  Spec => []CutsAsShown
<1>1. IInv /\ AsListed => CutsAsShown
  BY RowsLeadToCuts, SortedRowsLeadToCuts, CutsScaled, CandidatesApart DEF CutsAsShown
<1>2. QED
  BY <1>1, Inductive, AlwaysListed, PTL

\* Measures of upright boxes are not negative, and boxes grow with what they
\* include.
LEMMA ProductGrows ==
  ASSUME NEW a \in Nat, NEW b \in Nat, NEW c \in Nat, NEW d \in Nat, a <= b, c <= d
  PROVE  a * c \in Nat /\ a * c <= b * d
<1>1. a * c \in Nat /\ b * c \in Nat /\ b * d \in Nat
  OBVIOUS
<1>2. a * c <= b * c
  <2>1. (b - a) * c \in Nat
    <3>1. b - a \in Nat
      OBVIOUS
    <3>2. QED
      BY <3>1
  <2>2. (b - a) * c = b * c - a * c
    OBVIOUS
  <2>3. QED
    BY <1>1, <2>1, <2>2
<1>3. b * c <= b * d
  <2>1. b * (d - c) \in Nat
    <3>1. d - c \in Nat
      OBVIOUS
    <3>2. QED
      BY <3>1
  <2>2. b * (d - c) = b * d - b * c
    OBVIOUS
  <2>3. QED
    BY <1>1, <2>1, <2>2
<1>4. QED
  BY <1>1, <1>2, <1>3

\* An upright box grows by no less than nothing, and by nothing to take in
\* what it contains.
LEMMA Growths ==
  ASSUME NEW a \in RectT, Upright(a), NEW r \in RectT
  PROVE  /\ Area(a) \in Nat /\ Perimeter(a) \in Nat
         /\ AreaIncrease(a, r) \in Nat /\ PerimeterIncrease(a, r) \in Nat
         /\ Contains(a, r) => AreaIncrease(a, r) = 0
<1>1. PICK m \in RectT : m = Merge(a, r)
  BY MergeIs
<1>2. PICK w \in Nat, h \in Nat : w = a.right - a.left /\ h = a.top - a.bottom
  BY RectFields DEF Upright
<1>3. PICK v \in Nat, g \in Nat : v = m.right - m.left /\ g = m.top - m.bottom /\ w <= v /\ h <= g
  <2>1. /\ m.left \in Int /\ m.right \in Int /\ m.bottom \in Int /\ m.top \in Int
        /\ a.left \in Int /\ a.right \in Int /\ a.bottom \in Int /\ a.top \in Int
        /\ r.left \in Int /\ r.right \in Int /\ r.bottom \in Int /\ r.top \in Int
    BY RectFields
  <2>2. m.left <= a.left /\ a.right <= m.right /\ m.bottom <= a.bottom /\ a.top <= m.top
    BY <1>1, <2>1, MergeIs DEF Lower, Higher
  <2>3. QED
    BY <1>2, <2>1, <2>2
<1>4. Area(a) = h * w /\ Area(m) = g * v
  BY <1>2, <1>3 DEF Area
<1>5. h * w \in Nat /\ g * v \in Nat /\ h * w <= g * v
  BY <1>3, ProductGrows
<1>6. Perimeter(a) = 2 * (h + w) /\ Perimeter(m) = 2 * (g + v)
  BY <1>2, <1>3, RectFields DEF Perimeter
<1>7. Contains(a, r) => m = a
  <2> SUFFICES ASSUME Contains(a, r) PROVE m = a
    OBVIOUS
  <2>1. m.left = a.left /\ m.right = a.right /\ m.bottom = a.bottom /\ m.top = a.top
    BY <1>1, MergeIs, RectFields DEF Contains, Lower, Higher
  <2>2. QED
    BY <2>1, SameRect
<1>8. AreaIncrease(a, r) = Area(m) - Area(a) /\ PerimeterIncrease(a, r) = Perimeter(m) - Perimeter(a)
  BY <1>1 DEF AreaIncrease, PerimeterIncrease
<1>9. Area(a) \in Nat /\ AreaIncrease(a, r) \in Nat
  <2>1. PICK x \in Nat, y \in Nat : x = h * w /\ y = g * v /\ x <= y
    BY <1>5
  <2>2. Area(m) - Area(a) = y - x
    BY <1>4, <2>1
  <2>3. QED
    BY <1>4, <1>8, <2>1, <2>2
<1>10. Perimeter(a) \in Nat /\ PerimeterIncrease(a, r) \in Nat
  BY <1>3, <1>6, <1>8
<1>11. Contains(a, r) => AreaIncrease(a, r) = 0
  BY <1>7, <1>8, <1>9
<1>12. QED
  BY <1>9, <1>10, <1>11

\* The overlap of a box with the other children, which grows with the box.
LEMMA OthersOverlap ==
  ASSUME IInv, NEW n \in DOMAIN tree_nodes, ~tree_nodes[n].leaf, NEW i \in DOMAIN Entries(n), NEW r \in RectT
  PROVE  OverlapWithOthers(n, i, Child(n, i)) \in Nat /\ OverlapIncrease(n, i, r) \in Nat
<1>1. PICK S : S = (DOMAIN Entries(n)) \ {i}
  OBVIOUS
<1>2. IsFiniteSet(S) /\ \A j \in DOMAIN Entries(n) : Child(n, j) \in RectT
  BY <1>1, Children, FS_Subset
<1>3. PICK a \in RectT, b \in RectT : a = Child(n, i) /\ b = Merge(a, r)
  BY <1>2, MergeIs
<1>4. PICK f, g : /\ f = [j \in DOMAIN Entries(n) |-> SplitOverlap(a, Child(n, j))]
                  /\ g = [j \in DOMAIN Entries(n) |-> SplitOverlap(b, Child(n, j))]
  OBVIOUS
<1>5. \A j \in S : f[j] \in Nat /\ g[j] \in Nat /\ f[j] <= g[j]
  <2>1. ASSUME NEW j \in S PROVE f[j] \in Nat /\ g[j] \in Nat /\ f[j] <= g[j]
    <3>1. PICK c \in RectT : c = Child(n, j) /\ f[j] = SplitOverlap(a, c) /\ g[j] = SplitOverlap(b, c)
      BY <1>1, <1>2, <1>4
    <3>2. QED
      BY <1>3, <3>1, OverlapGrows, OverlapIsNat
  <2>2. QED
    BY <2>1
<1>6. SumFunctionOnSet(f, S) \in Nat /\ SumFunctionOnSet(g, S) \in Nat /\ SumFunctionOnSet(f, S) <= SumFunctionOnSet(g, S)
  BY <1>2, <1>5, SumNat, SumLeq
<1>7. OverlapWithOthers(n, i, a) = SumFunctionOnSet(f, S) /\ OverlapWithOthers(n, i, b) = SumFunctionOnSet(g, S)
  BY <1>1, <1>4 DEF OverlapWithOthers
<1>8. OverlapIncrease(n, i, r) = SumFunctionOnSet(g, S) - SumFunctionOnSet(f, S)
  BY <1>3, <1>7 DEF OverlapIncrease
<1>9. QED
  BY <1>3, <1>6, <1>7, <1>8

\* The children of the node an object is at, and the object.
LEMMA TheChildren ==
  ASSUME IInv, NowTight, Inside(objects), Descending
  PROVE  /\ iter \in DOMAIN tree_nodes /\ ~tree_nodes[iter].leaf /\ objects[rec] \in RectT
         /\ \A i \in DOMAIN Entries(iter) : Child(iter, i) \in RectT /\ Upright(Child(iter, i))
         /\ \A i \in DOMAIN Entries(iter) : Len(Entries(Entries(iter)[i])) \in 0..maximum_entry
<1>1. /\ iter \in DOMAIN tree_nodes /\ ~tree_nodes[iter].leaf /\ objects[rec] \in RectT /\ pc = "insert"
  BY TheTree, TheObject DEF Descending, Inserting
<1>2. ASSUME NEW i \in DOMAIN Entries(iter)
      PROVE  /\ Child(iter, i) \in RectT /\ Upright(Child(iter, i))
             /\ Len(Entries(Entries(iter)[i])) \in 0..maximum_entry
  <2>1. PICK m : m = Entries(iter)[i]
    OBVIOUS
  <2>2. m \in DOMAIN tree_nodes /\ m \in Kids(tree_nodes, iter) /\ Child(iter, i) \in RectT
    BY <1>1, <2>1, Children
  <2>3. m # root
    <3>1. tree_nodes[m].father = iter /\ DOMAIN tree_nodes \subseteq Nat /\ tree_nodes[root].father = -1
      BY <1>1, <2>2, TheTree DEF Whole, Skeleton
    <3>2. iter # -1
      BY <1>1, <3>1
    <3>3. QED
      BY <3>1, <3>2
  <2>4. Len(tree_nodes[m].kids) \in Nat /\ Len(tree_nodes[m].kids) >= minimum_entry /\ minimum_entry \in Nat /\ minimum_entry >= 2
    BY <2>2, <2>3, TheTree DEF Whole, Roomy
  <2>5. tree_nodes[m].kids # <<>>
    <3>1. Len(tree_nodes[m].kids) # 0
      BY <2>4
    <3>2. QED
      BY <3>1
  <2>6. Upright(Child(iter, i))
    BY <2>1, <2>2, <2>5, BoxesUpright DEF Child
  <2>7. Len(tree_nodes[m].kids) <= maximum_entry
    BY <1>1, <2>2, AllCalm DEF Splittings
  <2>8. QED
    BY <2>1, <2>2, <2>4, <2>6, <2>7, TheTree DEF Entries
<1>3. QED
  BY <1>1, <1>2

\* Features are not negative, and the last is at most maximum_entry.
FeaturesT == {f \in [1..7 -> Nat] : f[7] <= maximum_entry}

\* So the row of a child is one whose columns the bounds hold.
LEMMA InsertFeaturesAre ==
  ASSUME IInv, NowTight, Inside(objects), Descending, NEW i \in DOMAIN Entries(iter)
  PROVE  InsertFeatures(iter, i, objects[rec]) \in FeaturesT
<1>1. PICK r \in RectT, box \in RectT : r = objects[rec] /\ box = Child(iter, i) /\ Upright(box)
  BY TheChildren
<1>2. PICK n : n = Len(Entries(Entries(iter)[i])) /\ n \in Nat /\ n <= maximum_entry
  BY TheChildren, TheTree
<1>3. /\ Area(box) \in Nat /\ Perimeter(box) \in Nat /\ AreaIncrease(box, r) \in Nat /\ PerimeterIncrease(box, r) \in Nat
  BY <1>1, Growths
<1>4. PICK o \in Nat, p \in Nat : o = OverlapWithOthers(iter, i, box) /\ p = OverlapIncrease(iter, i, r)
  BY <1>1, TheChildren, OthersOverlap
<1>5. InsertFeatures(iter, i, objects[rec])
      = <<Area(box), Perimeter(box), o, AreaIncrease(box, r), PerimeterIncrease(box, r), p, n>>
  BY <1>1, <1>2, <1>4 DEF InsertFeatures
<1>6. QED
  BY <1>2, <1>3, <1>4, <1>5 DEF FeaturesT

\* Features are scaled by the largest of their column, or by maximum_entry.
LEMMA MaxFractions ==
  ASSUME maximum_entry \in Nat, NEW N \in Nat \ {0}, NEW rows, DOMAIN rows = 1..N,
         \A i \in 1..N : rows[i] \in FeaturesT
  PROVE  Fractions(ScaledByMax(rows))
<1>1. PICK s : s = ScaledByMax(rows)
  OBVIOUS
<1>2. /\ s.rows = rows /\ \A c \in 1..7 : s.lo[c] = 0
      /\ s.hi[7] = maximum_entry /\ \A c \in 1..6 : s.hi[c] = Max(Column(rows, {c}) \cup {0})
  BY <1>1 DEF ScaledByMax
<1>3. ASSUME NEW i \in 1..N PROVE rows[i] \in Tuples(7) /\ rows[i] \in [1..7 -> Nat] /\ DOMAIN rows[i] = 1..7
  <2>1. PICK g : g = rows[i] /\ g \in [1..7 -> Nat]
    BY DEF FeaturesT
  <2>2. g \in Tuples(7) /\ DOMAIN g = 1..7
    BY <2>1 DEF Tuples
  <2>3. QED
    BY <2>1, <2>2
<1>4. ASSUME NEW i \in 1..N, NEW c \in 1..7 PROVE s.lo[c] <= rows[i][c] /\ rows[i][c] <= s.hi[c]
  <2>1. rows[i][c] \in Nat
    BY <1>3
  <2>2. CASE c = 7
    <3>1. rows[i][7] <= maximum_entry
      BY DEF FeaturesT
    <3>2. s.lo[7] = 0 /\ s.hi[7] = maximum_entry
      BY <1>2
    <3>3. QED
      BY <2>1, <2>2, <3>1, <3>2
  <2>3. CASE c # 7
    <3>1. {c} \subseteq 1..7 /\ {c} # {} /\ c \in {c} /\ c \in 1..6
      BY <2>3
    <3>2. PICK D : D = Column(rows, {c})
      OBVIOUS
    <3>3. D \subseteq Int /\ IsFiniteSet(D) /\ rows[i][c] \in D
      <4>1. 7 \in Nat /\ \A j \in 1..N : rows[j] \in Tuples(7)
        BY <1>3
      <4>2. QED
        BY <3>1, <3>2, <4>1, ColumnIs
    <3>4. PICK C : C = D \cup {0}
      OBVIOUS
    <3>5. C \subseteq Int /\ C # {} /\ IsFiniteSet(C) /\ rows[i][c] \in C
      <4>1. IsFiniteSet({0})
        BY FS_Singleton
      <4>2. IsFiniteSet(C)
        BY <3>3, <3>4, <4>1, FS_Union
      <4>3. QED
        BY <3>3, <3>4, <4>2
    <3>7. rows[i][c] <= Max(C)
      BY <3>5, ExtremeOf
    <3>8. s.lo[c] = 0
      BY <1>2
    <3>9. s.hi[c] = Max(C)
      <4>1. s.hi[c] = Max(Column(rows, {c}) \cup {0})
        BY <1>2, <3>1
      <4>2. QED
        BY <3>2, <3>4, <4>1
    <3>10. QED
      BY <2>1, <3>7, <3>8, <3>9
  <2>4. QED
    BY <2>2, <2>3
<1>5. QED
  BY <1>1, <1>2, <1>3, <1>4 DEF Fractions

\* Some of the columns are scaled as they are.
LEMMA OnlyFractions ==
  ASSUME maximum_entry \in Nat, NEW N \in Nat \ {0}, NEW rows, DOMAIN rows = 1..N,
         \A i \in 1..N : rows[i] \in FeaturesT, NEW cs, \A c \in DOMAIN cs : cs[c] \in 1..7
  PROVE  Fractions(Only(ScaledByMax(rows), cs))
<1>1. PICK s : s = ScaledByMax(rows)
  OBVIOUS
<1>2. s.rows = rows /\ Fractions(s)
  BY <1>1, MaxFractions DEF ScaledByMax
<1>3. \A i \in 1..N, c \in 1..7 : s.lo[c] <= rows[i][c] /\ rows[i][c] <= s.hi[c]
  BY <1>2 DEF Fractions, FeaturesT
<1>4. PICK t : t = Only(s, cs)
  OBVIOUS
<1>5. /\ t.rows = [i \in 1..N |-> [c \in DOMAIN cs |-> rows[i][cs[c]]]]
      /\ \A c \in DOMAIN cs : t.lo[c] = s.lo[cs[c]] /\ t.hi[c] = s.hi[cs[c]]
  BY <1>2, <1>4 DEF Only
<1>6. Fractions(t)
  BY <1>3, <1>5 DEF Fractions
<1>7. QED
  BY <1>1, <1>4, <1>6

\* The row of the rows that fill the state up.
LEMMA RowIsOfChild ==
  ASSUME IInv, Descending, NEW i \in 1..maximum_entry
  PROVE  LET k == Len(Entries(iter))
         IN  (IF i <= k THEN i ELSE ((i - 1 - k) % k) + 1) \in DOMAIN Entries(iter)
<1>1. PICK k \in Nat : k = Len(Entries(iter)) /\ k >= 2 /\ DOMAIN Entries(iter) = 1..k
  BY TheTree, Children DEF Descending
<1>2. maximum_entry \in Nat
  BY TheTree
<1>3. CASE i <= k
  BY <1>1, <1>2, <1>3
<1>4. CASE ~(i <= k)
  <2>1. i - 1 - k \in Nat /\ k > 0
    BY <1>1, <1>2, <1>4
  <2>2. ((i - 1 - k) % k) + 1 \in 1..k
    BY <2>1, InModulo
  <2>3. QED
    BY <1>1, <1>4, <2>2
<1>5. QED
  BY <1>3, <1>4

\* Every state of the children consists of fractions.
LEMMA ChildrenScaled ==
  ASSUME IInv, NowTight, Inside(objects)
  PROVE  ChildrenAreFractions
<1> SUFFICES ASSUME Descending
             PROVE  \A s \in {GetInsertStates7(iter, objects[rec]), GetInsertStates7Fill0(iter, objects[rec]),
                              GetInsertStates6(iter, objects[rec]), GetInsertStates4(iter, objects[rec]),
                              GetInsertStates3(iter, objects[rec])} : Fractions(s)
  BY DEF ChildrenAreFractions
<1>1. maximum_entry \in Nat /\ maximum_entry \in Nat \ {0}
  BY FanOutsOf DEF FanOuts, IInv
<1>2. PICK k : k = Len(Entries(iter))
  OBVIOUS
<1>3. PICK at : at = [i \in 1..maximum_entry |-> IF i <= k THEN i ELSE ((i - 1 - k) % k) + 1]
  OBVIOUS
<1>4. PICK rows : rows = [i \in 1..maximum_entry |-> InsertFeatures(iter, at[i], objects[rec])]
  OBVIOUS
<1>5. \A i \in 1..maximum_entry : at[i] \in DOMAIN Entries(iter)
  BY <1>2, <1>3, RowIsOfChild
<1>6. DOMAIN rows = 1..maximum_entry /\ \A i \in 1..maximum_entry : rows[i] \in FeaturesT
  BY <1>4, <1>5, InsertFeaturesAre
<1>7. GetInsertStates7(iter, objects[rec]) = ScaledByMax(rows)
  <2>1. rows = [i \in 1..maximum_entry |->
                   InsertFeatures(iter, IF i <= k THEN i ELSE ((i - 1 - k) % k) + 1, objects[rec])]
    BY <1>3, <1>4
  <2>2. QED
    BY <1>2, <2>1 DEF GetInsertStates7
<1>8. Fractions(GetInsertStates7(iter, objects[rec]))
  BY <1>1, <1>6, <1>7, MaxFractions
<1>9. ASSUME NEW cs, \A c \in DOMAIN cs : cs[c] \in 1..7 PROVE Fractions(Only(GetInsertStates7(iter, objects[rec]), cs))
  BY <1>1, <1>6, <1>7, <1>9, OnlyFractions
<1>10. /\ Fractions(GetInsertStates6(iter, objects[rec])) /\ Fractions(GetInsertStates4(iter, objects[rec]))
       /\ Fractions(GetInsertStates3(iter, objects[rec]))
  <2>1. PICK a, b, c : a = <<1, 2, 3, 4, 5, 6>> /\ b = <<4, 5, 6, 7>> /\ c = <<4, 5, 6>>
    OBVIOUS
  <2>2. \A cs \in {a, b, c} : \A j \in DOMAIN cs : cs[j] \in 1..7
    BY <2>1
  <2>3. QED
    BY <1>9, <2>1, <2>2 DEF GetInsertStates6, GetInsertStates4, GetInsertStates3
<1>11. Fractions(GetInsertStates7Fill0(iter, objects[rec]))
  <2>1. PICK zeros : zeros = [i \in 1..maximum_entry |->
            IF i <= Len(Entries(iter)) THEN InsertFeatures(iter, i, objects[rec]) ELSE [c \in 1..7 |-> 0]]
    OBVIOUS
  <2>2. [c \in 1..7 |-> 0] \in FeaturesT
    BY <1>1 DEF FeaturesT
  <2>3. ASSUME NEW i \in 1..maximum_entry PROVE zeros[i] \in FeaturesT
    <3>1. CASE i <= Len(Entries(iter))
      <4>1. i \in DOMAIN Entries(iter)
        BY <1>1, <3>1, TheTree, Children DEF Descending
      <4>2. QED
        BY <2>1, <3>1, <4>1, InsertFeaturesAre
    <3>2. CASE ~(i <= Len(Entries(iter)))
      BY <2>1, <2>2, <3>2
    <3>3. QED
      BY <3>1, <3>2
  <2>4. GetInsertStates7Fill0(iter, objects[rec]) = ScaledByMax(zeros) /\ DOMAIN zeros = 1..maximum_entry
    BY <2>1 DEF GetInsertStates7Fill0
  <2>5. QED
    BY <1>1, <2>3, <2>4, MaxFractions
<1>12. QED
  BY <1>8, <1>10, <1>11

\* Wrapping around once or until it fits is the same.
LEMMA WrapsAround ==
  ASSUME NEW loc \in Nat, NEW k \in Nat, k > 0
  PROVE  /\ loc < k => loc % k = loc
         /\ loc >= k => (loc - k) % k = loc % k
<1>1. PICK q \in Nat, m \in 0..k - 1 : loc = k * q + m /\ m = loc % k
  BY Quotient
<1>2. ASSUME loc < k PROVE loc % k = loc
  <2>1. CASE q = 0
    BY <1>1, <2>1
  <2>2. CASE q # 0
    <3>1. k * q = k + k * (q - 1) /\ k * (q - 1) \in Nat
      <4>1. q - 1 \in Nat
        BY <2>2
      <4>2. QED
        BY <4>1
    <3>2. QED
      BY <1>1, <1>2, <3>1
  <2>3. QED
    BY <2>1, <2>2
<1>3. ASSUME loc >= k PROVE (loc - k) % k = loc % k
  <2>1. loc - k \in Nat
    BY <1>3
  <2>2. PICK p \in Nat, l \in 0..k - 1 : loc - k = k * p + l /\ l = (loc - k) % k
    BY <2>1, Quotient
  <2>3. loc = k * (p + 1) + l
    BY <2>2
  <2>4. PICK d \in Int : d = q - (p + 1)
    OBVIOUS
  <2>5. k * d = l - m
    <3>1. k * d = k * q - k * (p + 1)
      BY <2>4
    <3>2. k * q \in Int /\ k * (p + 1) \in Int
      OBVIOUS
    <3>3. QED
      BY <1>1, <2>3, <3>1, <3>2
  <2>6. d = 0
    <3>1. CASE d >= 1
      <4>1. k * d = k + k * (d - 1) /\ k * (d - 1) \in Nat
        <5>1. d - 1 \in Nat
          BY <3>1
        <5>2. QED
          BY <5>1
      <4>2. QED
        BY <2>5, <4>1
    <3>2. CASE d <= -1
      <4>1. k * d = -k - k * (-d - 1) /\ k * (-d - 1) \in Nat
        <5>1. -d - 1 \in Nat
          BY <3>2
        <5>2. QED
          BY <5>1
      <4>2. QED
        BY <2>5, <4>1
    <3>3. QED
      BY <3>1, <3>2
  <2>7. l = m
    BY <2>5, <2>6
  <2>8. QED
    BY <1>1, <2>2, <2>7
<1>4. QED
  BY <1>2, <1>3

\* A row describes the child that the policy gets for its number.
LEMMA RowsLeadToChildren ==
  ASSUME IInv
  PROVE  RowLeadsToChild
<1> SUFFICES ASSUME Descending, NEW loc \in 0..maximum_entry - 1
             PROVE  LET i == CHOOSE j \in DOMAIN Entries(iter) : Entries(iter)[j] = LocChild(iter, loc)
                    IN  GetInsertStates7(iter, objects[rec]).rows[loc + 1] = InsertFeatures(iter, i, objects[rec])
  BY DEF RowLeadsToChild
<1>1. PICK e, k : /\ e = Entries(iter) /\ k = Len(e) /\ k \in Nat /\ k >= 2 /\ DOMAIN e = 1..k /\ Injective(e)
  <2>1. iter \in DOMAIN tree_nodes /\ ~tree_nodes[iter].leaf
    BY TheTree DEF Descending
  <2>2. QED
    BY <2>1, Children DEF Ids
<1>2. maximum_entry \in Nat /\ loc \in Nat /\ loc + 1 \in 1..maximum_entry
  BY TheTree
<1>3. PICK p : p = (loc % k) + 1 /\ p \in 1..k
  BY <1>1, <1>2, InModulo
<1>4. LocChild(iter, loc) = e[p]
  BY <1>1, <1>3 DEF LocChild
<1>5. (CHOOSE j \in DOMAIN Entries(iter) : Entries(iter)[j] = LocChild(iter, loc)) = p
  <2>1. \A j \in DOMAIN e : e[j] = e[p] => j = p
    BY <1>1, <1>3 DEF Injective
  <2>2. (CHOOSE j \in DOMAIN e : e[j] = e[p]) = p
    BY <1>1, <1>3, <2>1
  <2>3. QED
    BY <1>1, <1>4, <2>2
<1>6. (IF loc + 1 <= k THEN loc + 1 ELSE ((loc + 1 - 1 - k) % k) + 1) = p
  <2>1. CASE loc + 1 <= k
    <3>1. loc < k /\ k > 0
      BY <1>1, <1>2, <2>1
    <3>2. loc % k = loc
      BY ONLY <1>1, <1>2, <3>1, WrapsAround, Zenon
    <3>3. QED
      BY <1>3, <2>1, <3>2
  <2>2. CASE ~(loc + 1 <= k)
    <3>1. loc >= k /\ k > 0 /\ loc + 1 - 1 - k = loc - k
      BY <1>1, <1>2, <2>2
    <3>2. (loc - k) % k = loc % k
      BY <1>1, <1>2, <3>1, WrapsAround
    <3>3. (loc + 1 - 1 - k) % k = loc % k
      BY ONLY <3>1, <3>2, Zenon
    <3>4. QED
      BY ONLY <1>3, <2>2, <3>3, Zenon
  <2>3. QED
    BY <2>1, <2>2
<1>7. GetInsertStates7(iter, objects[rec]).rows[loc + 1]
      = InsertFeatures(iter, IF loc + 1 <= k THEN loc + 1 ELSE ((loc + 1 - 1 - k) % k) + 1, objects[rec])
  BY <1>1, <1>2 DEF GetInsertStates7, ScaledByMax
<1>8. QED
  BY <1>5, <1>6, <1>7

\* The sorted children are still those of the node, and a row describes the
\* one that the policy gets for its number.
LEMMA SortedRowsLeadToChildren ==
  ASSUME IInv, AsListed
  PROVE  SortedRowLeadsToChild
<1> SUFFICES ASSUME tmp_sorted_children # <<>>
             PROVE  /\ Descending /\ ASet(tmp_sorted_children) = ASet(Entries(iter))
                    /\ \A topk \in 1..maximum_entry, loc \in 0..maximum_entry - 1 : loc < topk =>
                        LET box == tree_nodes[tmp_sorted_children[(loc % Len(tmp_sorted_children)) + 1]].box
                            row(t) == GetSortedInsertStates(iter, objects[rec], topk, t).rows[loc + 1]
                        IN  /\ row("RL_FOR_CONTAINING_CHILDREN")[1] = Area(box)
                            /\ row("RL_FOR_ENLARGED_CHILDREN")[1] = Area(Merge(box, objects[rec])) - Area(box)
  BY Zenon DEF SortedRowLeadsToChild
<1>1. PICK s, e, r : s = tmp_sorted_children /\ e = Entries(iter) /\ r = objects[rec]
  OBVIOUS
<1>2. Descending /\ s \in Seq(Nat) /\ ASet(s) = ASet(e) /\ s # <<>>
  BY <1>1 DEF IInv, SortedOK, AsListed, Descending, Kids, Entries
<1>3. PICK k : k = Len(s) /\ k \in Nat /\ k > 0 /\ DOMAIN s = 1..k
  BY <1>2
<1>4. ASSUME NEW topk \in 1..maximum_entry, NEW loc \in 0..maximum_entry - 1, loc < topk
      PROVE  LET box == tree_nodes[s[(loc % k) + 1]].box
                 row(t) == GetSortedInsertStates(iter, r, topk, t).rows[loc + 1]
             IN  /\ row("RL_FOR_CONTAINING_CHILDREN")[1] = Area(box)
                 /\ row("RL_FOR_ENLARGED_CHILDREN")[1] = Area(Merge(box, r)) - Area(box)
  <2> DEFINE at(i) == CHOOSE j \in DOMAIN e : e[j] = s[i]
             f(i) == InsertFeatures(iter, at(i), r)
  <2>1. loc \in Nat /\ loc + 1 \in 1..topk /\ maximum_entry \in Nat /\ topk \in Nat
    BY <1>4, TheTree
  <2>2. PICK p : p = (loc % k) + 1 /\ p \in 1..k
    BY <1>3, <2>1, InModulo
  <2>3. (IF loc + 1 <= k THEN loc + 1 ELSE ((loc + 1 - 1) % k) + 1) = p
    <3>1. CASE loc + 1 <= k
      <4>1. loc < k
        BY <1>3, <2>1, <3>1
      <4>2. loc % k = loc
        BY ONLY <1>3, <2>1, <4>1, WrapsAround, Zenon
      <4>3. QED
        BY <2>2, <3>1, <4>2
    <3>2. CASE ~(loc + 1 <= k)
      <4>1. loc + 1 - 1 = loc
        BY <2>1
      <4>2. QED
        BY ONLY <2>2, <3>2, <4>1, Zenon
    <3>3. QED
      BY <3>1, <3>2
  <2>4. PICK j : j = at(p) /\ j \in DOMAIN e /\ e[j] = s[p]
    <3>1. s[p] \in ASet(e)
      BY <1>2, <1>3, <2>2 DEF ASet
    <3>2. \E j \in DOMAIN e : e[j] = s[p]
      BY <3>1 DEF ASet
    <3>3. QED
      BY <3>2
  <2>5. PICK box : box = tree_nodes[s[p]].box /\ box = Child(iter, j)
    BY <1>1, <2>4 DEF Child
  <2>6. f(p)[1] = Area(box) /\ f(p)[4] = Area(Merge(box, r)) - Area(box)
    BY <2>4, <2>5 DEF InsertFeatures, AreaIncrease
  <2> DEFINE of(t, i) == IF t = "RL_FOR_CONTAINING_CHILDREN" THEN <<f(i)[1], f(i)[2], f(i)[3], f(i)[7]>>
                         ELSE <<f(i)[4], f(i)[5], f(i)[6], f(i)[7]>>
  <2>7. ASSUME NEW t PROVE GetSortedInsertStates(iter, r, topk, t).rows[loc + 1] = of(t, p)
    <3>1. GetSortedInsertStates(iter, r, topk, t).rows
          = [i \in 1..topk |-> of(t, IF i <= k THEN i ELSE ((i - 1) % k) + 1)]
      BY <1>1, <1>3 DEF GetSortedInsertStates
    <3> HIDE DEF of
    <3>2. GetSortedInsertStates(iter, r, topk, t).rows[loc + 1]
          = of(t, IF loc + 1 <= k THEN loc + 1 ELSE ((loc + 1 - 1) % k) + 1)
      BY <2>1, <3>1
    <3>3. QED
      BY <2>3, <3>2
  <2> HIDE DEF f
  <2>8. /\ of("RL_FOR_CONTAINING_CHILDREN", p)[1] = f(p)[1]
        /\ of("RL_FOR_ENLARGED_CHILDREN", p)[1] = f(p)[4]
    OBVIOUS
  <2> HIDE DEF of
  <2>9. QED
    BY <2>2, <2>5, <2>6, <2>7, <2>8
<1>5. QED
  BY <1>1, <1>2, <1>3, <1>4

\* The least of the scored positions is at a position with the least score.
LEMMA LeastBegins ==
  ASSUME NEW I, IsFiniteSet(I), I # {}, NEW n \in Nat \ {0}, NEW f, NEW S, ScoresOf(S, f, I, n)
  PROVE  Least(S)[n] \in I /\ \A i \in I : f[Least(S)[n]][1] <= f[i][1]
<1>1. S = {f[i] : i \in I} /\ \A i \in I : f[i] \in Tuples(n) /\ f[i][n] = i
  BY DEF ScoresOf
<1>2. S \subseteq Tuples(n) /\ S # {}
  BY <1>1
<1>3. IsFiniteSet(S)
  BY <1>1, FiniteImage
<1>4. PICK v : v = Least(S) /\ v \in S /\ \A w \in S : v = w \/ Less(v, w)
  BY <1>2, <1>3, LeastOf
<1>5. PICK i \in I : v = f[i] /\ v[n] = i
  BY <1>1, <1>4
<1>6. ASSUME NEW j \in I PROVE f[i][1] <= f[j][1]
  <2>1. f[i] \in Tuples(n) /\ f[j] \in Tuples(n) /\ (f[i] = f[j] \/ Less(f[i], f[j]))
    BY <1>1, <1>4, <1>5
  <2>2. QED
    BY <2>1, LessBegins
<1>7. QED
  BY <1>4, <1>5, <1>6

\* The first of the least scores.
LEMMA FirstLeastIs ==
  ASSUME NEW score, IsFiniteSet(DOMAIN score), DOMAIN score # {}, DOMAIN score \subseteq Nat,
         \A i \in DOMAIN score : score[i] \in Int
  PROVE  /\ FirstLeast(score) \in Int /\ FirstLeast(score) + 1 \in DOMAIN score
         /\ \A i \in DOMAIN score : score[FirstLeast(score) + 1] <= score[i]
<1>1. PICK I : I = DOMAIN score
  OBVIOUS
<1>2. PICK f : f = [i \in I |-> <<score[i], i>>]
  OBVIOUS
<1>3. PICK S : S = {<<score[i], i>> : i \in DOMAIN score}
  OBVIOUS
<1>4. ScoresOf(S, f, I, 2)
  <2>1. S = {f[i] : i \in I}
    BY <1>1, <1>2, <1>3
  <2>2. ASSUME NEW i \in I PROVE f[i] \in Tuples(2) /\ f[i][2] = i
    <3>1. score[i] \in Int /\ i \in Int /\ f[i] = <<score[i], i>>
      BY <1>1, <1>2
    <3>2. QED
      BY <3>1 DEF Tuples
  <2>3. QED
    BY <2>1, <2>2 DEF ScoresOf
<1>5. PICK p : p = Least(S)[2] /\ p \in I /\ \A i \in I : f[p][1] <= f[i][1]
  <2>1. 2 \in Nat \ {0}
    OBVIOUS
  <2>2. QED
    BY <1>1, <1>4, <2>1, LeastBegins
<1>6. FirstLeast(score) = p - 1 /\ p \in Nat
  BY <1>1, <1>3, <1>5 DEF FirstLeast
<1>7. \A i \in I : score[p] <= score[i]
  BY <1>2, <1>5
<1>8. FirstLeast(score) + 1 = p
  BY <1>6
<1>9. QED
  BY <1>1, <1>5, <1>6, <1>7, <1>8

\* The greedy choices: none contains the object only if all must grow, and
\* the default strategies choose a child that grows as little as theirs.
LEMMA GreedyAgree ==
  ASSUME IInv, NowTight, Inside(objects)
  PROVE  GreedyChoicesAgree
<1> SUFFICES ASSUME Descending
             PROVE  LET r == objects[rec]
                        least(n, i) == AreaIncrease(Child(n, i + 1), r)
                        within == GetMinAreaContainingChild(iter, r)
                    IN  /\ within = -1 <=> GetNumberOfEnlargedChildren(iter, r) = Len(Entries(iter))
                        /\ within >= 0 => /\ Contains(Child(iter, within + 1), r)
                                          /\ least(iter, GetMinAreaEnlargementChild(iter, r)) = 0
                        /\ \A i \in Chosen("INS_AREA", iter, r) :
                               least(iter, i - 1) = least(iter, GetMinAreaEnlargementChild(iter, r))
                        /\ \A i \in Chosen("INS_MARGIN", iter, r) :
                               PerimeterIncrease(Child(iter, i), r)
                               = PerimeterIncrease(Child(iter, GetMinMarginIncrementChild(iter, r) + 1), r)
                        /\ \A i \in Chosen("INS_OVERLAP", iter, r) :
                               OverlapIncrease(iter, i, r)
                               = OverlapIncrease(iter, GetMinOverlapIncrementChild(iter, r) + 1, r)
  BY Zenon DEF GreedyChoicesAgree
<1>1. PICK r \in RectT : r = objects[rec]
  BY TheChildren
<1>2. PICK I : I = DOMAIN Entries(iter)
  OBVIOUS
<1>3. /\ iter \in DOMAIN tree_nodes /\ ~tree_nodes[iter].leaf /\ IsFiniteSet(I) /\ I # {} /\ I \subseteq Nat \ {0}
      /\ Len(Entries(iter)) \in Nat /\ I = 1..Len(Entries(iter))
      /\ \A i \in I : Child(iter, i) \in RectT /\ Upright(Child(iter, i))
  <2>1. iter \in DOMAIN tree_nodes /\ ~tree_nodes[iter].leaf
    BY TheChildren
  <2>2. I = 1..Len(Entries(iter)) /\ Len(Entries(iter)) \in Nat /\ Len(Entries(iter)) >= 2 /\ IsFiniteSet(I)
    BY <1>2, <2>1, Children
  <2>3. \A i \in I : Child(iter, i) \in RectT /\ Upright(Child(iter, i))
    BY <1>2, TheChildren
  <2>4. QED
    BY <2>1, <2>2, <2>3
<1>4. PICK area, grow, margin, over :
        /\ area = [i \in I |-> Area(Child(iter, i))]
        /\ grow = [i \in I |-> AreaIncrease(Child(iter, i), r)]
        /\ margin = [i \in I |-> PerimeterIncrease(Child(iter, i), r)]
        /\ over = [i \in I |-> OverlapIncrease(iter, i, r)]
  OBVIOUS
<1>5. ASSUME NEW i \in I
      PROVE  /\ area[i] \in Nat /\ grow[i] \in Nat /\ margin[i] \in Nat /\ over[i] \in Nat
             /\ Contains(Child(iter, i), r) => grow[i] = 0
  <2>1. over[i] \in Nat
    BY <1>2, <1>3, <1>4, OthersOverlap
  <2>2. PICK a \in RectT : a = Child(iter, i) /\ Upright(a)
    BY <1>3
  <2>3. /\ Area(a) \in Nat /\ AreaIncrease(a, r) \in Nat /\ PerimeterIncrease(a, r) \in Nat
        /\ Contains(a, r) => AreaIncrease(a, r) = 0
    BY <2>2, Growths
  <2>4. QED
    BY <1>4, <2>1, <2>2, <2>3
<1>6. ASSUME NEW score, DOMAIN score = I, \A i \in I : score[i] \in Nat
      PROVE  /\ FirstLeast(score) \in Int /\ FirstLeast(score) + 1 \in I
             /\ \A i \in I : score[FirstLeast(score) + 1] <= score[i]
  <2>1. \A i \in I : score[i] \in Int
    BY <1>6
  <2>2. QED
    BY <1>3, <1>6, <2>1, FirstLeastIs
<1>7. PICK ag, mg, og : /\ ag = GetMinAreaEnlargementChild(iter, r) /\ mg = GetMinMarginIncrementChild(iter, r)
                        /\ og = GetMinOverlapIncrementChild(iter, r)
  OBVIOUS
<1>8. /\ ag \in Int /\ ag + 1 \in I /\ \A i \in I : grow[ag + 1] <= grow[i]
      /\ mg \in Int /\ mg + 1 \in I /\ \A i \in I : margin[mg + 1] <= margin[i]
      /\ og \in Int /\ og + 1 \in I /\ \A i \in I : over[og + 1] <= over[i]
  <2>1. ag = FirstLeast(grow)
    BY <1>2, <1>4, <1>7 DEF GetMinAreaEnlargementChild
  <2>2. mg = FirstLeast(margin)
    BY <1>2, <1>4, <1>7 DEF GetMinMarginIncrementChild
  <2>3. og = FirstLeast(over)
    BY <1>2, <1>4, <1>7 DEF GetMinOverlapIncrementChild
  <2>4. DOMAIN grow = I /\ DOMAIN margin = I /\ DOMAIN over = I
    BY <1>4
  <2>5. ag \in Int /\ ag + 1 \in I /\ \A i \in I : grow[ag + 1] <= grow[i]
    BY <1>5, <1>6, <2>1, <2>4
  <2>6. mg \in Int /\ mg + 1 \in I /\ \A i \in I : margin[mg + 1] <= margin[i]
    BY <1>5, <1>6, <2>2, <2>4
  <2>7. og \in Int /\ og + 1 \in I /\ \A i \in I : over[og + 1] <= over[i]
    BY <1>5, <1>6, <2>3, <2>4
  <2>8. QED
    BY <2>5, <2>6, <2>7
<1>9. \A i \in Chosen("INS_AREA", iter, r) : i \in I /\ grow[i] = grow[ag + 1]
  <2>1. PICK S : S = {<<grow[i], area[i], i>> : i \in I}
    OBVIOUS
  <2>2. S = {<<AreaIncrease(Child(iter, i), r), Area(Child(iter, i)), i>> : i \in DOMAIN Entries(iter)}
    BY <1>2, <1>4, <2>1
  <2>3. Chosen("INS_AREA", iter, r) = {Least(S)[3]}
    BY <2>2 DEF Chosen
  <2>4. Least(S)[3] \in I /\ \A j \in I : grow[Least(S)[3]] <= grow[j]
    <3>1. PICK f : f = [i \in I |-> <<grow[i], area[i], i>>]
      OBVIOUS
    <3>2. S = {f[i] : i \in I}
      BY <2>1, <3>1
    <3>3. ASSUME NEW i \in I PROVE f[i] \in Tuples(3) /\ f[i][3] = i /\ f[i][1] = grow[i]
      <4>1. grow[i] \in Int /\ area[i] \in Int /\ i \in Int
        BY <1>3, <1>5
      <4>2. f[i] = <<grow[i], area[i], i>>
        BY <3>1
      <4>3. QED
        BY <4>1, <4>2, TripleIsTuple
    <3>4. ScoresOf(S, f, I, 3) /\ 3 \in Nat \ {0}
      BY <3>2, <3>3 DEF ScoresOf
    <3>5. Least(S)[3] \in I /\ \A j \in I : f[Least(S)[3]][1] <= f[j][1]
      BY <1>3, <3>4, LeastBegins
    <3>6. QED
      BY <3>3, <3>5
  <2>5. QED
    BY <1>5, <1>8, <2>3, <2>4
<1>10. \A i \in Chosen("INS_MARGIN", iter, r) : i \in I /\ margin[i] = margin[mg + 1]
  <2>1. PICK S : S = {<<margin[i], area[i], i>> : i \in I}
    OBVIOUS
  <2>2. S = {<<PerimeterIncrease(Child(iter, i), r), Area(Child(iter, i)), i>> : i \in DOMAIN Entries(iter)}
    BY <1>2, <1>4, <2>1
  <2>3. Chosen("INS_MARGIN", iter, r) = {Least(S)[3]}
    BY <2>2 DEF Chosen
  <2>4. Least(S)[3] \in I /\ \A j \in I : margin[Least(S)[3]] <= margin[j]
    <3>1. PICK f : f = [i \in I |-> <<margin[i], area[i], i>>]
      OBVIOUS
    <3>2. S = {f[i] : i \in I}
      BY <2>1, <3>1
    <3>3. ASSUME NEW i \in I PROVE f[i] \in Tuples(3) /\ f[i][3] = i /\ f[i][1] = margin[i]
      <4>1. margin[i] \in Int /\ area[i] \in Int /\ i \in Int
        BY <1>3, <1>5
      <4>2. f[i] = <<margin[i], area[i], i>>
        BY <3>1
      <4>3. QED
        BY <4>1, <4>2, TripleIsTuple
    <3>4. ScoresOf(S, f, I, 3) /\ 3 \in Nat \ {0}
      BY <3>2, <3>3 DEF ScoresOf
    <3>5. Least(S)[3] \in I /\ \A j \in I : f[Least(S)[3]][1] <= f[j][1]
      BY <1>3, <3>4, LeastBegins
    <3>6. QED
      BY <3>3, <3>5
  <2>5. QED
    BY <1>5, <1>8, <2>3, <2>4
<1>11. \A i \in Chosen("INS_OVERLAP", iter, r) : i \in I /\ over[i] = over[og + 1]
  <2>1. PICK S : S = {<<over[i], grow[i], i>> : i \in I}
    OBVIOUS
  <2>2. S = {<<OverlapIncrease(iter, i, r), AreaIncrease(Child(iter, i), r), i>> : i \in DOMAIN Entries(iter)}
    BY <1>2, <1>4, <2>1
  <2>3. Chosen("INS_OVERLAP", iter, r) = {Least(S)[3]}
    BY <2>2 DEF Chosen
  <2>4. Least(S)[3] \in I /\ \A j \in I : over[Least(S)[3]] <= over[j]
    <3>1. PICK f : f = [i \in I |-> <<over[i], grow[i], i>>]
      OBVIOUS
    <3>2. S = {f[i] : i \in I}
      BY <2>1, <3>1
    <3>3. ASSUME NEW i \in I PROVE f[i] \in Tuples(3) /\ f[i][3] = i /\ f[i][1] = over[i]
      <4>1. over[i] \in Int /\ grow[i] \in Int /\ i \in Int
        BY <1>3, <1>5
      <4>2. f[i] = <<over[i], grow[i], i>>
        BY <3>1
      <4>3. QED
        BY <4>1, <4>2, TripleIsTuple
    <3>4. ScoresOf(S, f, I, 3) /\ 3 \in Nat \ {0}
      BY <3>2, <3>3 DEF ScoresOf
    <3>5. Least(S)[3] \in I /\ \A j \in I : f[Least(S)[3]][1] <= f[j][1]
      BY <1>3, <3>4, LeastBegins
    <3>6. QED
      BY <3>3, <3>5
  <2>5. QED
    BY <1>5, <1>8, <2>3, <2>4
<1>12. PICK within : within = GetMinAreaContainingChild(iter, r)
  OBVIOUS
<1>13. PICK W : W = {i \in I : Contains(Child(iter, i), r)}
  OBVIOUS
<1>14. \/ W = {} /\ within = -1
       \/ W # {} /\ within \in Nat /\ within + 1 \in W
  <2>1. CASE W = {}
    BY <1>2, <1>12, <1>13, <2>1 DEF GetMinAreaContainingChild
  <2>2. CASE W # {}
    <3>1. PICK score : score = [i \in W |-> Area(Child(iter, i))]
      OBVIOUS
    <3>2. within = FirstLeast(score)
      BY <1>2, <1>12, <1>13, <2>2, <3>1 DEF GetMinAreaContainingChild
    <3>3. IsFiniteSet(W) /\ W \subseteq I
      BY <1>3, <1>13, FS_Subset
    <3>4. DOMAIN score = W /\ W \subseteq Nat /\ \A i \in W : score[i] \in Int
      BY <1>3, <1>4, <1>5, <3>1, <3>3
    <3>5. within \in Int /\ within + 1 \in W
      BY <2>2, <3>2, <3>3, <3>4, FirstLeastIs
    <3>6. within + 1 \in Nat \ {0}
      BY <1>3, <3>3, <3>5
    <3>7. QED
      BY <2>2, <3>5, <3>6
  <2>3. QED
    BY <2>1, <2>2
<1>15. GetNumberOfEnlargedChildren(iter, r) = Len(Entries(iter)) <=> W = {}
  <2>1. PICK E : E = {i \in I : ~Contains(Child(iter, i), r)}
    OBVIOUS
  <2>2. E \subseteq I /\ (E = I <=> W = {})
    BY <1>13, <2>1
  <2>3. GetNumberOfEnlargedChildren(iter, r) = Cardinality(E) /\ Cardinality(I) = Len(Entries(iter))
    <3>1. Cardinality(1..Len(Entries(iter))) = Len(Entries(iter))
      <4>1. PICK k \in Nat : k = Len(Entries(iter))
        BY <1>3
      <4>2. Cardinality(1..k) = k
        BY FS_Interval
      <4>3. QED
        BY <4>1, <4>2
    <3>2. QED
      BY <1>2, <1>3, <2>1, <3>1 DEF GetNumberOfEnlargedChildren
  <2>4. Cardinality(E) = Cardinality(I) <=> E = I
    BY <1>3, <2>2, FS_Subset
  <2>5. QED
    BY <2>2, <2>3, <2>4
<1>16. within = -1 <=> GetNumberOfEnlargedChildren(iter, r) = Len(Entries(iter))
  BY <1>14, <1>15
<1>17. ASSUME within >= 0
       PROVE  Contains(Child(iter, within + 1), r) /\ AreaIncrease(Child(iter, ag + 1), r) = 0
  <2>1. within + 1 \in I /\ Contains(Child(iter, within + 1), r)
    BY <1>13, <1>14, <1>17
  <2>2. grow[ag + 1] = 0
    <3>1. grow[within + 1] = 0 /\ grow[ag + 1] <= grow[within + 1] /\ grow[ag + 1] \in Nat
      BY <1>5, <1>8, <2>1
    <3>2. QED
      BY <3>1
  <2>3. QED
    BY <1>4, <1>8, <2>1, <2>2
<1>18. \A i \in Chosen("INS_AREA", iter, r) : AreaIncrease(Child(iter, i - 1 + 1), r) = AreaIncrease(Child(iter, ag + 1), r)
  <2>1. ASSUME NEW i \in Chosen("INS_AREA", iter, r)
        PROVE  AreaIncrease(Child(iter, i - 1 + 1), r) = AreaIncrease(Child(iter, ag + 1), r)
    <3>1. i \in I /\ grow[i] = grow[ag + 1]
      BY <1>9
    <3>2. i - 1 + 1 = i
      BY <1>3, <3>1
    <3>3. QED
      BY <1>4, <1>8, <3>1, <3>2
  <2>2. QED
    BY <2>1
<1>19. \A i \in Chosen("INS_MARGIN", iter, r) :
          PerimeterIncrease(Child(iter, i), r) = PerimeterIncrease(Child(iter, mg + 1), r)
  BY <1>4, <1>8, <1>10
<1>20. \A i \in Chosen("INS_OVERLAP", iter, r) : OverlapIncrease(iter, i, r) = OverlapIncrease(iter, og + 1, r)
  BY <1>4, <1>8, <1>11
<1>21. QED
  BY <1>1, <1>7, <1>12, <1>16, <1>17, <1>18, <1>19, <1>20

\* What a policy is shown of the children is what it gets if it chooses one:
\* rows wrap around as the descent does, sorted children are still those of
\* the node at hand, and the greedy choices are those of the strategies.
THEOREM ChildrenShownAreChildren ==
  Spec => []ChildrenAsShown
<1>1. Init => IInv /\ BoxesOK /\ SpaceOK
  BY InitIInv, BoxesInit, SpaceInit
<1>2. (IInv /\ BoxesOK /\ SpaceOK) /\ [Next]_vars => (IInv /\ BoxesOK /\ SpaceOK)'
  BY NextKeeps, BoxesStep, SpaceStep
<1>3. IInv /\ BoxesOK /\ SpaceOK /\ AsListed => ChildrenAsShown
  BY RowsLeadToChildren, SortedRowsLeadToChildren, ChildrenScaled, GreedyAgree
  DEF ChildrenAsShown, BoxesOK, SpaceOK
<1>4. QED
  BY <1>1, <1>2, <1>3, AlwaysListed, PTL DEF Spec

-------------------------------------------------------------------------------
\* What a policy is told of the strategies.  Putting two boxes in order twice
\* is putting them in order.
LEMMA OrderedTwice ==
  ASSUME NEW a \in RectT, NEW b \in RectT
  PROVE  CheckOrder(CheckOrder(<<a, b>>)) = CheckOrder(<<a, b>>)
<1>1. PICK v, w \in Tuples(4) : v = SortedByLeft(a) /\ w = SortedByLeft(b)
  <2>1. \A r \in RectT : SortedByLeft(r) \in Tuples(4)
    BY RectFields DEF SortedByLeft, Tuples
  <2>2. QED
    BY <2>1
<1>2. ~(Less(v, w) /\ Less(w, v))
  <2>1. 4 \in Nat
    OBVIOUS
  <2>2. QED
    BY <2>1, LessStrict, LessTransitive
<1>3. PICK p, q : p = <<a, b>> /\ q = <<b, a>>
  OBVIOUS
<1>4. p[1] = a /\ p[2] = b /\ q[1] = b /\ q[2] = a
  BY <1>3
<1>5. CheckOrder(p) = IF Less(w, v) THEN q ELSE p
  BY <1>1, <1>3, <1>4, Zenon DEF CheckOrder
<1>6. CheckOrder(q) = IF Less(v, w) THEN p ELSE q
  BY <1>1, <1>3, <1>4, Zenon DEF CheckOrder
<1>7. QED
  BY <1>2, <1>3, <1>5, <1>6

\* If no pair differs from the first, all strategies whose pairs are exact
\* lead to the same two boxes.
LEMMA NoDifference ==
  ASSUME NEW rows, NEW boxes, \A i \in 1..5 : RowOf[i] # "SPL_MIN_MARGIN" => rows[i] = boxes[i],
         NEW a \in RectT, NEW b \in RectT, rows[1] = <<a, b>>
  PROVE  NothingToChoose(Differ(rows), boxes)
<1>1. PICK x : x = CheckOrder(rows[1]) /\ CheckOrder(x) = x
  BY OrderedTwice
<1>2. \A k \in 1..5 : RowOf[k] # "SPL_MIN_MARGIN" <=> k # 2
  BY DEF RowOf
<1>3. ASSUME ~Differ(rows), NEW k \in 1..5, RowOf[k] # "SPL_MIN_MARGIN"
      PROVE  CheckOrder(boxes[k]) = x
  <2>1. k # 2 /\ rows[k] = boxes[k]
    BY <1>2, <1>3
  <2>2. CASE k = 1
    BY <1>1, <2>1, <2>2
  <2>3. CASE k # 1
    <3>1. k \in 2..5
      BY <2>3
    <3>2. rows[k] = x
      BY <1>1, <1>3, <2>1, <3>1 DEF Differ
    <3>3. QED
      BY <1>1, <2>1, <3>2
  <2>4. QED
    BY <2>2, <2>3
<1>4. QED
  BY <1>3 DEF NothingToChoose

\* The cost of the halves is what the halves are.
LEMMA CostOfHalves ==
  ASSUME FanOuts, NEW e, Overfull(e), NEW R, \A x \in ASet(e) : R[x] \in RectT,
         NEW s, Rearranges(s, e)
  PROVE  CostInHalves(R, s) = Boxes(InHalves(R, s))
<1>1. Ids(s) /\ Len(s) = maximum_entry + 1 /\ ASet(s) = ASet(e) /\ Len(s) = Len(e)
  BY DEF Rearranges, Overfull
<1>2. PICK n, h : n = Len(s) /\ h = n \div 2
  OBVIOUS
<1>3. n \in Nat /\ h \in Nat /\ h >= 1 /\ h <= n /\ 2 * h <= n
  BY <1>1, <1>2 DEF FanOuts
<1>4. PICK low, high, last : low = SubSeq(s, 1, h) /\ high = FromEnd(s, h) /\ last = SubSeq(s, n - h + 1, n)
  OBVIOUS
<1>5. Ids(high) /\ Len(high) = h /\ ASet(high) = Piece(s, n - h + 1, n)
  <2>1. IsTurned(high, s, n, h)
    BY <1>1, <1>2, <1>3, <1>4, TurnedPiece
  <2>2. QED
    BY <2>1 DEF IsTurned
<1>6. Ids(last) /\ Len(last) = h /\ ASet(last) = Piece(s, n - h + 1, n)
  <2>1. /\ n - h + 1 \in Nat \ {0} /\ n \in Nat /\ n <= Len(s) /\ n - h + 1 <= n + 1
        /\ n - (n - h + 1) + 1 = h
    BY <1>2, <1>3
  <2>2. QED
    BY <1>1, <1>4, <2>1, PieceOf
<1>7. MergeRange(R, last) = MergeRange(R, high)
  <2>1. ASet(last) = ASet(high) /\ last # <<>> /\ high # <<>>
    <3>1. Len(last) # 0 /\ Len(high) # 0
      BY <1>3, <1>5, <1>6
    <3>2. QED
      BY <1>5, <1>6, <3>1, EmptySeq
  <2>2. ASet(last) \subseteq ASet(e)
    <3>1. ASet(s) = Piece(s, 1, n)
      BY <1>1, <1>2, SetOf DEF Ids
    <3>2. (n - h + 1..n) \subseteq 1..n
      BY <1>3
    <3>3. QED
      BY <1>1, <1>6, <3>1, <3>2 DEF Piece
  <2>3. \A x \in ASet(last) : R[x] \in RectT
    BY <2>2
  <2>4. PICK S : S = BoxesOf(R, ASet(last))
    OBVIOUS
  <2>5. BoxOf(MergeRange(R, last), S) /\ BoxOf(MergeRange(R, high), S)
    BY <1>5, <1>6, <2>1, <2>3, <2>4, MergeRangeBox
  <2>6. \A x \in S : x \in RectT
    BY <2>3, <2>4 DEF BoxesOf
  <2>7. QED
    BY <2>5, <2>6, OneBox
<1>8. PICK box1, box2, x : box1 = MergeRange(R, low) /\ box2 = MergeRange(R, high) /\ x = s[h + 1]
  OBVIOUS
<1>9. PICK rec1, rec2 : rec1 = Merge(box1, R[x]) /\ rec2 = Merge(box2, R[x])
  OBVIOUS
<1>10. CostInHalves(R, s) = IF n % 2 = 0 THEN <<box1, box2>>
                            ELSE IF Area(rec1) - Area(box1) < Area(rec2) - Area(box2)
                                 THEN <<rec1, box2>> ELSE <<box1, rec2>>
  <2>1. MergeRange(R, SubSeq(s, 1, Len(s) \div 2)) = box1
    BY <1>2, <1>4, <1>8
  <2>2. MergeRange(R, SubSeq(s, Len(s) - (Len(s) \div 2) + 1, Len(s))) = box2
    BY <1>2, <1>4, <1>7, <1>8
  <2>3. s[(Len(s) \div 2) + 1] = x
    BY <1>2, <1>8
  <2> DEFINE b1 == MergeRange(R, SubSeq(s, 1, Len(s) \div 2))
             b2 == MergeRange(R, SubSeq(s, Len(s) - (Len(s) \div 2) + 1, Len(s)))
             y == s[(Len(s) \div 2) + 1]
  <2>4. CostInHalves(R, s) = IF Len(s) % 2 = 0 THEN <<b1, b2>>
                             ELSE IF Area(Merge(b1, R[y])) - Area(b1) < Area(Merge(b2, R[y])) - Area(b2)
                                  THEN <<Merge(b1, R[y]), b2>> ELSE <<b1, Merge(b2, R[y])>>
    BY Zenon DEF CostInHalves
  <2> HIDE DEF b1, b2, y
  <2>5. b1 = box1 /\ b2 = box2 /\ y = x
    BY <2>1, <2>2, <2>3 DEF b1, b2, y
  <2>6. QED
    BY <1>2, <1>9, <2>4, <2>5
<1>11. PICK d : d = Halves(R, low, high) /\ d.box1 = box1 /\ d.box2 = box2
  <2>1. Halves(R, low, high).box1 = box1 /\ Halves(R, low, high).box2 = box2
    BY <1>8 DEF Halves
  <2>2. QED
    BY <2>1
<1>12. CASE n % 2 = 0
  <2>1. InHalves(R, s) = d
    BY <1>2, <1>4, <1>11, <1>12 DEF InHalves
  <2>2. QED
    BY <1>10, <1>11, <1>12, <2>1 DEF Boxes
<1>13. CASE n % 2 # 0
  <2>1. InHalves(R, s) = WithOdd(d, x, R[x])
    BY <1>2, <1>4, <1>8, <1>11, <1>13, Zenon DEF InHalves
  <2>2. d = [low |-> low, high |-> high, box1 |-> box1, box2 |-> box2]
    BY <1>8, <1>11 DEF Halves
  <2>3. CASE Area(rec1) - Area(box1) < Area(rec2) - Area(box2)
    <3>1. WithOdd(d, x, R[x]) = [d EXCEPT !.low = Append(@, x), !.box1 = rec1]
      BY <1>9, <1>11, <2>3 DEF WithOdd
    <3>2. WithOdd(d, x, R[x]).box1 = rec1 /\ WithOdd(d, x, R[x]).box2 = box2
      BY <2>2, <3>1
    <3>3. QED
      BY <1>10, <1>13, <2>1, <2>3, <3>2 DEF Boxes
  <2>4. CASE ~(Area(rec1) - Area(box1) < Area(rec2) - Area(box2))
    <3>1. WithOdd(d, x, R[x]) = [d EXCEPT !.high = Append(@, x), !.box2 = rec2]
      BY <1>9, <1>11, <2>4 DEF WithOdd
    <3>2. WithOdd(d, x, R[x]).box1 = box1 /\ WithOdd(d, x, R[x]).box2 = rec2
      BY <2>2, <3>1
    <3>3. QED
      BY <1>10, <1>13, <2>1, <2>4, <3>2 DEF Boxes
  <2>5. QED
    BY <2>3, <2>4
<1>14. QED
  BY <1>12, <1>13

\* The best of the four orders is no worse than the best of two of them.
LEMMA FourOrdersBound ==
  ASSUME FanOuts, NEW e, Overfull(e), NEW R, \A x \in ASet(e) : R[x] \in RectT
  PROVE  \A d, f : /\ d = FindMinimumSplit(R, e, AllOrders, "SplitPerimeter", "SplitOverlap")
                   /\ f = MinMargin(R, e)
            => SplitPerimeter(d.box1, d.box2) <= SplitPerimeter(f.box1, f.box2)
<1>1. TAKE d, f
<1>2. HAVE /\ d = FindMinimumSplit(R, e, AllOrders, "SplitPerimeter", "SplitOverlap")
           /\ f = MinMargin(R, e)
<1>3. AllOrders \in [1..4 -> Orders4] /\ TwoOrders \in [1..2 -> Orders4]
  BY DEF AllOrders, TwoOrders, Orders4
<1>4. "SplitPerimeter" \in Measures /\ "SplitOverlap" \in Measures /\ 4 \in Nat \ {0} /\ 2 \in Nat \ {0}
  BY DEF Measures
<1>5. BestOf(d, R, e, AllOrders, "SplitPerimeter") /\ BestOf(f, R, e, TwoOrders, "SplitPerimeter")
  BY <1>2, <1>3, <1>4, FindMinimumSplitIsBest DEF MinMargin
<1>6. PICK o \in 1..2, c \in 1..CutsPerOrder : f = SweptCut(R, Sorted(R, e, TwoOrders[o]), c)
  BY <1>3, <1>5 DEF BestOf
<1>7. PICK q \in 1..4 : AllOrders[q] = TwoOrders[o]
  <2>1. AllOrders[1] = TwoOrders[1] /\ AllOrders[3] = TwoOrders[2] /\ o \in {1, 2}
    BY DEF AllOrders, TwoOrders
  <2>2. 1 \in 1..4 /\ 3 \in 1..4
    OBVIOUS
  <2>3. QED
    BY <2>1, <2>2
<1>8. PICK s : s = Sorted(R, e, TwoOrders[o])
  OBVIOUS
<1>9. f.box1 = Sweep(R, s)[c][1] /\ f.box2 = Sweep(R, s)[c][2]
  BY <1>6, <1>8 DEF SweptCut
<1>10. Score("SplitPerimeter", d.box1, d.box2) <= Score("SplitPerimeter", Sweep(R, s)[c][1], Sweep(R, s)[c][2])
  BY <1>3, <1>5, <1>7, <1>8 DEF BestOf
<1>11. QED
  BY <1>9, <1>10 DEF Score

\* Quadratic: the cost keeps boxes and what is unassigned as the strategy
\* does, and only counts the entries of the two groups.
CostT == [box1 : RectT, box2 : RectT, count1 : Nat, count2 : Nat, unassigned : Seq(Nat)]

\* The cost c is at the stage that the strategy is at.
Mirrors(c, a) ==
  /\ c \in CostT /\ c.box1 = a.split.box1 /\ c.box2 = a.split.box2 /\ c.unassigned = a.left
  /\ a.left # <<>> => c.count1 = Len(a.split.low) /\ c.count2 = Len(a.split.high)

\* One round of the cost's loop, as SplitQUADRATICCost has it.
CostStep(R, s) ==
    LET i == PickNext(R, s.box1, s.box2, s.unassigned)
        a == R[s.unassigned[i]]
        rest == Without(s.unassigned, i)
    IN  IF Len(s.unassigned) + s.count1 = minimum_entry
        THEN [s EXCEPT !.box1 = Merge(@, MergeRange(R, s.unassigned)), !.unassigned = <<>>]
        ELSE IF Len(s.unassigned) + s.count2 = minimum_entry
        THEN [s EXCEPT !.box2 = Merge(@, MergeRange(R, s.unassigned)), !.unassigned = <<>>]
        ELSE IF JoinsFirst(s.box1, s.box2, s.count1, s.count2, a)
        THEN [s EXCEPT !.box1 = Merge(@, a), !.count1 = @ + 1, !.unassigned = rest]
        ELSE [s EXCEPT !.box2 = Merge(@, a), !.count2 = @ + 1, !.unassigned = rest]

\* A round once nothing is left does nothing.
CostRound(R, c) == IF c.unassigned = <<>> THEN c ELSE CostStep(R, c)

\* A round of the cost and a round of the strategy take the same entry to the
\* same side.
LEMMA CostKeepsPace ==
  ASSUME FanOuts, NEW e, Overfull(e), NEW R, \A x \in ASet(e) : R[x] \in RectT,
         NEW a \in StageT, Suffices(a, R, e), NEW c, Mirrors(c, a)
  PROVE  Mirrors(CostRound(R, c), Assigned(R, a))
<1>1. PICK b : b = Assigned(R, a) /\ b \in StageT
  BY AssignedAdvances DEF Advances
<1>2. PICK d, u : d = a.split /\ u = a.left /\ d \in SplitT /\ u \in Seq(Nat)
  BY DEF StageT
<1>3. CASE u = <<>>
  <2>1. Assigned(R, a) = a
    BY <1>2, <1>3 DEF Assigned
  <2>2. CostRound(R, c) = c
    BY <1>2, <1>3 DEF CostRound, Mirrors
  <2>3. QED
    BY <2>1, <2>2
<1>4. CASE u # <<>>
  <2>1. /\ c \in CostT /\ c.box1 = d.box1 /\ c.box2 = d.box2 /\ c.unassigned = u
        /\ c.count1 = Len(d.low) /\ c.count2 = Len(d.high)
    BY <1>2, <1>4 DEF Mirrors
  <2>2. PICK i, x : i = PickNext(R, d.box1, d.box2, u) /\ x = R[u[i]]
    OBVIOUS
  <2>3. PICK v : v = Without(u, i)
    OBVIOUS
  <2>4. CostRound(R, c) = CostStep(R, c)
    BY <1>4, <2>1 DEF CostRound
  <2>5. CASE Len(u) + Len(d.low) = minimum_entry
    <3>1. b = [split |-> [d EXCEPT !.low = @ \o u, !.box1 = Merge(@, MergeRange(R, u))], left |-> <<>>]
      BY <1>1, <1>2, <1>4, <2>5 DEF Assigned
    <3>2. CostStep(R, c) = [c EXCEPT !.box1 = Merge(@, MergeRange(R, u)), !.unassigned = <<>>]
      BY <2>1, <2>5 DEF CostStep
    <3>3. PICK m : m = [d EXCEPT !.low = @ \o u, !.box1 = Merge(@, MergeRange(R, u))]
      OBVIOUS
    <3>4. b.split = m /\ b.left = <<>> /\ m \in SplitT /\ b.left \in Seq(Nat)
      <4>1. b.split = m /\ b.left = <<>>
        BY <3>1, <3>3
      <4>2. b.split \in SplitT /\ b.left \in Seq(Nat)
        BY <1>1 DEF StageT
      <4>3. QED
        BY <4>1, <4>2
    <3>5. /\ m.box1 = Merge(d.box1, MergeRange(R, u)) /\ m.box2 = d.box2
          /\ m.low = d.low \o u /\ m.high = d.high /\ m.box1 \in RectT
      <4>1. m.box1 = Merge(d.box1, MergeRange(R, u)) /\ m.box2 = d.box2 /\ m.low = d.low \o u /\ m.high = d.high
        BY <1>2, <3>3 DEF SplitT
      <4>2. m.box1 \in RectT
        BY <3>4 DEF SplitT
      <4>3. QED
        BY <4>1, <4>2
    <3>6. PICK g : g = CostStep(R, c)
      OBVIOUS
    <3>7. /\ g.box1 = Merge(d.box1, MergeRange(R, u)) /\ g.box2 = d.box2 /\ g.unassigned = <<>>
      BY <2>1, <3>2, <3>6 DEF CostT
    <3>8. g \in CostT
      <4>1. Merge(c.box1, MergeRange(R, u)) \in RectT /\ <<>> \in Seq(Nat)
        BY <2>1, <3>4, <3>5
      <4>2. QED
        BY <2>1, <3>2, <3>6, <4>1 DEF CostT
    <3>9. QED
      BY <1>1, <2>4, <3>4, <3>5, <3>6, <3>7, <3>8 DEF Mirrors
  <2>6. CASE Len(u) + Len(d.low) # minimum_entry /\ Len(u) + Len(d.high) = minimum_entry
    <3>1. b = [split |-> [d EXCEPT !.high = @ \o u, !.box2 = Merge(@, MergeRange(R, u))], left |-> <<>>]
      BY <1>1, <1>2, <1>4, <2>6 DEF Assigned
    <3>2. CostStep(R, c) = [c EXCEPT !.box2 = Merge(@, MergeRange(R, u)), !.unassigned = <<>>]
      BY <2>1, <2>6 DEF CostStep
    <3>3. PICK m : m = [d EXCEPT !.high = @ \o u, !.box2 = Merge(@, MergeRange(R, u))]
      OBVIOUS
    <3>4. b.split = m /\ b.left = <<>> /\ m \in SplitT /\ b.left \in Seq(Nat)
      <4>1. b.split = m /\ b.left = <<>>
        BY <3>1, <3>3
      <4>2. b.split \in SplitT /\ b.left \in Seq(Nat)
        BY <1>1 DEF StageT
      <4>3. QED
        BY <4>1, <4>2
    <3>5. /\ m.box2 = Merge(d.box2, MergeRange(R, u)) /\ m.box1 = d.box1
          /\ m.high = d.high \o u /\ m.low = d.low /\ m.box2 \in RectT
      <4>1. m.box2 = Merge(d.box2, MergeRange(R, u)) /\ m.box1 = d.box1 /\ m.high = d.high \o u /\ m.low = d.low
        BY <1>2, <3>3 DEF SplitT
      <4>2. m.box2 \in RectT
        BY <3>4 DEF SplitT
      <4>3. QED
        BY <4>1, <4>2
    <3>6. PICK g : g = CostStep(R, c)
      OBVIOUS
    <3>7. /\ g.box2 = Merge(d.box2, MergeRange(R, u)) /\ g.box1 = d.box1 /\ g.unassigned = <<>>
      BY <2>1, <3>2, <3>6 DEF CostT
    <3>8. g \in CostT
      <4>1. Merge(c.box2, MergeRange(R, u)) \in RectT /\ <<>> \in Seq(Nat)
        BY <2>1, <3>4, <3>5
      <4>2. QED
        BY <2>1, <3>2, <3>6, <4>1 DEF CostT
    <3>9. QED
      BY <1>1, <2>4, <3>4, <3>5, <3>6, <3>7, <3>8 DEF Mirrors
  <2>7. CASE /\ Len(u) + Len(d.low) # minimum_entry /\ Len(u) + Len(d.high) # minimum_entry
             /\ JoinsFirst(d.box1, d.box2, Len(d.low), Len(d.high), x)
    <3>1. b = [split |-> [d EXCEPT !.low = Append(@, u[i]), !.box1 = Merge(@, R[u[i]])], left |-> v]
      BY <1>1, <1>2, <1>4, <2>2, <2>3, <2>7 DEF Assigned
    <3>2. CostStep(R, c) = [c EXCEPT !.box1 = Merge(@, x), !.count1 = @ + 1, !.unassigned = v]
      BY <2>1, <2>2, <2>3, <2>7 DEF CostStep
    <3>3. PICK m : m = [d EXCEPT !.low = Append(@, u[i]), !.box1 = Merge(@, R[u[i]])]
      OBVIOUS
    <3>4. b.split = m /\ b.left = v /\ m \in SplitT /\ b.left \in Seq(Nat)
      <4>1. b.split = m /\ b.left = v
        BY <3>1, <3>3
      <4>2. b.split \in SplitT /\ b.left \in Seq(Nat)
        BY <1>1 DEF StageT
      <4>3. QED
        BY <4>1, <4>2
    <3>5. /\ m.box1 = Merge(d.box1, x) /\ m.box2 = d.box2
          /\ m.low = Append(d.low, u[i]) /\ m.high = d.high /\ m.box1 \in RectT
      <4>1. m.box1 = Merge(d.box1, x) /\ m.box2 = d.box2 /\ m.low = Append(d.low, u[i]) /\ m.high = d.high
        BY <1>2, <2>2, <3>3 DEF SplitT
      <4>2. m.box1 \in RectT
        BY <3>4 DEF SplitT
      <4>3. QED
        BY <4>1, <4>2
    <3>6. Len(m.low) = Len(d.low) + 1 /\ Len(d.low) \in Nat
      BY <1>2, <3>5 DEF SplitT
    <3>7. PICK g : g = CostStep(R, c)
      OBVIOUS
    <3>8. /\ g.box1 = Merge(d.box1, x) /\ g.box2 = d.box2 /\ g.unassigned = v
          /\ g.count1 = Len(d.low) + 1 /\ g.count2 = Len(d.high)
      BY <2>1, <3>2, <3>7 DEF CostT
    <3>9. g \in CostT
      <4>1. Merge(c.box1, x) \in RectT /\ v \in Seq(Nat) /\ c.count1 + 1 \in Nat
        BY <2>1, <3>4, <3>5, <3>6
      <4>2. QED
        BY <2>1, <3>2, <3>7, <4>1 DEF CostT
    <3>10. QED
      BY <1>1, <2>4, <3>4, <3>5, <3>6, <3>7, <3>8, <3>9 DEF Mirrors
  <2>8. CASE /\ Len(u) + Len(d.low) # minimum_entry /\ Len(u) + Len(d.high) # minimum_entry
             /\ ~JoinsFirst(d.box1, d.box2, Len(d.low), Len(d.high), x)
    <3>1. b = [split |-> [d EXCEPT !.high = Append(@, u[i]), !.box2 = Merge(@, R[u[i]])], left |-> v]
      BY <1>1, <1>2, <1>4, <2>2, <2>3, <2>8 DEF Assigned
    <3>2. CostStep(R, c) = [c EXCEPT !.box2 = Merge(@, x), !.count2 = @ + 1, !.unassigned = v]
      BY <2>1, <2>2, <2>3, <2>8 DEF CostStep
    <3>3. PICK m : m = [d EXCEPT !.high = Append(@, u[i]), !.box2 = Merge(@, R[u[i]])]
      OBVIOUS
    <3>4. b.split = m /\ b.left = v /\ m \in SplitT /\ b.left \in Seq(Nat)
      <4>1. b.split = m /\ b.left = v
        BY <3>1, <3>3
      <4>2. b.split \in SplitT /\ b.left \in Seq(Nat)
        BY <1>1 DEF StageT
      <4>3. QED
        BY <4>1, <4>2
    <3>5. /\ m.box2 = Merge(d.box2, x) /\ m.box1 = d.box1
          /\ m.high = Append(d.high, u[i]) /\ m.low = d.low /\ m.box2 \in RectT
      <4>1. m.box2 = Merge(d.box2, x) /\ m.box1 = d.box1 /\ m.high = Append(d.high, u[i]) /\ m.low = d.low
        BY <1>2, <2>2, <3>3 DEF SplitT
      <4>2. m.box2 \in RectT
        BY <3>4 DEF SplitT
      <4>3. QED
        BY <4>1, <4>2
    <3>6. Len(m.high) = Len(d.high) + 1 /\ Len(d.high) \in Nat
      BY <1>2, <3>5 DEF SplitT
    <3>7. PICK g : g = CostStep(R, c)
      OBVIOUS
    <3>8. /\ g.box2 = Merge(d.box2, x) /\ g.box1 = d.box1 /\ g.unassigned = v
          /\ g.count2 = Len(d.high) + 1 /\ g.count1 = Len(d.low)
      BY <2>1, <3>2, <3>7 DEF CostT
    <3>9. g \in CostT
      <4>1. Merge(c.box2, x) \in RectT /\ v \in Seq(Nat) /\ c.count2 + 1 \in Nat
        BY <2>1, <3>4, <3>5, <3>6
      <4>2. QED
        BY <2>1, <3>2, <3>7, <4>1 DEF CostT
    <3>10. QED
      BY <1>1, <2>4, <3>4, <3>5, <3>6, <3>7, <3>8, <3>9 DEF Mirrors
  <2>9. QED
    BY <2>5, <2>6, <2>7, <2>8
<1>5. QED
  BY <1>3, <1>4

\* So the cost of the quadratic split is what the strategy leads to.
LEMMA CostOfQuadratic ==
  ASSUME FanOuts, NEW n, Overfull(Entries(n)), \A x \in ASet(Entries(n)) : EntryBoxes(n)[x] \in RectT
  PROVE  SplitQUADRATICCost(n) = Boxes(Quadratic(EntryBoxes(n), Entries(n)))
<1> DEFINE e == Entries(n)
           R == EntryBoxes(n)
           seed == Seeds(R, e)
           first == [box1 |-> R[e[seed[1]]], box2 |-> R[e[seed[2]]], count1 |-> 1, count2 |-> 1,
                     unassigned |-> Without(Without(e, seed[2]), seed[1])]
           E(f, k) == IF k = 0 THEN first ELSE CostRound(R, f[k - 1])
<1>1. PICK x : x = CHOOSE after : after = [k \in 0..Len(e) |-> E(after, k)]
  OBVIOUS
<1>2. SplitQUADRATICCost(n) = Boxes(x[Len(e)])
  BY <1>1, Zenon DEF SplitQUADRATICCost, CostRound, CostStep
<1>3. FanOuts /\ Overfull(e) /\ \A y \in ASet(e) : R[y] \in RectT
  OBVIOUS
<1> HIDE DEF e, R
<1>4. PICK d, s : StartsWith(d, s, R, e)
  BY <1>3, QuadraticStarts
<1>5. Quadratic(R, e) = Distribute(R, d, s) /\ Suffices([split |-> d, left |-> s], R, e)
  BY <1>4 DEF Quadratic, StartsWith
<1>6. PICK f : StagesOf(f, R, e, d, s)
  BY <1>3, <1>5, DistributeRuns
<1>7. PICK N, M \in Nat : N = Len(s) /\ M = Len(e) /\ N + 2 = M /\ N \in Nat
  <2>1. Len(s) = Len(e) - 2 /\ Len(e) \in Nat /\ Len(s) \in Nat
    <3>1. Ids(s)
      BY <1>5 DEF Suffices, Partly
    <3>2. QED
      BY <1>4, <3>1, SetOf DEF StartsWith, Ids
  <2>2. QED
    BY <2>1
<1>8. PICK h : h = [k \in 0..M |-> IF k <= N THEN f[k] ELSE f[N]]
  OBVIOUS
<1>9. /\ f[0] = [split |-> d, left |-> s] /\ \A k \in 1..N : f[k] = Assigned(R, f[k - 1])
      /\ \A k \in 0..N : f[k] \in StageT /\ Suffices(f[k], R, e)
      /\ Distribute(R, d, s) = f[N].split /\ f[N].left = <<>>
  BY <1>6, <1>7 DEF StagesOf
<1>10. \A k \in 0..M : h[k] \in StageT /\ Suffices(h[k], R, e)
  BY <1>7, <1>8, <1>9
<1>11. ASSUME NEW k \in 1..M PROVE h[k] = Assigned(R, h[k - 1]) /\ k - 1 \in 0..M
  <2>1. k - 1 \in 0..M /\ k \in 0..M
    BY <1>7
  <2>2. CASE k <= N
    BY <1>7, <1>8, <1>9, <2>1, <2>2
  <2>3. CASE ~(k <= N)
    <3>1. h[k] = f[N] /\ h[k - 1] = f[N]
      BY <1>7, <1>8, <2>1, <2>3
    <3>2. Assigned(R, f[N]) = f[N]
      BY <1>9 DEF Assigned
    <3>3. QED
      BY <2>1, <3>1, <3>2
  <2>4. QED
    BY <2>2, <2>3
<1>12. Mirrors(first, h[0])
  <2>1. h[0] = [split |-> d, left |-> s] /\ h[0] \in StageT
    BY <1>7, <1>8, <1>9, <1>10
  <2>2. PICK a : a = h[0] /\ a.split = d /\ a.left = s /\ d \in SplitT /\ s \in Seq(Nat)
    <3>1. h[0].split = d /\ h[0].left = s
      BY <2>1
    <3>2. h[0].split \in SplitT /\ h[0].left \in Seq(Nat)
      BY <2>1 DEF StageT
    <3>3. QED
      BY <3>1, <3>2
  <2>3. PICK p, q : p = e[seed[1]] /\ q = e[seed[2]]
    OBVIOUS
  <2>4. d = [low |-> <<p>>, high |-> <<q>>, box1 |-> R[p], box2 |-> R[q]]
        /\ s = Without(Without(e, seed[2]), seed[1])
    BY <1>4, <2>3 DEF StartsWith
  <2>5. d.box1 = R[p] /\ d.box2 = R[q] /\ Len(d.low) = 1 /\ Len(d.high) = 1 /\ R[p] \in RectT /\ R[q] \in RectT
    <3>1. d.box1 = R[p] /\ d.box2 = R[q] /\ d.low = <<p>> /\ d.high = <<q>>
      BY <2>4
    <3>2. d.box1 \in RectT /\ d.box2 \in RectT
      BY <2>2 DEF SplitT
    <3>3. QED
      BY <3>1, <3>2
  <2>6. PICK c : c = first
    OBVIOUS
  <2>7. c = [box1 |-> R[p], box2 |-> R[q], count1 |-> 1, count2 |-> 1, unassigned |-> s]
    BY <2>3, <2>4, <2>6
  <2>8. c \in CostT
    BY <2>2, <2>5, <2>7 DEF CostT
  <2>9. Mirrors(c, a)
    BY <2>2, <2>5, <2>7, <2>8 DEF Mirrors
  <2>10. QED
    BY <2>2, <2>6, <2>9
<1> HIDE DEF first
<1> DEFINE V == {c \in CostT : \E a \in StageT : Suffices(a, R, e) /\ Mirrors(c, a)}
<1>13. first \in V
  <2>1. h[0] \in StageT /\ Suffices(h[0], R, e)
    BY <1>7, <1>10
  <2>2. first \in CostT
    BY <1>12 DEF Mirrors
  <2>3. QED
    BY <1>12, <2>1, <2>2
<1>14. ASSUME NEW c \in V PROVE CostRound(R, c) \in V
  <2>1. PICK a \in StageT : Suffices(a, R, e) /\ Mirrors(c, a)
    OBVIOUS
  <2>2. Mirrors(CostRound(R, c), Assigned(R, a))
    BY <1>3, <2>1, CostKeepsPace
  <2>3. Assigned(R, a) \in StageT /\ Suffices(Assigned(R, a), R, e)
    BY <1>3, <2>1, AssignedAdvances DEF Advances
  <2>4. CostRound(R, c) \in CostT
    BY <2>2 DEF Mirrors
  <2>5. QED
    BY <2>2, <2>3, <2>4
<1> HIDE DEF V
<1>15. PICK G : G = [p \in (1..M) \X V |-> CostRound(R, p[2])]
  OBVIOUS
<1>16. /\ G \in [(1..M) \X V -> V]
       /\ \A k \in 1..M : \A c \in V : G[<<k, c>>] = CostRound(R, c)
  BY <1>14, <1>15
<1>17. PICK g \in [0..M -> V] : g[0] = first /\ \A k \in 1..M : g[k] = G[<<k, g[k - 1]>>]
  <2>1. LoopRuns(M, V, first, G)
    BY <1>7, <1>13, <1>16, Loop
  <2>2. QED
    BY <2>1 DEF LoopRuns
<1>18. g = [k \in 0..M |-> E(g, k)]
  <2>1. \A k \in 0..M : g[k] = E(g, k)
    <3>1. \A k \in 0..M : k # 0 => k \in 1..M /\ k - 1 \in 0..M
      BY <1>7
    <3>2. QED
      BY <1>16, <1>17, <3>1
  <2> HIDE DEF E
  <2>2. QED
    BY <1>17, <2>1
<1>19. x = [k \in 0..M |-> E(x, k)]
  <2> HIDE DEF E
  <2>1. x = CHOOSE after : after = [k \in 0..M |-> E(after, k)]
    BY <1>1, <1>7
  <2>2. QED
    BY <1>18, <2>1, Zenon
<1>20. x[0] = first /\ \A k \in 1..M : x[k] = CostRound(R, x[k - 1])
  <2>1. \A k \in 0..M : x[k] = E(x, k)
    <3> HIDE DEF E
    <3>1. QED
      BY <1>19
  <2>2. 0 \in 0..M /\ \A k \in 1..M : k \in 0..M /\ k # 0
    BY <1>7
  <2>3. QED
    BY <2>1, <2>2
<1>21. \A k \in 0..M : Mirrors(x[k], h[k])
  <2> DEFINE off == {k \in 0..M : ~Mirrors(x[k], h[k])}
  <2> SUFFICES ASSUME off # {} PROVE FALSE
    OBVIOUS
  <2>1. PICK k \in off : \A i \in off : k <= i
    <3> off \subseteq Nat
      OBVIOUS
    <3> HIDE DEF off
    <3>1. QED
      BY LeastNumber
  <2>2. k # 0
    BY <1>12, <1>20
  <2>3. k \in 1..M /\ k - 1 \in 0..M /\ ~(k <= k - 1)
    BY <1>7, <2>2
  <2>4. Mirrors(x[k - 1], h[k - 1])
    BY <2>1, <2>3
  <2>5. h[k - 1] \in StageT /\ Suffices(h[k - 1], R, e)
    BY <1>10, <2>3
  <2>6. Mirrors(CostRound(R, x[k - 1]), Assigned(R, h[k - 1]))
    BY <1>3, <2>4, <2>5, CostKeepsPace
  <2>7. Mirrors(x[k], h[k])
    BY <1>11, <1>20, <2>3, <2>6
  <2>8. QED
    BY <2>7
<1>22. x[M].box1 = f[N].split.box1 /\ x[M].box2 = f[N].split.box2
  <2>1. M \in 0..M /\ h[M] = f[N]
    BY <1>7, <1>8
  <2>2. Mirrors(x[M], h[M])
    BY <1>21, <2>1
  <2>3. QED
    BY <2>1, <2>2 DEF Mirrors
<1>23. Boxes(x[M]) = Boxes(Quadratic(R, e))
  BY <1>5, <1>9, <1>22 DEF Boxes
<1>24. QED
  BY <1>2, <1>7, <1>23 DEF e, R

\* The rows of the strategies are the boxes they lead to, that of MIN_MARGIN
\* a bound, and a node without a choice is one they agree on.
LEMMA RowsAreStrategies ==
  ASSUME IInv
  PROVE  RowIsWhatStrategyDoes
<1> SUFFICES ASSUME AboutToSplit
             PROVE  LET split(strategy) == SplitBy(strategy, EntryBoxes(iter), Entries(iter), tree_nodes[iter].box)
                    IN  \A states \in {RetrieveStates(iter)}, boxes \in {[i \in 1..5 |-> Boxes(split(RowOf[i]))]} :
                            /\ RowBoundsStrategy(states.rows, boxes)
                            /\ NothingToChoose(states.is_valid, boxes)
  BY Zenon DEF RowIsWhatStrategyDoes
<1>1. PICK R, e, node : R = EntryBoxes(iter) /\ e = Entries(iter) /\ node = tree_nodes[iter].box
  OBVIOUS
<1>2. FanOuts /\ Overfull(Entries(iter)) /\ (\A x \in ASet(Entries(iter)) : EntryBoxes(iter)[x] \in RectT)
      /\ Overfull(e) /\ \A x \in ASet(e) : R[x] \in RectT
  BY <1>1, OverfullNode DEF AboutToSplit
<1>3. PICK rows : rows = <<SplitAREACost(iter), SplitMARGINCost(iter), SplitOVERLAPCost(iter),
                           SplitGREENECost(iter), SplitQUADRATICCost(iter)>>
  OBVIOUS
<1>4. PICK boxes : boxes = [i \in 1..5 |-> Boxes(SplitBy(RowOf[i], R, e, node))]
  OBVIOUS
<1>5. /\ boxes[1] = Boxes(MinArea(R, e)) /\ boxes[2] = Boxes(MinMargin(R, e)) /\ boxes[3] = Boxes(MinOverlap(R, e))
      /\ boxes[4] = Boxes(Greene(R, e, node)) /\ boxes[5] = Boxes(Quadratic(R, e))
  <2>1. /\ RowOf[1] = "SPL_MIN_AREA" /\ RowOf[2] = "SPL_MIN_MARGIN" /\ RowOf[3] = "SPL_MIN_OVERLAP"
        /\ RowOf[4] = "SPL_GREENE" /\ RowOf[5] = "SPL_QUADRATIC"
    BY DEF RowOf
  <2>2. /\ SplitBy("SPL_MIN_AREA", R, e, node) = MinArea(R, e)
        /\ SplitBy("SPL_MIN_MARGIN", R, e, node) = MinMargin(R, e)
        /\ SplitBy("SPL_MIN_OVERLAP", R, e, node) = MinOverlap(R, e)
        /\ SplitBy("SPL_GREENE", R, e, node) = Greene(R, e, node)
        /\ SplitBy("SPL_QUADRATIC", R, e, node) = Quadratic(R, e)
    BY DEF SplitBy
  <2>3. \A i \in 1..5 : boxes[i] = Boxes(SplitBy(RowOf[i], R, e, node))
    BY <1>4
  <2>4. 1 \in 1..5 /\ 2 \in 1..5 /\ 3 \in 1..5 /\ 4 \in 1..5 /\ 5 \in 1..5
    OBVIOUS
  <2>5. QED
    BY <2>1, <2>2, <2>3, <2>4
<1>6. rows[1] = boxes[1]
  BY <1>1, <1>3, <1>5 DEF SplitAREACost, MinArea
<1>7. rows[3] = boxes[3]
  BY <1>1, <1>3, <1>5 DEF SplitOVERLAPCost, MinOverlap
<1>8. rows[4] = boxes[4]
  <2>1. PICK order : order = GreeneOrder(R, e, node)
    OBVIOUS
  <2>2. order \in Orders4
    BY <2>1 DEF GreeneOrder, Orders4
  <2>3. PICK s : s = Sorted(R, e, order) /\ Rearranges(s, e)
    BY <1>2, <2>2, SortedRearranges DEF Overfull
  <2>4. SplitGREENECost(iter) = CostInHalves(R, s) /\ Greene(R, e, node) = InHalves(R, s)
    BY <1>1, <2>1, <2>3 DEF SplitGREENECost, Greene
  <2>5. CostInHalves(R, s) = Boxes(InHalves(R, s))
    BY <1>2, <2>3, CostOfHalves
  <2>6. QED
    BY <1>3, <1>5, <2>4, <2>5
<1>9. rows[5] = boxes[5]
  <2>1. SplitQUADRATICCost(iter) = Boxes(Quadratic(R, e))
    BY <1>1, <1>2, CostOfQuadratic
  <2>2. QED
    BY <1>3, <1>5, <2>1
<1>10. SplitPerimeter(rows[2][1], rows[2][2]) <= SplitPerimeter(boxes[2][1], boxes[2][2])
  <2>1. PICK d, f : /\ d = FindMinimumSplit(R, e, AllOrders, "SplitPerimeter", "SplitOverlap")
                    /\ f = MinMargin(R, e)
    OBVIOUS
  <2>2. SplitPerimeter(d.box1, d.box2) <= SplitPerimeter(f.box1, f.box2)
    BY <1>2, <2>1, FourOrdersBound
  <2>3. rows[2] = Boxes(d) /\ boxes[2] = Boxes(f)
    BY <1>1, <1>3, <1>5, <2>1 DEF SplitMARGINCost
  <2>4. QED
    BY <2>2, <2>3 DEF Boxes
<1>11. \A i \in 1..5 : RowOf[i] # "SPL_MIN_MARGIN" => rows[i] = boxes[i]
  <2>1. RowOf[2] = "SPL_MIN_MARGIN" /\ \A i \in 1..5 : i = 1 \/ i = 2 \/ i = 3 \/ i = 4 \/ i = 5
    BY DEF RowOf
  <2>2. QED
    BY <1>6, <1>7, <1>8, <1>9, <2>1
<1>12. RowBoundsStrategy(rows, boxes)
  <2>1. \A i \in 1..5 : RowOf[i] = "SPL_MIN_MARGIN" => i = 2
    BY DEF RowOf
  <2>2. QED
    BY <1>10, <1>11, <2>1 DEF RowBoundsStrategy
<1>13. NothingToChoose(Differ(rows), boxes)
  <2>1. PICK a \in RectT, b \in RectT : rows[1] = <<a, b>>
    <3>1. Divides(MinArea(R, e), R, e)
      BY <1>2, MinimumSplitsDivide
    <3>2. MinArea(R, e).box1 \in RectT /\ MinArea(R, e).box2 \in RectT
      BY <3>1 DEF Divides, Boxed, BoxOf
    <3>3. QED
      BY <1>5, <1>6, <3>2 DEF Boxes
  <2>2. QED
    BY <1>11, <2>1, NoDifference
<1>14. RetrieveStates(iter).rows = rows /\ RetrieveStates(iter).is_valid = Differ(rows)
  BY <1>3 DEF RetrieveStates
<1>15. boxes = [i \in 1..5 |-> Boxes(SplitBy(RowOf[i], EntryBoxes(iter), Entries(iter), tree_nodes[iter].box))]
  BY <1>1, <1>4
<1>16. QED
  BY <1>12, <1>13, <1>14, <1>15

\* What a policy is told of the built-in strategies is what they do: the cost
\* of each, computed by code of its own, is the boxes it leads to.
THEOREM StrategiesAreAsTold ==
  Spec => []RowIsWhatStrategyDoes
<1>1. IInv => RowIsWhatStrategyDoes
  BY RowsAreStrategies
<1>2. QED
  BY <1>1, Inductive, PTL
===============================================================================
