---------------------------- MODULE RTreeQueries ----------------------------
(* The R-tree's queries, and what holds of the tree they are asked of.       *)
EXTENDS RTree

CONSTANTS
    Queries,      \* rectangles to ask for, of positive area
    Points,       \* points to look for neighbours of
    Grid          \* the grid manager's: where it begins, the extent of a cell, how many there are

ASSUME QueriesAssumption == \A q \in Queries : q \in RectT /\ q.left < q.right /\ q.bottom < q.top
ASSUME PointsAssumption == Points \subseteq Int \X Int

\* register_grid_cells: cells of one size, and the space they divide, which
\* main takes from the data set, so that every object is in it.
Cells == {Rect(Grid.minX + i * Grid.delX, Grid.minX + (i + 1) * Grid.delX,
               Grid.minY + j * Grid.delY, Grid.minY + (j + 1) * Grid.delY) :
              i \in 0..Grid.xPar - 1, j \in 0..Grid.yPar - 1}
Space == Rect(Grid.minX, Grid.minX + Grid.xPar * Grid.delX, Grid.minY, Grid.minY + Grid.yPar * Grid.delY)
ASSUME GridAssumption ==
    /\ Grid \in [minX : Int, minY : Int, delX : Nat \ {0}, delY : Nat \ {0}, xPar : Nat \ {0}, yPar : Nat \ {0}]
    /\ \A s \in DOMAIN Setups : \A k \in DOMAIN Setups[s].rects : \A r \in Setups[s].rects[k] : Contains(Space, r)

\* build_rtree reads the left, right, bottom and top side of each of what it calls
\* points: none is beyond the opposite one.
ASSUME ObjectsAssumption ==
    \A s \in DOMAIN Setups : \A k \in DOMAIN Setups[s].rects : \A r \in Setups[s].rects[k] :
        r.left <= r.right /\ r.bottom <= r.top

Nodes == DOMAIN tree_nodes
Leaves == {n \in Nodes : tree_nodes[n].leaf}

\* The nodes whose box a query overlaps, from the root down, level by level.
Visited(q) ==
    LET over(n) == IsOverlap(tree_nodes[n].box, q)
        level[h \in 1..height] ==
            IF h = 1 THEN {n \in {root} : over(n)}
            ELSE {n \in UNION {ASet(Entries(m)) : m \in level[h - 1]} : over(n)}
    IN  UNION {level[h] : h \in 1..height}

\* Query returns the number of objects that contain the query.
Query(q) == SumFunctionOnSet([n \in Leaves |-> Cardinality({i \in DOMAIN Entries(n) : Contains(objects[Entries(n)[i]], q)})],
                             Visited(q) \cap Leaves)

\* MigrateNodes moves the nodes a cell overlaps to the cell's NUMA node.
MigrateNodesQuery(cell) == Visited(cell)

\* The nearest k of two sequences of <<distance, id>>; of two at the same
\* distance both are taken, even if that makes one too many.
TopKFillsUp(results, tmp, k) == results \o SubSeq(tmp, 1, Lower(Len(tmp), k - Len(results)))
TopK(results, tmp, k) ==
    LET n == Len(results) + Len(tmp)
        taken[t \in 0..n] ==
            IF t = 0 THEN [out |-> <<>>, a |-> results, b |-> tmp]
            ELSE LET s == taken[t - 1]
                     fromA == [s EXCEPT !.out = Append(@, Head(s.a)), !.a = Tail(@)]
                     fromB == [s EXCEPT !.out = Append(@, Head(s.b)), !.b = Tail(@)]
                     both == [out |-> s.out \o <<Head(s.b), Head(s.a)>>, a |-> Tail(s.a), b |-> Tail(s.b)]
                 IN  IF Len(s.out) >= k \/ (s.a = <<>> /\ s.b = <<>>) THEN s
                     ELSE IF s.a = <<>> THEN fromB ELSE IF s.b = <<>> THEN fromA
                     ELSE IF Head(s.a)[1] < Head(s.b)[1] THEN fromA
                     ELSE IF Head(s.a)[1] > Head(s.b)[1] THEN fromB ELSE both
    IN  taken[n].out

\* KNNQuery: best first, with the distances squared.
KNNQuery(x, y, k) ==
    LET far(n) == <<MinDistance(x, y, tree_nodes[n].box), n>>
        row(n) == [i \in DOMAIN Entries(n) |-> <<MinDistance(x, y, objects[Entries(n)[i]]), Entries(n)[i]>>]
        objectsOf(n) == Ordered(row(n), row(n))
        step(s) ==
            LET top == Least(s.queue)
                full == Len(s.results) >= k
                rest == s.queue \ {top}
            IN  IF s.queue = {} \/ (full /\ top[1] > s.results[k][1]) THEN [s EXCEPT !.queue = {}]
                ELSE IF tree_nodes[top[2]].leaf
                     THEN [queue |-> rest, results |-> TopK(s.results, objectsOf(top[2]), k)]
                ELSE [s EXCEPT !.queue = rest \cup {f \in {far(n) : n \in ASet(Entries(top[2]))} :
                                                       full => f[1] < s.results[k][1]}]
        after[t \in 0..NodeCount] ==
            IF t = 0 THEN [queue |-> {far(root)}, results |-> <<>>] ELSE step(after[t - 1])
    IN  after[NodeCount].results

-----------------------------------------------------------------------------
\* The objects that are in a leaf, and those that come back to one.
Placed == UNION {ASet(Entries(n)) : n \in Leaves}
Kept == Placed \cup ASet(pending)

\* The type of every variable.
NodeT == [box : RectT, kids : Seq(Nat), overflow : BOOLEAN, leaf : BOOLEAN, father : Nat \cup {-1}]
TypeOK ==
    /\ Nodes = 0..NodeCount - 1 /\ \A n \in Nodes : tree_nodes[n] \in NodeT
    /\ DOMAIN objects = 0..ObjectCount - 1 /\ \A k \in DOMAIN objects : objects[k] \in RectT
    /\ root \in Nodes /\ iter \in Nodes /\ height \in Nat \ {0}
    /\ setup \in DOMAIN Setups /\ maximum_entry = conf.max /\ minimum_entry = conf.min
    /\ tmp_sorted_children \in Seq(Nodes) /\ candidate_split_action \in Seq(Locations)
    /\ {Len(sorted_split_loc), Cardinality(DOMAIN split_locations)} \subseteq {0, 2 * CutsPerOrder}
    /\ pc \in {"idle", "try", "insert", "split", "sorted", "candidates", "action", "weighted", "undefined"}
    /\ rec \in Nat /\ ASet(pending) \subseteq DOMAIN objects
    /\ Cardinality(copy) <= 1 /\ \A c \in copy : DOMAIN c = {"tree_nodes", "objects", "root", "height"}

\* The nodes hang together: each but the root is a child of the node its father
\* field names and of no other, all leaves are height - 1 levels below the
\* root, and no object is in two places.
Linked ==
    /\ tree_nodes[root].father = -1
    /\ \A n \in Nodes \ {root} : \E m \in Nodes \ Leaves :
           tree_nodes[n].father = m /\ n \in ASet(Entries(m))
    /\ \A n \in Nodes : Cardinality(ASet(Entries(n))) = Len(Entries(n))
    /\ \A m, n \in Nodes : m # n /\ (m \in Leaves <=> n \in Leaves) =>
           ASet(Entries(m)) \cap ASet(Entries(n)) = {}
    /\ LET level[h \in 1..height] ==
               IF h = 1 THEN {root} ELSE UNION {ASet(Entries(m)) : m \in level[h - 1]}
       IN  level[height] = Leaves

\* No node overflows, and each but the root has at least minimum_entry entries
\* (and an inner root two), except that during an insertion the node about to
\* be split has too many.  No split ends the program, and none is left undefined
\* but that of a leaf whose objects lie on a line, or an inner node on a point.
WithoutExtent(n) ==
    LET box == MergeRange(EntryBoxes(n), Entries(n))
        flat == {order \in {"left", "bottom"} : Length(box, order) <= 0}
    IN  IF n \in Leaves THEN flat # {} ELSE flat = {"left", "bottom"}
FanOut ==
    /\ pc # "exited"
    /\ pc = "undefined" => tree_nodes[iter].overflow /\ WithoutExtent(iter)
    /\ \A n \in Nodes :
        LET k == Len(Entries(n))
        IN  /\ tree_nodes[n].overflow <=> k > maximum_entry
            /\ k > maximum_entry => n = iter /\ pc \in {"split", "sorted", "candidates", "action", "weighted", "undefined"}
            /\ n # root => k >= minimum_entry
            /\ n = root /\ n \notin Leaves => k >= 2

\* After any sequence of insertions and splits the nodes form one balanced tree
\* whose nodes are as full as they may be.  Link, which divides the entries and
\* gives children to a sibling, is where this could break.
OneTree == Linked /\ FanOut

\* Whenever no insertion is under way every box is exactly the box of the
\* entries below it: splitting and reinserting give boxes back as well as
\* take them.  During an insertion a box is at least that.
TightBoxes ==
    \A n \in Nodes :
        LET of == MergeRange(EntryBoxes(n), Entries(n))
        IN  Entries(n) # <<>> => IF pc \in {"idle", "try"} THEN tree_nodes[n].box = of
                                 ELSE Contains(tree_nodes[n].box, of)

\* A query counts exactly the objects in the leaves that contain it: no box or
\* link on the way misleads it.
CountExact == \A q \in Queries : Query(q) = Cardinality({k \in Placed : Contains(objects[k], q)})

\* Registering the tree with a grid moves every node of positive extent that
\* has a place in one of the cells; a leaf whose objects lie on one line is
\* the exception, since only strict overlap counts.
CellsMoveEveryNode ==
    pc = "idle" => \A n \in Nodes :
        LET box == tree_nodes[n].box
        IN  box.left < box.right /\ box.bottom < box.top =>
                \E c \in Cells : n \in MigrateNodesQuery(c)

\* Both ways down the tree, asked between any two calls of an insertion, reach
\* what they are to reach, though boxes only grow on the way to the leaf and
\* shrink at a split.
QueryExact == CountExact /\ CellsMoveEveryNode

\* KNNQuery finds the nearest: no other object is closer than one it returns,
\* it returns none twice, and as many as were asked for if there are so many.
\* (It may return one more, which does not fit the caller's array.)
KNNNearest ==
    \A p \in Points : \A k \in 1..3 :
        LET found == KNNQuery(p[1], p[2], k)
            ids == {found[i][2] : i \in DOMAIN found}
        IN  /\ ids \subseteq Placed /\ Cardinality(ids) = Len(found)
            /\ Len(found) >= Lower(k, Cardinality(Placed)) /\ Len(found) <= k + 1
            /\ \A i \in DOMAIN found : i <= k => \A j \in Placed \ ids :
                   MinDistance(p[1], p[2], objects[j]) >= found[i][1]

\* No step loses, changes or invents an object: splits and reinsertions are
\* invisible to whoever sees only the collection.
Contents == INSTANCE RectangleSet WITH
    Rectangle <- RectT,
    stored <- [k \in Kept |-> objects[k]],
    saved <- {c.objects : c \in copy}
ContentsSpec == Contents!Spec

\* Every insertion that has begun ends, its splits and reinsertions included, or
\* RRSplit uses an index it has not set, after which nothing is promised.
EveryInsertionEnds == pc # "idle" ~> pc \in {"idle", "undefined"}
=============================================================================
