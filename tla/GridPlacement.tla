----------------------------- MODULE GridPlacement ----------------------------
(***************************************************************************)
(* How main places the index before it starts any thread (src/erebus.cpp): *)
(* the grid manager (src/scheduling/GM.cpp) divides the key space into     *)
(* cells, counts the keys of each, and moves the B-tree's nodes to the     *)
(* NUMA node of the cell they serve (BTreeOLCIndex::migrate_ over          *)
(* BTree::migratory_scan_); main then counts how many nodes lie where      *)
(* (count_numa_division).                                                  *)
(*                                                                         *)
(* Nobody else uses the tree yet, so a descent is one step, and the tree   *)
(* is what the inserts have left: leaves in key order, each separated from *)
(* the next by its greatest key, under inner nodes of `Fanout' leaves each *)
(* and a root.                                                             *)
(***************************************************************************)
EXTENDS Doubles, FiniteSets, Sequences, FiniteSetsExt

CONSTANTS
  Instances,     \* what may be loaded: [min, max, leaves], leaves a sequence of key sets
  xPar,          \* the number of cells
  NumaNodes,
  Allocated,     \* where a node lies that was never moved
  Fanout

ASSUME CellsAssumption == xPar \in Nat \ {0} /\ Fanout \in Nat \ {0}
ASSUME InstancesAssumption ==
  \A inst \in Instances :
    /\ inst.min \in Nat /\ inst.max \in Nat /\ inst.min < inst.max
    /\ inst.leaves \in Seq(SUBSET Nat) \ {<<>>}
    /\ \A j \in DOMAIN inst.leaves : inst.leaves[j] # {} /\ IsFiniteSet(inst.leaves[j])
    /\ \A i, j \in DOMAIN inst.leaves :
         i < j => \A h \in inst.leaves[i], k \in inst.leaves[j] : h < k
\* The bound on numbers is out of the way of the keys, and of the borders and what
\* leads to them, whatever is rounded up on the way.
ASSUME BoundAssumption ==
  \A inst \in Instances :
    /\ 256 * (inst.max * Unit + xPar) < Limit
    /\ \A j \in DOMAIN inst.leaves : \A k \in inst.leaves[j] : k * Unit < Limit
ASSUME NodesAssumption == IsFiniteSet(NumaNodes)

VARIABLES
  inst,           \* the instance at hand
  numaConfig,     \* the NUMA node of each cell, from the configuration file
  glbGridCell,    \* the borders of the cells
  DataDist,       \* the keys of each cell
  place,          \* where each node of the tree lies
  pc,
  gc,             \* the cell enforce_scheduling has come to
  count,          \* entries the current call has found
  nextKey,        \* where its next scan begins
  numa_nodes      \* nodes counted on each NUMA node

vars == <<inst, numaConfig, glbGridCell, DataDist, place, pc, gc, count, nextKey,
          numa_nodes>>

GridCells == 0..(xPar - 1)

-------------------------------------------------------------------------------
\* The tree.
LeafNumbers == DOMAIN inst.leaves
InitKeys    == UNION {inst.leaves[j] : j \in LeafNumbers}

leaf(j)  == <<"leaf", j>>
inner(j) == <<"inner", (j - 1) \div Fanout>>
Root     == <<"root", 0>>
InnerNodes == {Root} \cup {inner(j) : j \in LeafNumbers}
TreeNodes  == InnerNodes \cup {leaf(j) : j \in LeafNumbers}
Descent(j) == {Root, inner(j), leaf(j)}

\* The leaf a search for k ends at.
LeafOf(k) ==
  LET notBelow == {j \in LeafNumbers : Max(inst.leaves[j]) >= k}
  IN  IF notBelow = {} THEN Len(inst.leaves) ELSE Min(notBelow)

\* The first `most' entries of that leaf from k on.
Entries(k, most) ==
  LET onwards == {h \in inst.leaves[LeafOf(k)] : h >= k}
  IN  {h \in onwards : Cardinality({g \in onwards : g < h}) < most}

-------------------------------------------------------------------------------
Init ==
  /\ inst \in Instances
  /\ numaConfig \in [GridCells -> NumaNodes]
  /\ glbGridCell = [c \in GridCells |-> [lx |-> 0, hx |-> 0]]
  /\ DataDist = [c \in GridCells |-> 0]
  /\ place = [n \in TreeNodes |-> Allocated]
  /\ pc = "register"
  /\ gc = 0
  /\ count = 0
  /\ nextKey = 0
  /\ numa_nodes = [n \in NumaNodes \cup {Allocated} |-> 0]

\* linspace(minXSpace, maxXSpace, xPar + 1)
linspace ==
  LET start == OfInteger(inst.min)
      end   == OfInteger(inst.max)
      delta == Over(Minus(end, start), xPar)
  IN  [i \in 0..xPar |-> IF i = xPar THEN end ELSE Plus(start, Times(delta, i))]

WidthFromZero == linspace[1]
delX == Minus(linspace[1], linspace[0])

\* A cell ends one width behind its start.
upperBorder(c) == Plus(linspace[c], delX)

register_grid_cells ==
  /\ pc = "register"
  /\ glbGridCell' = [c \in GridCells |-> [lx |-> linspace[c], hx |-> upperBorder(c)]]
  /\ pc' = "distribution"
  /\ UNCHANGED <<inst, numaConfig, DataDist, place, gc, count, nextKey, numa_nodes>>

\* Both borders belong to a cell, also when a router looks for a query's cells.
InCell(k, c) ==
  /\ OfInteger(k) >= glbGridCell[c].lx
  /\ OfInteger(k) <= glbGridCell[c].hx
CellsOf(k) == {c \in GridCells : InCell(k, c)}
KeysOf(c)  == {k \in InitKeys : InCell(k, c)}

buildDataDistIdx ==
  /\ pc = "distribution"
  /\ DataDist' = [c \in GridCells |-> Cardinality(KeysOf(c))]
  /\ pc' = "scan"
  /\ UNCHANGED <<inst, numaConfig, glbGridCell, place, gc, count, nextKey, numa_nodes>>

-------------------------------------------------------------------------------
\* enforce_scheduling: migrate_(lx, DataDist[i], idNUMA) for one cell after the
\* other.

SameKey(k) == k
incKey(k)  == k + 1

\* `found' is what a scan of the call has returned, `total' what all of them have:
\* a scan that finds nothing ends the call, as does the cell's last entry.
RangeOnly(found, total) == total >= DataDist[gc] \/ (pc = "scan" /\ found = {})
EndOfCall(found, total) == total >= DataDist[gc] \/ found = {}

CellTooMany == gc < xPar
MoreCells   == gc + 1 < xPar

\* Go on behind the last entry, with the next cell, or after the last cell.
Continue(found, total) ==
  IF EndOfCall(found, total)
    THEN /\ count' = 0
         /\ nextKey' = 0
         /\ gc' = gc + 1
         /\ pc' = IF MoreCells THEN "scan" ELSE "divide"
    ELSE /\ count' = total
         /\ nextKey' = IF found = {} THEN nextKey ELSE incKey(Max(found))
         /\ gc' = gc
         /\ pc' = "move"

\* Where the cell's first scan begins.
FirstKey(c) == ToInteger(glbGridCell[c].lx)

\* count = idx.scan(key, range, results): the first leaf is read, not moved.
ScanFirst ==
  /\ pc = "scan"
  /\ LET found == Entries(FirstKey(gc), DataDist[gc])
     IN  Continue(found, Cardinality(found))
  /\ UNCHANGED <<inst, numaConfig, glbGridCell, DataDist, place, numa_nodes>>

\* The nodes that are moved: all on the way down.
LeafAlone(k) == {leaf(LeafOf(k))}
OnTheWay(k)  == Descent(LeafOf(k))

\* migratory_scan_: they are moved, then the leaf is read.
migratory_scan_ ==
  /\ pc = "move"
  /\ place' = [n \in TreeNodes |-> IF n \in OnTheWay(nextKey) THEN numaConfig[gc] ELSE place[n]]
  /\ LET found == Entries(nextKey, DataDist[gc] - count)
     IN  Continue(found, count + Cardinality(found))
  /\ UNCHANGED <<inst, numaConfig, glbGridCell, DataDist, numa_nodes>>

-------------------------------------------------------------------------------
\* count_numa_division(min_x, max_x, 100000): count the nodes of the first
\* descent and the leaf of every later one.  The range is beyond any leaf.
key1 == ToInteger(OfInteger(inst.min))
key2 == ToInteger(OfInteger(inst.max))

Tally(visited) ==
  numa_nodes' = [m \in DOMAIN numa_nodes |->
                   numa_nodes[m] + Cardinality({n \in visited : place[n] = m})]

\* full_scan from k, and what the loop makes of what it found.
full_scan(k, visited) ==
  LET found == {h \in Entries(k, Cardinality(InitKeys)) : h < key2}
  IN  /\ Tally(visited)
      /\ IF found = {} \/ incKey(Max(found)) > key2
           THEN pc' = "done" /\ nextKey' = 0
           ELSE pc' = "next" /\ nextKey' = incKey(Max(found))
      /\ UNCHANGED <<inst, numaConfig, glbGridCell, DataDist, place, gc, count>>

DivideFirst ==
  /\ pc = "divide"
  /\ full_scan(key1, Descent(LeafOf(key1)))

InnerAgain ==
  /\ pc = "next"
  /\ full_scan(nextKey, Descent(LeafOf(nextKey)))
DivideNext ==
  /\ pc = "next"
  /\ full_scan(nextKey, {leaf(LeafOf(nextKey))})

Done == pc = "done" /\ UNCHANGED vars

\* A round of the loops over cells and leaves.
Loops == ScanFirst \/ migratory_scan_ \/ DivideFirst \/ DivideNext

Next == register_grid_cells \/ buildDataDistIdx \/ Loops \/ Done

Spec == Init /\ [][Next]_vars

\* main is the only thread, and it goes on with the loops.
FairSpec == Spec /\ WF_vars(Loops)

-------------------------------------------------------------------------------
TypeOK ==
  /\ numaConfig \in [GridCells -> NumaNodes]
  /\ glbGridCell \in [GridCells -> [lx : Nat, hx : Nat]]
  /\ DataDist \in [GridCells -> 0..Cardinality(InitKeys)]
  /\ place \in [TreeNodes -> NumaNodes \cup {Allocated}]
  /\ pc \in {"register", "distribution", "scan", "move", "divide", "next", "done"}
  /\ gc \in 0..xPar
  /\ pc \in {"scan", "move"} => gc \in GridCells
  /\ count \in 0..Cardinality(InitKeys)
  /\ nextKey \in Nat
  /\ numa_nodes \in [NumaNodes \cup {Allocated} -> Nat]

\* How far the last cell reaches.
GridEnd == glbGridCell[xPar - 1].hx

\* xPar times what the roundings of a border add up to at most (rounded up to whole
\* spacings): the seven sums, differences and products that make the end of a cell
\* are each off by half the distance of the doubles where the grid ends, and the
\* width, a quotient that is multiplied by up to xPar, by half that of its own.
Drift ==
  LET end   == OfInteger(inst.max)
      width == Minus(end, OfInteger(inst.min)) \div xPar
  IN  xPar * (4 * Spacing(IF GridEnd > end THEN GridEnd ELSE end) + xPar * Spacing(width))

(***************************************************************************)
(* Over any key space, at any precision: a key lies in the cell that the   *)
(* division of the key space gives it and in no other, unless it is within *)
(* Drift of a border.  There the cells may overlap or leave a gap, and the *)
(* last one may end before the space does: a router then sends a query     *)
(* twice, or drops it.  (Registered cells are not changed any more.)       *)
(***************************************************************************)
CellsDivideKeySpace ==
  pc = "distribution" =>
    LET start     == OfInteger(inst.min)
        width     == OfInteger(inst.max) - start
        drift     == Drift
        border(c) == xPar * start + c * width      \* times xPar, without rounding
    IN  \A k \in inst.min..inst.max :
          LET x  == xPar * OfInteger(k)
              of == CellsOf(k)
          IN  \A c \in GridCells :
                /\ border(c) + drift < x /\ x + drift < border(c + 1) => c \in of
                /\ c \in of => border(c) <= x + drift /\ x <= border(c + 1) + drift

\* The leaves all of whose keys lie in cell c and in no other.
Within(c) == {j \in LeafNumbers : \A k \in inst.leaves[j] : CellsOf(k) = {c}}
Shares(j, c) == \E k \in inst.leaves[j] : k >= FirstKey(c) /\ c \in CellsOf(k)

(***************************************************************************)
(* Where enforce_scheduling leaves the index: a leaf of several keys, all  *)
(* of one cell, lies on that cell's NUMA node if the leaf before it also   *)
(* holds a key of the cell, one that the cell's scan does not begin        *)
(* behind; the number of entries that a call goes by and the keys it       *)
(* continues at fit together over any borders and leaves.                  *)
(***************************************************************************)
LeavesFollowTheirCell ==
  pc \in {"divide", "next", "done"} =>
    \A c \in GridCells : \A j \in Within(c) :
      j > 1 /\ Shares(j - 1, c) /\ Cardinality(inst.leaves[j]) > 1 =>
        place[leaf(j)] = numaConfig[c]

(***************************************************************************)
(* "INDEX_MIGRATION_COMPLETED" (GM.cpp): every leaf that serves one cell   *)
(* only is on the NUMA node of that cell.                                  *)
(***************************************************************************)
IndexMigrated ==
  pc \in {"divide", "next", "done"} =>
    \A c \in GridCells : \A j \in Within(c) : place[leaf(j)] = numaConfig[c]

(***************************************************************************)
(* Inner nodes serve several cells.  They end up where the last of their   *)
(* leaves that was moved lies.  So it is in the key spaces and at the      *)
(* precision that are checked, not in all: a call that counts keys which   *)
(* are rounded up to its border goes further than its cell, and a later    *)
(* cell's may begin before the leaf it came to (with four significant      *)
(* bits, in a key space from 35 to 41).                                    *)
(***************************************************************************)
InnerFollowsLastLeaf ==
  \A n \in InnerNodes :
    LET moved == {j \in LeafNumbers : n \in Descent(j) /\ place[leaf(j)] # Allocated}
    IN  place[n] = IF moved = {} THEN Allocated ELSE place[leaf(Max(moved))]

(***************************************************************************)
(* The division that is printed counts the inner nodes of the first        *)
(* descent, every leaf with a key of the range once, and one leaf more:    *)
(* that of the scan that finds nothing, whether or not it has been counted *)
(* before.                                                                 *)
(***************************************************************************)
CountedOnce ==
  pc = "done" =>
    LET total   == SumFunctionOnSet(numa_nodes, DOMAIN numa_nodes)
        inRange == {j \in LeafNumbers : \E k \in inst.leaves[j] : key1 <= k /\ k < key2}
    IN  total = 2 + Cardinality(inRange) + 1

\* The loops of enforce_scheduling, migrate_ and count_numa_division end.
Finishes == pc = "scan" ~> pc = "done"
===============================================================================
