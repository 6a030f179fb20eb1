# A TLA+ model of P-MOSS

P-MOSS runs an in-memory index on a machine with several NUMA nodes: router
threads turn a workload into queries, a grid over the key space decides which
worker thread (which core) executes a query, the worker executes it on one
shared index, and sweeper threads collect what the cores and the memory channels
did, grid cell by grid cell, so that a scheduler outside the program can learn a
better placement of cells on cores and of index nodes on memory.

This directory holds TLA+ modules of that program, the TLC configurations that
check them on small instances, and TLAPS proofs of what matters most. Paths
below are relative to the repository root.

## 1. Inventory

| Component | State it keeps | Operations | Talks to |
|---|---|---|---|
| `OptLock` (`src/storage/btree/btree.h` 22-91) | one atomic 64-bit word per node: version, lock bit, obsolete bit | `readLockOrRestart`, `checkOrRestart`, `readUnlockOrRestart`, `upgradeToWriteLockOrRestart`, `writeUnlock`, `writeUnlockObsolete` | every B-tree operation |
| `BTree` (`src/storage/btree/btree.h` 93-693) | root pointer, leaves, inner nodes | `insert`, `lookup`, `scan`; migration: `full_scan`, `migratory_scan`, `migratory_scan_` | called by all workers at once, and by `main` before they start |
| `BTreeOLCIndex` (`src/storage/index.h`) | the tree | `insert`, `upsert`, `find`, `scan` (a loop of `BTree::scan`), `migrate`, `migrate_`, `count_numa_division` | workers, `GridManager` |
| `TPManager` (`src/threads/TPM.cc`) | per worker: job queue, sample queue, executed-query counts; per sweeper: three reels; flags `running` | `init_*`, `terminate_*`, `dump_*` and the thread bodies of routers, workers, system sweeper, core sweepers | everything below through concurrent queues and plain shared variables |
| `GridManager` (`src/scheduling/GM.cpp`) | cells with a rectangle, an owner core and a NUMA node; counters of pushed and completed queries; data distribution | `register_grid_cells`, `register_index`, `buildDataDistIdx`, `enforce_scheduling`, printing | routers read the cells, routers and workers count in them |
| `main`, `Erebus` (`src/erebus.cpp`) | - | load data, build the index, place the cells, start threads, sleep, stop the core sweepers, dump, `exit(0)` | all |
| `QuadTree` (`src/storage/qtree/qtree.cpp`) | buckets with objects, per object a pointer to its bucket | `insert`, `remove`, `update`, `clear`, `getObjectsInBound`, `MigrateNodesQuad` | `Erebus::build_idx`, workers' queries, `GridManager::enforce_scheduling` by overload |
| `RTree` (`src/storage/rtree/rtree.cpp`) | nodes, objects, and what calls leave for later calls: sorted children, sorted and listed cuts | ways to insert (`DefaultInsert`, `TryInsert`, `InsertWithLoc`, ...), ways to split (five strategies, three numberings of cuts, RR*, reinsertion), states and costs for a learned policy, `Query`, `KNNQuery`, `MigrateNodes`, `CopyTree`, `Clear` | its `extern "C"` interface, called by a driver outside the program; `Erebus::build_idx`, `GridManager` by overload |
| YCSB generator (`src/ycsbc/`) | insertion counters, window of acknowledged inserts, distributions | `DoTransaction`, `NextTransactionKeyNum`, `Acknowledge` | routers |
| `ResourceManager`, profiling, utilities | maps and counters | - | - |

What makes it hard, component by component, and what being correct means there:

* **OptLock and BTree.** Readers take no locks. They remember a version, read a
  node that may be changing under them, and must throw the result away unless
  the version is still the same. An insert splits full nodes on the way down,
  holding at most two locks, and restarts from the root on every conflict; it
  has seven ways out that must each give back exactly what was taken. Correct
  means: locks are exclusive and always given back; no torn read is used; an
  insert lands in the leaf that a search for its key ends at; the tree stays
  searchable while splits are half done; to its callers the tree is an ordered
  map whose calls take effect at one instant; every call returns.
* **The index's scan** glues several leaf scans together by a continuation key
  computed from the last payload, with a fresh descent each. Correct means:
  ascending, nothing twice, nothing missing that was there all the time.
* **TPManager.** Routers, workers, sweepers and `main` share queues without an
  order between them, and counters, maps and vectors without any
  synchronisation. A window of samples is ended by a token pushed through the
  same queue. Correct means: a routed query is executed once; windows partition
  the samples; the views of one sweep describe the same moment up to a stated
  slack; what `main` dumps fits together although nobody waits for anybody.
* **GridManager.** Closed intervals with computed borders, and counters
  incremented by everybody. Correct means: every key has a cell, and counts
  differ from what happened only in the way lost updates allow.
* **YCSB.** A sliding window of acknowledgements and a rejection loop. Correct
  means: the limit never passes an unacknowledged insert, and the loop ends.
* **QuadTree.** Sequential. Inserting moves an object on by removing it, and
  removing joins buckets that inserting has just made. Correct means: every
  object's pointer leads to the bucket it is in; a query counts every object
  once; no bucket is left full or hollow; a bucket ends up where the last cell
  that touches it belongs.
* **R-tree.** Sequential, but an insertion is a sequence of calls with choices of
  the driver in between, and a policy's choice is a *number*: of a child, of a
  cut, of a row it was shown. Forty loops list children and cuts, each on its
  own. Correct means: after every insertion one balanced tree with tight boxes
  and fan-out in bounds, whichever way was taken; queries exact even while an
  insertion is under way; nothing lost by splits and reinsertions; a number
  means the same thing to the code that shows and to the code that acts; every
  insertion ends.

`PROJECT.json` lists every hazard at its line with the properties that cover it.

## 2. Plan

Ordered by how much of the system's behaviour rests on it.

1. `OptLock`, `AtomicCell` - the lock protocol and what it promises. *Done,
   proved.*
2. `BTreeOLC`, `KVIndex`, `RoutedKeys` - the concurrent tree under the index,
   and the ordered map it implements. *Done for insert, lookup and scan; all
   safety properties and the refinement are proved.*
3. `ThreadPool` - routers, workers, sweepers, `main`. *Done; every property
   that holds is proved.*
4. `GridPlacement`, `Doubles` - cells, the data distribution, and
   `enforce_scheduling` with `migrate_`, `migratory_scan_` and
   `count_numa_division`. *Done; proved but for `InnerFollowsLastLeaf`.*
5. `QuadTree` - insert, remove, update, query and migration against the set of
   objects. *Done, proved.*
6. `Rectangles`, `NodeSplits`, `RTree`, `RTreeQueries`, `RTreeStates`,
   `RectangleSet` - the R-tree. *Done but for what section 8 lists; every
   safety property and the refinement are proved.*

The index's other migration path (`migrate` over `migratory_scan`) was planned
and dropped, because nothing calls `migrate`; so was the YCSB generator (section 8).

Abstract specifications: `AtomicCell` for 1, `KVIndex` for 2, `RectangleSet`
for 6.

Every safety property that holds of all values of the constants is proved
(section 6). `InnerFollowsLastLeaf` of 4 is not among them: it depends on how
coarsely borders are rounded, and not every key space satisfies it.

## 3. Modules

### OptLock, AtomicCell

`OptLock` is the lock word with all its operations and the protocol its users
follow: remember the word, read the node field by field, then either accept
(`readUnlockOrRestart`) or upgrade, write field by field, unlock. A node is two
fields so that half an update is visible; every action is one shared access.
Names are those of the code; `version` and `got` are the thread's locals.
`AtomicCell` is one indivisible value that can be read, incremented and retired.

`writeUnlockObsolete` is modelled because the lock offers it, but no operation
of the tree calls it. `checkOrRestart` is `readUnlockOrRestart` in the code, and
here. The word is a natural number: the 64-bit version would need 2^62 writes to
one node to wrap.

### BTreeOLC, KVIndex, RoutedKeys

`BTreeOLC` is `insert`, `lookup` and `scan` of the tree and `insert`, `find` and
`scan` of the index, with one action per access to shared memory (root pointer,
lock word, contents of a node). What the thread holds in locals (`node`,
`parent`, `versionNode`, `versionParent`, `newLeaf`/`newInner`, `sep`) are
per-thread variables; `pc` names the access it makes next. The descent is the
same text in the three operations and is modelled once.

* The sorted arrays of a node are functions: a leaf maps keys to payloads, an
  inner node maps each separator to the child up to it. `lowerBound`, the
  shifting `memmove`s and the copying of a split are what these functions do,
  including which key becomes the separator and which half each entry goes to.
* A node is written only under its lock, so a write is one step. A read of
  several fields that overlaps a write yields `Torn`; the model then shows that
  it is never followed or returned. A single-word read (`count` in `isFull`) is
  the word as it is.
* The re-check of the root after an upgrade (294, 340) is modelled although
  the upgrade succeeding already implies it.
* A find of an absent key returns an unassigned variable (`success`, 407); the
  specification leaves that result open.
* `Loader` is `main`, which fills the tree before it starts the threads.

`KVIndex` is the ordered map. `Index == INSTANCE KVIndex WITH ...` is the
refinement mapping: the map is the union of the leaves, an insert takes effect
at `Put`, a find or one fetch of a scan when the leaf is validated.

`RoutedKeys` is the way of a key through the `double` fields of a `Rectangle`
(router to worker); beyond 2^53 neighbouring doubles are more than one apart.

### ThreadPool

One `pc` per thread; the actions are the statements of the four thread bodies
and of the end of `main`, cut at every access to something another thread
uses. A query is the cell it was assigned to.

* `freqQueryDistPushed[i]++` is a load and a store of two steps, because the
  counters are plain integers.
* The job queue is a priority queue ordered by `qStamp`, which is never
  assigned, so any job may come out next. Samples and channel samples are FIFO
  queues; their `qType` is never assigned, so it may read as anything in the
  constant `UnsetType`.
* A sweep is: token to each worker, token to the channel queue (sweeper 0), take
  each worker's samples up to the token, add a row, sum the executed counts
  worker by worker, add a row, take the channel samples, add a row.
* Sleeps take any time. `terminate_*` clears the flags one by one; `main` then
  dumps without waiting. `exit(0)` stops everybody where they are. Routers and
  workers are never told to stop.
* The correlation matrix and the `qType` histogram are written and never read;
  they are left out. Row 0 of the memory-channel reel stands for a row that was
  never filled.

### GridPlacement, Doubles

What `main` does between building the index and starting the threads
(`src/erebus.cpp` 457-462). It is sequential, so a descent of the tree is one
step, and the tree is what inserts alone leave: consecutive leaves, each
separated from the next by its greatest key, under two levels of inner nodes.

* `register_grid_cells` computes the borders as the code does: `linspace`, the
  width of the first cell, and every cell one such width long. `Doubles` is the
  rounding: after each operation to the nearest number with `Significand` bits.
* `InCell` is the closed interval that `buildDataDistIdx` and the routers use.
  A cell ends one rounded width behind its start, which need not be where the next
  one starts, nor, for the last one, where the key space ends. A key there lies in
  two cells or in none, and a router then sends its query twice, or drops it
  (`src/threads/TPM.cc` 1253). `CellsDivideKeySpace` says how near to a border a key
  has to be for that: within `Drift`, which is half a spacing of the doubles at the end
  of the grid for each of the seven operations that make a border, and half a spacing of
  the width for each cell before it, rounded up and compared with `xPar` times the
  numbers, so that the exact borders are whole. It is said of every key space and precision.
* `ScanFirst` and `migratory_scan_` are one call each inside the loop of
  `migrate_`: the first leaf is only read, the others are moved with all nodes
  above them. `DivideFirst` and `DivideNext` are the two calls of `full_scan`.
* The instances (key space and leaves) are chosen in `Init`: dense and sparse
  data, spaces that fit the data, exceed it or leave some of it out, all ways
  to cut the data into leaves of up to three keys, all placements of cells.
* `LeavesFollowTheirCell` is bounded twice by what the code does. A leaf of one key
  may be missed, because a call begins at the whole part of a border and so may spend
  one of the entries it goes by on a key before the cell. And a leaf before it has to
  hold a key of the cell *from that whole part on* (`FirstKey`): a key that is
  rounded up to the border belongs to the cell but lies before its first scan, and if
  it alone makes the two leaves share the cell, the call reads the second one first
  and does not move it. An attempt to prove the property without the second
  condition failed there; `OddInstances` in `MCGridPlacement` are such key spaces.

### QuadTree

A bucket is named by its path from the root, a sequence of child numbers, so
that which buckets there are and what lies in them are the whole state; `qt` and
`bound` are the fields of an object.

* `insert` comes to rest where no child fits, subdivides a leaf that it fills,
  and moves on the object that filled it alone (by `update`, hence by `remove`).
  `discardEmptyBuckets` climbs as long as a bucket is hollow.
* A rectangle on a middle line belongs to no child. Objects may lie beyond the
  square; what a query must then find is only bounded (`QueryExact`).
* A capacity of one makes the code subdivide and join without end; the model
  assumes at least two (`CapacityAssumption`). Sides are divisible as often as
  the tree may be subdivided (`Width` is the side on each level), so that integers
  do for the code's doubles; no width or height is negative.
* `MigrateNodesQuad` is one step per cell, as `enforce_scheduling` calls it.

### Rectangles, NodeSplits, RTree, RTreeQueries, RTreeStates, RectangleSet

`Rectangles` is the geometry, `NodeSplits` the ways to divide the entries of a
node, `RTree` the state machine, `RTreeQueries` what is asked of the tree and
what must hold of it, `RTreeStates` what a policy is shown, `RectangleSet` the
collection that the tree is to its callers. `ContentsSpec` in `RTreeQueries`
is the refinement.

* The driver is whoever calls the `extern "C"` functions: it registers an
  object, calls an insertion function until the object is in a leaf, then a
  splitting function while the node it was given back overflows. One call is
  one action. A *setup* (`Setups`) says which functions it uses, with which
  fan-out and objects; `Init` chooses one. `SetupAssumption` keeps to fan-outs
  for which cuts exist and which `CopyChildren` does not refuse.
* Every split function ends in the same forty lines, which are one operator,
  `Link`. `pc = "exited"` is the `exit` after a refused `CopyChildren`, which `OneTree`
  says is never reached.
* `pc = "undefined"` is an `RRSplit` that has found no cut and uses an index it has
  not set; what happens then is not modelled. Along a side of length zero no cut has
  a weight. The sums of perimeters of the two orders do not tell such a side from the
  other: for objects on one line both are the same, and the code then takes the
  bottom (`src/storage/rtree/rtree.cpp:1197`). So a leaf of points on a vertical
  line is divided and one of points on a horizontal line is not; `OneTree` says that
  `"undefined"` is reached only for a leaf whose objects lie on a line
  (`WithoutExtent`) or an inner node on a point.
* Coordinates are integers, so areas and perimeters are exact; distances are
  squared. Ties are broken as in the code: by the other sides, then by id, or
  the first in the loop's order.
* The exponential weights of RR\* are left open: any cut of the order may be
  taken, and so may any two candidates of the weighted variant.
* `Cells` are the grid manager's: of one size, from a corner on, as
  `register_grid_cells` lays them out. `GridAssumption` has every object in the space
  they divide; the bounds in `main` are those of the data set.
* `ObjectsAssumption`: no object has a negative side. `build_rtree` reads left, right,
  bottom and top of what it calls points (`src/erebus.cpp:48`). It is what makes a box
  no farther than what it contains.
* A state shown to a policy is modelled as its unscaled rows together with the
  bounds each column is scaled by. The tiny constants that keep divisors from
  zero and the two ratios of sides are left out.
* `RetrieveStates` lists Greene's strategy before the quadratic one, the actions
  the other way round; `RowOf` is the order of the rows. The cost of the margin
  strategy looks at four orders where the strategy looks at two; its row only
  bounds what it does.

Operators such as `SortSwapsDimensions` or `RetrieveLosesOne`, in this family and in
the other modules, are wrong variants of the definition that follows them. The
`mutants` of `PROJECT.json` put them in its place to see that a property notices.

## 4. Runs

| Run | Bounds | What it shows |
|---|---|---|
| `opt_lock` | 3 threads, lock word up to 10 | exclusion, refinement of `AtomicCell`, every lock is given back. Three threads are a holder, a failing upgrader and a reader; the bound allows two generations of writers, hence a reader that sleeps through one |
| `btree_root` | 2 workers, one call each out of three inserts, a find and a scan; leaf 2, inner 5 entries; a root with room for one separator over four leaves, the last one full | a leaf split that fills the root, a race to split the root, leaf splits under the new inner nodes, in every interleaving with a reader; refinement of `KVIndex`; every call returns |
| `btree_deep` | 2 workers, three levels, the right inner node with room for one separator | inner splits below the root, searches two levels down, assertions of the node inserts, what an empty leaf scan means |
| `btree_rounded` | 2 workers, two keys per double | **violation**, see section 7 |
| `pool_sweep` | 2 routers with 2 queries between them, 2 workers, 3 sweeps, a sample per query | windows partition the samples; no query is lost; racy counters never run ahead |
| `pool_views` | 1 worker, 3 queries, a sample per 2, 2 sweeps, 1 channel sample, `qType` may read as a token | nothing is reported twice or early; both views of a sweep agree up to one query in the worker's hands; the dumped reels differ by a row at most, whatever the sweeper is doing |
| `pool_outstanding`, `pool_token` | 1 router with 2 queries, 2 workers | **violations**, see section 7 |
| `grid_placement` | 5 cells, 2 NUMA nodes, 8 significant bits, 6 or 7 keys in all cuttings, near zero and at 50 to 60, all placements; 70 key spaces with keys at the last border or with first keys that are rounded up to a border; and 49 key spaces for their cells | which leaves the migration moves where; inner nodes follow the last leaf moved below them; what the division counts; a key lies in its own cell and no other, unless it is within `Drift` of a border; the loops end although a cell's count and its scan disagree on keys that are no doubles |
| `grid_migrated` | 3 cells, 2 NUMA nodes, 9 keys, borders in whole numbers, leaves of one cell each in all cuttings | **violation**, see section 7 |
| `quadtree` | 4 interchangeable objects, 6 places (in one quarter and its quarters, on middle lines, beyond the square), capacity 2, 3 levels, 3 cells | no pointer to a discarded bucket, no object missed or counted twice, no bucket full, hollow or left behind, after any sequence of calls |
| `rtree` | 20 setups: every way to insert and to split by itself, with fan-out 3/2 and 4/2, four to nine objects with alternatives, two with twenty objects and four levels, and one with points on lines | shape, boxes, queries and neighbours after every call; refinement of `RectangleSet`; rows, cuts, candidates and costs mean what is then done; where `RRSplit` is left without a cut; every insertion ends otherwise |

The code has 256 cells (`MAX_GRID_CELL`), which divide by a power of two and so
leave one of the roundings out; five cells make every operation of `linspace` round.
`KeySpaces` begin near zero, or further from zero than they are wide, as that of the WIKI data
does (`src/erebus.cpp:282`). Among them are spaces whose cells overlap, whose cells
leave gaps that a key falls into (from 65), and whose last cell ends up to three keys
early (from 238): `CellsDivideKeySpace` has to hold of all of these keys.

The smallest sizes at which every kind of split happens are used: leaves of two
entries split into one and one; an inner node of the code needs five slots for
both halves to keep a separator (its `isFull` is one early). The trees are
filled by the loader so that one call per worker already meets the interesting
split. A full node is never at rest under a parent or at the root: the insert
whose leaf split filled it restarts and splits it on its way down, unless the
other worker is faster. `pool_sweep` uses the symmetry of its routers and
`quadtree` that of its objects; no symmetry is used where a temporal property
is checked.

An R-tree node of at most three entries of which at least two stay on each side
is the smallest that can be divided; with four there is a choice of cuts. The
boxes overlap, touch, contain one another and degenerate to lines and points,
since ties and strict comparisons are where the loops could part. A setup with
alternatives for its objects shows a split to every choice of them, the setups of
twenty show splits of inner nodes and of the root two levels up. With more
entries per node the same loops run longer.

In `pool_sweep` the unassigned `qType` is assumed never to read as the token:
that is what the windows need to be exact, and `pool_token` shows what happens
without it.

## 5. Fairness

`CallsReturn` and `LockReleased` assume weak fairness of each thread's `Step`:
the scheduler goes on running a thread that is inside a call. Threads are
pinned to cores of their own and never killed before `exit`, so this is what
the code has. Nobody is obliged to start a call.
`Finishes` assumes weak fairness of the loops of `main`, the only thread then.
`EveryInsertionEnds` assumes weak fairness of `Call`: a driver that has begun an
insertion goes on until it is told that the node does not overflow. `MCRTree`
states the same in a form TLC evaluates faster: an insertion is over (or
`"undefined"`) again and again, or calls are made for ever; that a call can always
be made while an insertion is under way is what the search for deadlocks shows, since
`Done` excuses only the driver's end and an `RRSplit` without a cut.
No fairness is assumed between alternatives of a step, and none in
`ThreadPool` and `QuadTree`, whose properties are all safety properties.

## 6. Proofs

`OptLockProofs`, for any set of threads and any bound on the word:

* `IInv` strengthens `TypeOK` and `MutualExclusion`: the word is locked exactly
  while a writer is between upgrade and unlock; a reader's remembered word is
  readable and no greater than the current one; if it *is* the current one, then
  what the thread has read so far is what the node holds. Exclusion alone is not
  inductive, because a successful compare-and-swap rules out another writer only
  if remembered words are known to be unlocked ones.
* `Invariant`, `TypeCorrect`, `Exclusion` follow.
* `Refinement`: `Spec => CellSpec`. Each step is a read, an update or a
  retirement of the cell or leaves it alone; `IInv` supplies that what a reader
  accepts is current.

`BTreeOLCProofs`, for any threads, nodes, keys, payloads, calls and node sizes
that satisfy the named assumptions of `BTreeOLC`:

* `LockInv` strengthens `LockDiscipline` with: remembered words are readable
  (`Remembered`); a thread that holds node and parent holds two different nodes,
  and one that re-checks the root has no parent (`Apart`). With these, a
  successful upgrade always finds a node nobody holds.
* `Discipline`: `Spec => []LockDiscipline`. One lemma per group of actions; the
  shape of the tree plays no part in it.
* `SafeInv`, on top of `LockInv`, is `TypeOK`, `Shape` (no node holds more than its arrays do; the root
  and every child were allocated) and, for each thread, `ThreadOK`: what it has
  seen of a node (it is full, it has room, the child to go to, the payloads
  copied) is true if it holds the node or if the node's word is still the one it
  remembers. None of `TypeOK`, `TornNeverUsed` and `RoomToInsert` is inductive:
  that there is room when a leaf is written depends on the count read before
  the lock was taken, and that a torn child is not followed on the parent's word
  having grown.
* `OthersSafe` is the interference argument: a step changes nodes only if the
  thread holds them, so a word that another thread still finds current belongs to
  a node that did not change. `Divided` (a split) and `Linked` (the separator and
  the sibling enter the parent, or a new root) are the two steps that change the
  shape; `AtIndexOf` counts the elements of a finite set below its i-th, which
  is what the sorted arrays stand for.
* `Safety`, and from it `TypeCorrect`, `TornUnused` and `Room`.

In the same module, under the same assumptions, on top of `SafeInv`:

* `Reachable` follows a recursive path for each key and is far from inductive: what
  a split does to one node says nothing of the paths through it. `SearchInv` says
  it of one node at a time. There is an assignment of keys (`cov`) and of a level
  (`lev`) to the nodes such that (`Layout`) the nodes of a level divide the keys
  (`Disjoint`, `Convex`), an inner node sends each key it covers to a node one
  level down that covers it, and a leaf has only keys it covers and, unless it is
  the last, its greatest one up to which it covers any.
* Between a split and its link nothing leads to the new half. `Rightwards` is the
  step a search would have to make from the old half; the invariant is stated as
  if it did, which costs nothing, because the thread that splits holds the
  parent, or the root, and the old half (`Unseen`, `KnowsHalves`).
* `Knows` is what a thread relies on: while its parent and node are as it saw
  them, the parent covers the key and the node is the parent's child for it. The
  leaf written by `Put`, and the leaf read if the validation succeeds, then
  cover the key. An insert that has locked only the leaf needs that the parent
  was unchanged *after* the leaf was locked: `leafCheckParent`.
* The steps that leave the shape of the tree alone come first, then the split and
  the link, each with the new `cov` and `lev` given. The recursive function `SearchPath` is unfolded by its definition at
  each depth; `lev` bounds the depth. `AllReachable`, `RightLeaf` and `NoMore`
  follow.

In the same module, on top of all these: `Implements`, `Spec => IndexSpec`.

* `Contents`, the union of all leaves, is key by key what the one leaf holds that
  covers the key (`Disjoint`). `Put` changes it at one key; a split divides the
  entries of a leaf between two, a link moves none. `Hidden` are the steps the map
  does not see.
* `RefInv` adds what a thread has read: `ReadOK` says that it is what the leaf
  holds if the leaf's word is the remembered one; `OutOK` that a scan that goes on
  has room for more. Both give the step at which a call takes effect: a find and
  each fetch of a scan when the leaf is validated.
* The entries a fetch returns are those of one leaf from the key on. That they are
  the *first* entries of the whole map from that key on is `Convex` and
  `Disjoint`: no other leaf has a key between two of this one.
* `ScansComplete` follows from the refinement alone: `ScanInv` speaks of the map,
  the results and the key the scan goes on at. While it goes on it has returned
  every key of the snapshot up to there (`Gathered`), and keys are never taken out.
  `ScanComplete` itself says nothing of a scan under way. The theorem takes
  `PayloadsNameKeys`: the payload an insert stores points to the key it is stored
  under, because the scan goes on behind the key the last *payload* points to. The
  loader and the workers insert pointers to the keys themselves
  (`src/threads/TPM.cc`), so it holds of keys that are doubles, and in `btree_root`;
  it does not in `btree_rounded`, whose run shows what happens then.

`ThreadPoolProofs`, for any routers, workers, NUMA nodes and cells, any bounds,
and any garbage in `qType`. It assumes what `ThreadPool` names: each cell has an
owner, each node a list of workers of its own that names each once (a core is
pushed to `NUMAToWorkerCPUs` once, `src/erebus.cpp` 350-366), no thread does two
jobs, and there are finitely many of everything.

* `PoolInv` is `TypeOK`, `Located` (a thread stands where threads of its kind do,
  with a query in its hand when it should have one, its count below the interval),
  `InStep` (how far the reels of a sweeper are apart, by where it stands) and
  `Dumped`. That two dumped rows differ by one is not inductive: they are read at
  different times from reels that still grow.
* `Final` is the number of rows a sweeper will have when it has completed the
  sweep it is in. Once `running` is cleared no step changes it, and every reel,
  whenever it is read, has that many rows or one less (`RowRead`). `Dumped` says
  so of each row recorded, and that the dump begins when all flags are cleared.
* `PoolInvariant`, and from it `TypeCorrect` and `RowsAgree`. Steps of routers and
  workers leave the reels alone (`SweepersUnmoved`), a sweeper leaves those of
  other sweepers alone (`SweeperMoved`).

In the same module, under the same assumptions, on top of `PoolInv`:

* `SumFunctionOnSet` of the community modules is a fold over a finite set, a
  recursive function inside. What the proofs need of it and of finite sets is in
  `FiniteSums`. `SumOf` shows that the sum is the cardinality of a
  set (`Units`: `f[x]` units for each `x`); the lemmas on sums (`SumRest`,
  `SumChange`, `SumPlus`, `SumLeq`, `SumSwap`, ...) follow from facts about
  cardinality or from the smallest subset that would refute them
  (`MinimalSubset`).
* `CountInv` is `NoQueryLost` with `EmptyHanded` (who draws or polls holds no
  query) and `Behind`. That a racy counter is not ahead is not inductive: a
  thread stores one more than a value it loaded long ago. `Behind` says that the
  value *loaded* is no more than what has happened, without the loading thread's
  own query; what has happened only grows, so the value stored is not ahead
  either, in whatever order the stores come.
* `QueriesCounted`: `Spec => []QueriesAccountedFor`.

Also there, on top of these:

* `Window` says of each queue where the token stands: a sweep will find each token
  it pushed and has not taken; the samples behind the last token of a queue (`Late`)
  are those that are not due; what was collected and what is still queued is not
  more than what was sampled. `RowsNeverAhead` follows, for any garbage in
  `qType`.
* `Lossless` adds that a queue holds the token of the sweep under way and no other,
  and that nothing is lost. It is inductive, and `RowsExact` is proved, under
  `UnsetType = {"sample"}`, the assumption `pool_sweep` makes too: otherwise a
  sample may end a sweep and `pool_token` shows what follows.
* `Settled`: a worker has executed what its samples stand for, the queries since
  its last sample, less the one in its hands. `View`: while a sweep counts the
  executed queries, what it has counted and what the workers to come have
  executed cover the rows reported, but for one query per worker. Workers only
  execute more, so it does not matter when the sweeper comes to a worker.
  `SweepViewsAgree` follows when it has come to all.

`QuadTreeProofs`, for any objects, places, capacity of at least two, depth, queries
and cells. It assumes what `QuadTree` names: finitely many objects, at points;
rectangles without negative sides; a side divisible as often as it may be halved; a
null pointer that is no bucket.

* `QuadInv` is `Sound` (the inner buckets hang together, `InnerOK`; pointers and
  buckets agree; no leaf full, no inner bucket hollow), `Placed` and `Moved`.
  `TreeSound` alone says nothing of *where* an object is. `Placed` adds that the
  bucket an object is in lies on the way of its point (`OnWay`): that is what a query
  that goes down by `getChild` relies on, and it survives because joining gives up
  buckets without objects only and subdividing leaves the others where they were.
* The model's recursive functions, `bounds`, `Resting`, `Reached` and the joining, are loops
  of at most `maxLevel`, or as many as a path has, rounds. `Loop` shows that such a
  table exists, hence that the `CHOOSE` behind the model's function is one. Facts about
  all its entries follow from the least entry that would refute them (`LeastNumber`), so no
  induction theorem is needed.
* Removing: `DiscardSound`. While `discardEmptyBuckets` climbs, the only inner bucket that
  may be hollow is the one it comes to next, or the parent of that one
  (`JoiningStep`); it stops at one that is not, so none is left. That the object which fills a leaf can be removed, perhaps joining
  what was just subdivided, and inserted again: `SubdividedSound`, `InsertedSound`.
  After a subdivision the way ends in the leaf or in one of its children
  (`RestingBelow`), which are empty; with a capacity of at least two there is room.
* `ReachedIs` says which buckets a search comes to: those all the way to which it takes
  the child (`Along`). For a migration these are the buckets that the cell touches,
  since a parent encloses its children (`TouchUp`).
* For a query, `InsideReached`: a point within the square that is on the way to a
  bucket lies in that bucket's square (`InChild`), so the search goes on to it, be it
  because the child touches the rectangle or because the rectangle fits into a child,
  which is then the point's child too (`SameChild`). `CountOf` turns the sum over
  buckets into the size of a union of disjoint sets.
* `QuadTypes`, `QuadSound`, `QuadMigrated` and `QuadQueries` follow.

`GridPlacementProofs`, for any instances, number of cells, NUMA nodes and any number
of significant bits. It assumes what `GridPlacement` and `Doubles` name: leaves of
finitely many keys in ascending order; `BoundAssumption`, that the bound on the
model's numbers is out of the way; `NodesAssumption`, finitely many NUMA nodes; and
`PowersAssumption`, that `^` doubles from one exponent to the next (the provers know
no powers, TLC evaluates it).

* Rounding. `ToDouble` rounds to multiples of the spacing that belongs to the number's
  size. `RoundMonotone` says that it keeps the order, also across a change of the
  spacing, and `RoundAgain` that a rounded number is not rounded again. With these
  `Borders` shows that both borders ascend from cell to cell, that each is a number of the
  model, and `RoundedBeyond` that a key beyond the whole part of a border is rounded
  to that border or beyond. Nothing else of rounding is used.
* `TypeInv`, inductive, is `TypeOK` with `BordersAscend`, `Distributed` (what was
  counted is what there is to count) and `Calls` (a call that goes on has counted less
  than it goes by). `PlacementTypeCorrect` follows.
* `CountInv`: while the division is under way the total is two and the leaves with a
  key of the range before the next key (`Seen`), none of which has another key of the
  range. `CountedOnce` alone says nothing of the loop. `DivisionCountsOnce` follows.
* `FollowInv`: the leaves of the cells that are finished lie where they should
  (`Settled`), a call that is `UnderWay` has moved every leaf behind its first one up to the
  one it has come to, and has counted exactly the keys it came across (`Across`).
  `BeforeDue` is why a call does not end early: of the keys before a leaf that is due
  at most one is not the cell's, and the leaf itself holds two. `Passed` is why no later
  call moves the leaf away: it begins at that leaf or behind, reads its first leaf
  without moving it, and returns to the last leaf of all only if no key is
  its cell's, in which case it does not go on. `LeavesFollow` follows.

* `CellsDivideTheKeys`: `CellsDivideKeySpace`, for any key space. `Near` is a distance of two
  numbers, and every operation adds half a spacing of its result (`RoundNear`,
  `OverNear`). No spacing that occurs is coarser than that of the greatest number,
  since what is rounded to at most that number is spaced at most as it is
  (`SpacingRounded`). A quotient is rounded to the spacing of its whole part, which
  counts once for each cell before the border (`BorderNear`); the end of a cell adds
  the first cell's width, made of two rounded borders (`StepNear`, `UpperNear`).

`RTreeProofs`, for any sequence of setups that `SetupAssumption` admits, hence any
fan-outs, objects, strategies and choices of the driver:

* What the calls compute comes first. `Ordered` sorts by counting how many score less;
  `OrderedPermutes` shows that it rearranges, because `Less` orders tuples
  (`LessOrders`) and in an order every rank is taken (`RankTaken` in `FiniteSums`).
  `Divides` is what a split has to be: a row that is one entry too long becomes two
  that are long enough, no entry lost or doubled, each with the box of its entries
  (`BoxOf`). `SplitByDivides` shows it of all five strategies, `RRCutsDivide` and
  `TwoOrdersCutDivides` of the others. The quadratic one is a loop: at each stage the
  sides and what is left divide the row and what is left suffices for either side
  (`StageT`, `AssignedAdvances`).
* `Whole` is a well-formed tree: nodes numbered, a level for each, the root on the
  highest, an inner node's children one level down with the node as father, each node
  but the root a child of its father and nobody else's (`Skeleton`), no object
  in two leaves (`Apart`), fan-outs in bounds (`Roomy`). A call changes it in one of
  three ways: `BoxesChange`, `LeafChanges`, and dividing a node below its father or
  below a new root (`SplitBelow`, `SplitRoot`). `LinkKeeps` is the third
  for every way to choose the halves.
* `OneTree` is not inductive. It says nothing of whether a cut that an earlier call
  listed is a cut of the node now at hand, nor of whether the object being inserted
  is in a leaf already, nor of the copy that may become the tree. `IInv` adds `DriverOK`,
  `SortedOK` and `ListedOK` (what the next call relies on), `PlacesOK` (every object is
  in one leaf, is to be reinserted or is being inserted, and which) and `CopyOK`. That
  `CopyChildren` never refuses, so that `exit` is not reached, follows from the node
  being one too full and no more.
* `Path`, `UpdatedBoxes` and the levels of `Linked` are recursive functions; that
  they are what their equations say is `StepsReach` in `FiniteSums`.
* `TreeTypeCorrect`: `TypeOK`. `TreeStaysOne`: `OneTree`, which needs the boxes too:
  the box of a node about to be divided is that of its entries (`NowTight`), and a node without a cut
  has no extent along the side it would be cut along (`NoCutWithoutExtent`), which
  `Stuck` keeps.
* `Collects`: `Spec => ContentsSpec`, for every setup. Only `Kept` and the copy are
  visible: an object is in the collection from when it is placed
  (`Fresh` is the time before), and being taken out for reinsertion does not take it
  out of the collection (`CallCollects`, `CountIs`).
* `BoxesStayTight`: `TightBoxes`, for every setup and without the condition on `pc`.
  `TightBoxes` allows any slack during an insertion and is not inductive. `NowTight`
  says how much there is: every box is exact but, while a leaf is being looked for,
  that of the father of the node the driver has come to, which is the box of what it
  holds and of the object on its way (`TightBut`). When the child includes the object
  the father is exact and the child is the one that is not (`OneNodeGrows`); a node's
  box is that of its halves together, so a father whose child is divided stays exact
  (`OneDivides`, `BelowTight`); `TryPlace` and a reinsertion change all boxes on a way
  to the root, which meets no other child of the nodes it passes (`WayApart`), and
  make them exact from the leaf up (`WayGrows`, `WayRebuilt`).

`RTreeQueryProofs`, on top of all these, assumes more: queries of positive area
(`QueriesAssumption`), points with whole coordinates (`PointsAssumption`), a grid in
whose space the objects lie (`GridAssumption`) and objects without negative sides
(`ObjectsAssumption`):

* `QueriesExact`: `QueryExact`, between any two calls. A box is at least what is below
  it, so whoever overlaps a node overlaps all above it, and the levels of `Visited`
  are the nodes overlapped on each level (`LevelDown`, `VisitedIs`). The leaves' counts
  sum to the number of objects since no object is in two leaves (`SumDisjoint`). For the
  grid, every box of a node that holds something lies in the space (`BoxesInside`),
  and a box of positive extent there overlaps a cell (`CellMeets`).
* `NearestFound`: `KNNNearest`, between any two calls. The loop of `KNNQuery` takes a
  node from its queue in each turn, and `SearchOK` is its invariant, over the set of
  nodes taken: whichever node has a taken father is taken, is queued, or is at least
  as far as the k-th of k results (`Behind`), and so is each object of a taken leaf
  unless it is a result. A result is only ever replaced by a nearer one, so what is
  behind stays behind (`BehindStays`). When the queue is empty, the highest node that
  was not taken on the way to an object is behind, and an upright object is no nearer
  than its box (`BoxIsNearer`, `NotTaken`, `NotFound`). A node is queued once, so as many turns as
  there are nodes suffice (`SearchEnds`). `TopK` is a loop of its own: `MergeAt` says
  that what is taken are the nearest of both sequences, ascending, and `TakeStepIs`
  why one too many may come of a tie, but never two.
* `CutsShownAreCuts`: `CutsAsShown`. A sweep that builds the boxes of both sides step by step
  and the cut that a number stands for are boxes of the same entries (`OneBox`,
  `SweepIsCut`). What an earlier call has sorted or listed is what it would list of the
  node at hand (`AsListed`), because nothing but the listing call and the one that uses
  the list runs in between. A scaled value lies within its bounds (`RangeFractions`).
* `ChildrenShownAreChildren`: `ChildrenAsShown`. Rows beyond the children wrap around as the
  descent does (`WrapsAround`); the features of a child that is enlarged are not
  negative, for objects without negative sides, so that dividing by the greatest
  makes fractions of them (`InsertFeaturesAre`, `MaxFractions`). The greedy choices and
  the strategies both take the first of the least (`FirstLeastIs`, `GreedyAgree`).
* `StrategiesAreAsTold`: `RowIsWhatStrategyDoes`. The cost of each strategy and the strategy
  order the same entries and cut them at the same place (`OrderedTwice`,
  `CostOfHalves`); the margin strategy looks at two of the four orders its cost looks at
  (`FourOrdersBound`). The quadratic cost is a loop beside the strategy's loop, and
  `CostKeepsPace` says that after the same number of turns both have the same boxes and
  the same entries left.

Only model-checked:

* liveness (`LockReleased`, `CallsReturn`, `Finishes`, `EveryInsertionEnds`), which
  needs fairness and `ENABLED`. An insertion ends or comes to an `RRSplit` without a cut;
* `InnerFollowsLastLeaf`. It is not true of every precision (TLC refutes it with four
  significant bits and keys from 35 to 41): a call that has counted keys rounded up to its
  border goes further than its cell, so that a later one may begin before the leaf it
  came to.

## 7. What the runs found

* `btree_rounded` / `NoEntryTwice`: keys above 2^53 are stored under a rounded
  key, but the scan continues behind the *unrounded* key its payload points to,
  which may be at or below the stored one: an entry comes back twice. The
  comment at `src/storage/index.h:149` claims fixed-size keys suffice.
* `pool_outstanding` / `NoneOutstandingTwice`: pushing a query already counts it
  as completed (`src/threads/TPM.cc:1279`), executing it counts it again (93),
  so "Outstanding" is zero while a query waits and negative afterwards.
* `pool_token` / `NoStaleToken`: samples do not set `qType`, by which a sweeper
  recognises its token; if the garbage reads as the token, the real one stays in
  the queue for the next sweep.
* `grid_migrated` / `IndexMigrated`: `migrate_` reads the first leaf of a cell by
  the plain `scan` (`src/storage/index.h:181`), so that leaf is never moved for
  its cell, although `INDEX_MIGRATION_COMPLETED` is reported. In the run each of three
  cells has one leaf, its three keys are the three that the cell counts and the plain scan
  finds them all. The borders are whole numbers on purpose: where they are not, a scan
  begins at the whole part of a border and may spend the cell's count on keys before
  it, which leaves leaves behind for a reason of its own (section 3).

## 8. Not modelled

* Data races with unbounded outcomes: a sweeper iterating over a worker's
  `unordered_map` while it rehashes, `main` reading a vector while it grows,
  the maps of threads that are filled after the first threads look into them,
  and the write to `qType[qStamp]`. The model reads such a structure in one step
  and says nothing about a crash.
* The memory model: all steps are sequentially consistent. The lock word is a
  `std::atomic` with default ordering; fields of a node are not, so a compiler
  may in theory move their reads over the validation.
* Hardware counters (`src/profiling`), property files, pinning, printing and the
  dumped files' formats, the Python and data directories; `ResourceManager`, two
  maps nobody reads.
* The YCSB generator. What it does is a matter of random distributions, and
  whether the loop of `NextTransactionKeyNum` ends one of probabilities. The
  window of acknowledged inserts, the part with an invariant of its own, is
  moved only by the variant of a transaction that works on a `DB&`, which the
  program never calls.
* `migrate` and `migratory_scan`: nobody calls `migrate`.
* Duplicate keys in the data that is loaded, and the size of the stack arrays of
  the index's scans (`src/storage/index.h:180`).
* A configuration that names a CPU without a worker (`src/threads/TPM.cc:1285`);
  the result of a find of an absent key (`src/storage/btree/btree.h:407`).
* Of the R-tree: `Recover`, whose history is never filled; timers, counters and
  printing; two trees with different fan-outs, which share the static limits of
  `TreeNode`; rounding of coordinates.
* Of the quadtree: objects with an extent, which `build_idx` never inserts, and
  the counts that are only printed.
