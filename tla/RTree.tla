------------------------------- MODULE RTree -------------------------------
(* src/storage/rtree: an R-tree of rectangles that a driver builds through   *)
(* the functions of the extern "C" interface, one call after another: an     *)
(* object is registered (InsertRec), carried down one level per call until   *)
(* it is placed in a leaf, and overflowing nodes are then split from the     *)
(* leaf upwards.  At each call a built-in strategy, a learned policy or the  *)
(* RR* heuristics choose.  No two calls overlap.                             *)
EXTENDS NodeSplits

CONSTANTS
    Setups        \* a sequence of the setups considered, see SetupT

VARIABLES
    tree_nodes,           \* id -> [box, kids, overflow, leaf, father]
    objects,              \* id -> rectangle
    root, height,
    tmp_sorted_children,  \* the children an earlier call has sorted
    sorted_split_loc,     \* the cuts an earlier call has sorted
    split_locations,      \* the cuts an earlier call has listed
    candidate_split_action,
    setup,                \* the setup that Init chose
    pc, iter, rec,        \* the driver: what it does, with which node and object
    pending,              \* the objects that DirectSplitWithReinsert has yet to insert
    copy                  \* the copy of the tree that the driver keeps: a set of one, or of none

treeVars == <<tree_nodes, root, height>>
learned == <<tmp_sorted_children, sorted_split_loc, split_locations, candidate_split_action>>
fixed == <<maximum_entry, minimum_entry, setup>>
vars == <<treeVars, objects, learned, fixed, pc, iter, rec, pending, copy>>

InsertStrategies == {"INS_AREA", "INS_MARGIN", "INS_OVERLAP", "INS_RANDOM"}
SplitStrategies == {"SPL_MIN_AREA", "SPL_MIN_MARGIN", "SPL_MIN_OVERLAP", "SPL_QUADRATIC", "SPL_GREENE"}

(* A setup: fan-out, the tree's default strategies, how the driver inserts   *)
(* and splits, the rectangles that each of the objects it inserts may have   *)
(* (a bound of the model) and whether it copies and clears the tree.  With a *)
(* minimum of 1 CopyChildren would refuse a cut; with a maximum below        *)
(* 2 * minimum - 1 there is no cut.                                          *)
RectT == [left : Int, right : Int, bottom : Int, top : Int]
SetupT == [max : Nat, min : Nat, insert : InsertStrategies, split : SplitStrategies,
           ins : {"default", "try", "step", "loc", "sorted", "RR"},
           spl : {"default", "step", "loc", "sorted", "candidate", "reinsert", "RR"},
           rects : Seq(SUBSET RectT), copies : BOOLEAN]
ASSUME SetupAssumption ==
    \A i \in DOMAIN Setups : /\ Setups[i] \in SetupT
                             /\ Setups[i].min >= 2 /\ 2 * Setups[i].min <= Setups[i].max + 1
conf == Setups[setup]

NoRectangle == Rect(1, -1, 1, -1)        \* Rectangle()
TreeNode(leaf) == [box |-> NoRectangle, kids |-> <<>>, overflow |-> FALSE, leaf |-> leaf, father |-> -1]

Entries(n) == tree_nodes[n].kids
\* The boxes of a node's entries: of objects in a leaf, else of nodes.
EntryBoxes(n) == IF tree_nodes[n].leaf THEN objects
                 ELSE [m \in DOMAIN tree_nodes |-> tree_nodes[m].box]

ASet(s) == {s[i] : i \in DOMAIN s}
NodeCount == Cardinality(DOMAIN tree_nodes)
ObjectCount == Cardinality(DOMAIN objects)

\* A leaf, its father and so on up to the root.
Path(n) == LET at[k \in 1..height] == IF k = 1 THEN n ELSE tree_nodes[at[k - 1]].father
           IN  [k \in 1..height |-> at[k]]

AddChildren(node, id) ==
    [node EXCEPT !.kids = Append(@, id), !.overflow = @ \/ Len(node.kids) + 1 > maximum_entry]
Refused(ids) == Len(ids) >= maximum_entry
CopyChildren(node, ids) ==
    IF Refused(ids) THEN node ELSE [node EXCEPT !.kids = ids, !.overflow = FALSE]
IncludeFirstOnly(node, r) == IF node.kids = <<>> THEN [node EXCEPT !.box = r] ELSE node
Include(node, r) == [node EXCEPT !.box = IF node.kids = <<>> THEN r ELSE Merge(@, r)]

(***************************************************************************)
(* Choosing the child to descend into: its position among the children.    *)
(***************************************************************************)
Child(n, i) == tree_nodes[Entries(n)[i]].box
AreaIncrease(a, r) == Area(Merge(a, r)) - Area(a)
PerimeterIncrease(a, r) == Perimeter(Merge(a, r)) - Perimeter(a)

OverlapWithOthers(n, i, box) ==
    SumFunctionOnSet([j \in DOMAIN Entries(n) |-> SplitOverlap(box, Child(n, j))], (DOMAIN Entries(n)) \ {i})
OverlapIncrease(n, i, r) ==
    OverlapWithOthers(n, i, Merge(Child(n, i), r)) - OverlapWithOthers(n, i, Child(n, i))

\* InsertStepByStep and TryInsertStepByStep.
Chosen(strategy, n, r) ==
    LET of == DOMAIN Entries(n)
        least(S) == {Least(S)[3]}
    IN  CASE strategy = "INS_AREA" ->
               least({<<AreaIncrease(Child(n, i), r), Area(Child(n, i)), i>> : i \in of})
          [] strategy = "INS_MARGIN" ->
               least({<<PerimeterIncrease(Child(n, i), r), Area(Child(n, i)), i>> : i \in of})
          [] strategy = "INS_OVERLAP" ->
               least({<<OverlapIncrease(n, i, r), AreaIncrease(Child(n, i), r), i>> : i \in of})
          [] strategy = "INS_RANDOM" -> of

\* RRInsert: the smallest child that contains r; else, of the children that
\* come first by growth of the perimeter, the one that gains least overlap.
RRChosen(n, r) ==
    LET of == DOMAIN Entries(n)
        cov == {i \in of : Contains(Child(n, i), r)}
        s == Ordered([i \in of |-> i], [i \in of |-> <<PerimeterIncrease(Child(n, i), r), Entries(n)[i]>>])
        gain == [i \in of |-> MarginOvlpPerim(Child(n, s[1]), r, Child(n, s[i]))]
        p == Least({<<-gain[i], i>> : i \in 2..Len(s)})[2]
        margin(t) == SumFunctionOnSet([j \in of |-> MarginOvlpArea(Child(n, s[t]), r, Child(n, s[j]))], (1..p) \ {t})
    IN  IF cov # {} THEN Least({<<Area(Child(n, i)), i>> : i \in cov})[2]
        ELSE IF \A i \in of : gain[i] = 0 THEN s[1]
        ELSE s[Least({<<margin(t), t>> : t \in 1..p})[2]]

(***************************************************************************)
(* Init and the calls that insert.                                         *)
(***************************************************************************)
EmptyTree == [n \in {0} |-> TreeNode(TRUE)]
NoObjects == [k \in {} |-> NoRectangle]

Init ==     \* ConstructTree, RTree()
    /\ setup \in DOMAIN Setups
    /\ maximum_entry = conf.max /\ minimum_entry = conf.min
    /\ tree_nodes = EmptyTree /\ root = 0 /\ height = 1
    /\ objects = NoObjects
    /\ tmp_sorted_children = <<>> /\ sorted_split_loc = <<>>
    /\ split_locations = <<>> /\ candidate_split_action = <<>>
    /\ pc = "idle" /\ iter = 0 /\ rec = 0 /\ pending = <<>> /\ copy = {}

Reinserting == pending # <<>>
InsertMode == IF Reinserting THEN "default" ELSE conf.ins
SplitModeAlways == conf.spl
SplitMode == IF Reinserting THEN "default" ELSE conf.spl

InsertRec ==
    /\ pc = "idle" /\ ObjectCount < Len(conf.rects)
    /\ \E r \in conf.rects[ObjectCount + 1] :
           objects' = [k \in 0..ObjectCount |-> IF k = ObjectCount THEN r ELSE objects[k]]
    /\ rec' = ObjectCount /\ iter' = root
    /\ pc' = IF conf.ins = "try" THEN "try" ELSE "insert"
    /\ UNCHANGED <<treeVars, learned, fixed, pending, copy>>

\* One step of an insertion at iter: an object enters a leaf, which the driver
\* then splits if it overflows; above, one of the children is next.
InsertAt(children) ==
    /\ IF tree_nodes[iter].leaf
       THEN /\ tree_nodes' = [tree_nodes EXCEPT ![iter] = AddChildren(Include(@, objects[rec]), rec)]
            /\ pc' = "split" /\ UNCHANGED iter
       ELSE /\ tree_nodes' = [tree_nodes EXCEPT ![iter] = Include(@, objects[rec])]
            /\ iter' \in children /\ UNCHANGED pc
    /\ UNCHANGED <<objects, root, height, fixed, rec, pending, copy,
                   sorted_split_loc, split_locations, candidate_split_action>>

InsertStepByStep(strategy) ==     \* DefaultInsert, DirectInsert, InsertOneStep
    /\ pc = "insert"
    /\ \/ InsertMode \in {"default", "try"} /\ strategy = conf.insert
       \/ InsertMode = "step"
    /\ InsertAt({Entries(iter)[i] : i \in Chosen(strategy, iter, objects[rec])})
    /\ UNCHANGED tmp_sorted_children

\* InsertWithLoc; the policy's loc may exceed the children there are.
LocChild(n, loc) == Entries(n)[(loc % Len(Entries(n))) + 1]
InsertWithLoc(loc) ==
    /\ pc = "insert"
    /\ \/ InsertMode = "loc"
       \/ InsertMode = "sorted" /\ tree_nodes[iter].leaf
    /\ InsertAt({LocChild(iter, loc)})
    /\ UNCHANGED tmp_sorted_children

RRInsert ==
    /\ pc = "insert" /\ InsertMode = "RR"
    /\ InsertAt({Entries(iter)[RRChosen(iter, objects[rec])]})
    /\ UNCHANGED tmp_sorted_children

\* SortChildrenByMarginArea, and SortChildrenByArea, which leaves the order
\* of children of the same area open.
SortedChildren(n, r, state_type) ==
    IF state_type = "RL_FOR_ENLARGED_CHILDREN"
    THEN {Ordered(Entries(n), [i \in DOMAIN Entries(n) |-> <<AreaIncrease(Child(n, i), r), Entries(n)[i]>>])}
    ELSE {s \in [DOMAIN Entries(n) -> ASet(Entries(n))] :
            /\ ASet(s) = ASet(Entries(n))
            /\ \A i \in 2..Len(s) : Area(tree_nodes[s[i - 1]].box) <= Area(tree_nodes[s[i]].box)}

RetrieveSortedInsertStates(state_type) ==
    /\ pc = "insert" /\ InsertMode = "sorted" /\ ~tree_nodes[iter].leaf /\ tmp_sorted_children = <<>>
    /\ tmp_sorted_children' \in SortedChildren(iter, objects[rec], state_type)
    /\ UNCHANGED <<treeVars, objects, fixed, pc, iter, rec, pending, copy,
                   sorted_split_loc, split_locations, candidate_split_action>>

InsertKeepsSorted(sorted_loc) ==
    /\ pc = "insert" /\ InsertMode = "sorted" /\ tmp_sorted_children # <<>>
    /\ InsertAt({tmp_sorted_children[(sorted_loc % Len(tmp_sorted_children)) + 1]})
    /\ UNCHANGED tmp_sorted_children

InsertWithSortedLoc(sorted_loc) ==
    /\ pc = "insert" /\ InsertMode = "sorted" /\ tmp_sorted_children # <<>>
    /\ InsertAt({tmp_sorted_children[(sorted_loc % Len(tmp_sorted_children)) + 1]})
    /\ tmp_sorted_children' = <<>>

\* TryInsert goes down without touching the boxes; a leaf with room takes the
\* object and every box above it grows, else the driver inserts in the other way.
TryDescend ==
    /\ pc = "try" /\ ~tree_nodes[iter].leaf
    /\ iter' \in {Entries(iter)[i] : i \in Chosen(conf.insert, iter, objects[rec])}
    /\ UNCHANGED <<treeVars, objects, learned, fixed, pc, rec, pending, copy>>

TryPlace ==
    /\ pc = "try" /\ tree_nodes[iter].leaf
    /\ IF Len(Entries(iter)) < maximum_entry
       THEN /\ tree_nodes' = [n \in DOMAIN tree_nodes |->
                   LET node == Include(tree_nodes[n], objects[rec])
                   IN  IF n = iter THEN AddChildren(node, rec)
                       ELSE IF n \in ASet(Path(iter)) THEN node ELSE tree_nodes[n]]
            /\ pc' = "idle" /\ UNCHANGED iter
       ELSE pc' = "insert" /\ iter' = root /\ UNCHANGED tree_nodes
    /\ UNCHANGED <<objects, root, height, learned, fixed, rec, pending, copy>>

(***************************************************************************)
(* The calls that split.                                                   *)
(***************************************************************************)
\* The end of every split: iter keeps the entries d.low, a new sibling gets
\* the others and is linked under the father, or under a new root.
NoneMoves(d, n) == FALSE
Moves(d, n) == ~tree_nodes[iter].leaf /\ n \in ASet(d.high)
Link(split) == \E d \in {split} :
    LET sibling == NodeCount
        at == tree_nodes[iter]
        grows == at.father < 0
        father == IF grows THEN NodeCount + 1 ELSE at.father
        above == IF grows THEN Include(AddChildren(TreeNode(FALSE), iter), d.box1)
                 ELSE tree_nodes[father]
        linked(n) ==
            CASE n = iter -> [CopyChildren(at, d.low) EXCEPT !.box = d.box1, !.father = father]
              [] n = sibling -> [CopyChildren(TreeNode(at.leaf), d.high) EXCEPT
                                     !.box = d.box2, !.father = father]
              [] n = father -> AddChildren([above EXCEPT !.box = IF grows THEN Merge(d.box1, d.box2)
                                                                 ELSE Merge(@, d.box2)], sibling)
              [] Moves(d, n) -> [tree_nodes[n] EXCEPT !.father = sibling]
              [] OTHER -> tree_nodes[n]
    IN  /\ tree_nodes' = [n \in DOMAIN tree_nodes \cup {sibling, father} |-> linked(n)]
        /\ root' = IF grows THEN father ELSE root
        /\ height' = IF grows THEN height + 1 ELSE height
        /\ iter' = father
        /\ pc' = "split"
        /\ UNCHANGED <<objects, fixed, rec, pending, copy, tmp_sorted_children>>

Overflow == tree_nodes[iter].overflow
Splitting(mode) == pc = "split" /\ Overflow /\ SplitMode = mode
keepsLocations == UNCHANGED <<sorted_split_loc, split_locations, candidate_split_action>>

SplitStepByStep(strategy) ==      \* DefaultSplit, DirectSplit, SplitOneStep
    /\ \/ Splitting("default") /\ strategy = conf.split
       \/ Splitting("step")
    /\ \E d \in {SplitBy(strategy, EntryBoxes(iter), Entries(iter), tree_nodes[iter].box)} :
           IF Refused(d.low) \/ Refused(d.high)
           THEN pc' = "exited" /\ UNCHANGED <<treeVars, objects, fixed, iter, rec, pending, copy,
                                              tmp_sorted_children>>
           ELSE Link(d)
    /\ keepsLocations

\* SplitInLoc(tree_node, loc): the cuts under the four orders, numbered.
LocCut(n, loc) ==
    CutAt(EntryBoxes(n), Sorted(EntryBoxes(n), Entries(n), AllOrders[(loc \div CutsPerOrder) + 1]),
          (loc % CutsPerOrder) + 1)
SplitWithLoc(loc) ==
    /\ Splitting("loc") /\ Link(LocCut(iter, loc)) /\ keepsLocations

\* RRSplit finds no cut when the side it cuts along has length zero: a leaf whose
\* objects lie on one line, where both orders' perimeters sum up to the same and
\* the bottom is chosen, or an inner node of children on one point.  split_loc is
\* then not set, what the code does is undefined, and the model stops.
RRSplit ==
    /\ Splitting("RR")
    /\ LET cuts == RRCuts(EntryBoxes(iter), Entries(iter), tree_nodes[iter].box, tree_nodes[iter].leaf)
       IN  IF cuts = {}
           THEN pc' = "undefined" /\ UNCHANGED <<treeVars, objects, fixed, iter, rec, pending, copy,
                                                 tmp_sorted_children>>
           ELSE \E d \in cuts : Link(d)
    /\ keepsLocations

\* The cuts under the two orders: <<order, cut>>, numbered as the loops do.
LocationOf(i) == <<((i - 1) \div CutsPerOrder) + 1, ((i - 1) % CutsPerOrder) + 1>>
Locations == 1..2 * CutsPerOrder
SweepAt(n, order) == Sweep(EntryBoxes(n), Sorted(EntryBoxes(n), Entries(n), TwoOrders[order]))
TwoOrdersCut(n, at) ==    \* SplitInSortedLoc; SplitInLoc with a dimension
    CutAt(EntryBoxes(n), Sorted(EntryBoxes(n), Entries(n), TwoOrders[at[1]]), at[2])

SortSwapsDimensions(n) ==
    LET row(i) == LET at == LocationOf(i)
                      b == SweepAt(n, at[1])[at[2]]
                  IN  <<SplitPerimeter(b[1], b[2]), at[1] - 1, at[2]>>
        rows == [i \in Locations |-> row(i)]
    IN  Ordered(rows, rows)

\* SortSplitLocByPerimeter: <<perimeters, is_horizontal, cut>>, sorted.
SortSplitLocByPerimeter(n) ==
    LET sweep == [o \in {1, 2} |-> SweepAt(n, o)]
        row(i) == LET at == LocationOf(i)
                      b == sweep[at[1]][at[2]]
                  IN  <<SplitPerimeter(b[1], b[2]), 2 - at[1], at[2]>>
        rows == [i \in Locations |-> row(i)]
    IN  Ordered(rows, rows)

RetrieveSortedSplitStates ==
    /\ Splitting("sorted")
    /\ sorted_split_loc' = SortSplitLocByPerimeter(iter) /\ pc' = "sorted"
    /\ UNCHANGED <<treeVars, objects, fixed, iter, rec, pending, copy,
                   tmp_sorted_children, split_locations, candidate_split_action>>

SplitWithSortedLoc(loc) ==
    /\ pc = "sorted"
    /\ Link(TwoOrdersCut(iter, <<2 - sorted_split_loc[loc][2], sorted_split_loc[loc][3]>>))
    /\ keepsLocations

\* PrepareSplitLocations; the perimeters and areas, larger first.
SplitLocation(boxes, i) ==
    [perimeter1 |-> Higher(Perimeter(boxes[1]), Perimeter(boxes[2])),
     perimeter2 |-> Lower(Perimeter(boxes[1]), Perimeter(boxes[2])),
     area1 |-> Higher(Area(boxes[1]), Area(boxes[2])),
     area2 |-> Lower(Area(boxes[1]), Area(boxes[2])),
     overlap |-> SplitOverlap(boxes[1], boxes[2]), at |-> LocationOf(i)]
PrepareSplitLocations(n) ==
    LET sweep == [o \in {1, 2} |-> SweepAt(n, o)]
    IN  [i \in Locations |-> SplitLocation(sweep[LocationOf(i)[1]][LocationOf(i)[2]], i)]

NonOverlapping == {i \in DOMAIN split_locations : split_locations[i].overlap = 0}

GetNumberOfNonOverlapSplitLocs ==
    /\ Splitting("candidate")
    /\ split_locations' = PrepareSplitLocations(iter) /\ pc' = "candidates"
    /\ UNCHANGED <<treeVars, objects, fixed, iter, rec, pending, copy,
                   tmp_sorted_children, sorted_split_loc, candidate_split_action>>

\* RetrieveZeroOVLPSplitSortedByPerimeterState: the two by the larger
\* perimeter; it reads past the end unless two cuts do not overlap.
ZeroOverlapCandidates ==
    LET least(S) == Least({<<split_locations[i].perimeter1, i>> : i \in S})[2]
        first == least(NonOverlapping)
    IN  <<first, least(NonOverlapping \ {first})>>

\* ...SortedByWeightedPerimeterState takes any two: weights are not modelled,
\* and the code does not look whether the cuts overlap.
RetrieveZeroOVLPSplitStates ==
    /\ pc = "candidates" /\ Cardinality(NonOverlapping) >= 2
    /\ \/ candidate_split_action' = ZeroOverlapCandidates /\ pc' = "action"
       \/ \E i, j \in Locations : i # j /\ candidate_split_action' = <<i, j>> /\ pc' = "weighted"
    /\ UNCHANGED <<treeVars, objects, fixed, iter, rec, pending, copy,
                   tmp_sorted_children, sorted_split_loc, split_locations>>

SplitWithCandidateAction(loc) ==
    /\ pc \in {"action", "weighted"}
    /\ Link(TwoOrdersCut(iter, split_locations[candidate_split_action[loc]].at))
    /\ keepsLocations

SplitInMinOverlap ==
    /\ pc = "candidates" /\ Cardinality(NonOverlapping) < 2
    /\ LET best == Least({<<split_locations[i].overlap, i>> : i \in Locations})[2]
       IN  Link(TwoOrdersCut(iter, split_locations[best].at))
    /\ keepsLocations

(***************************************************************************)
(* DirectSplitWithReinsert: instead of splitting, the leaf gives up the    *)
(* third of its objects farthest from its centre, which are inserted again *)
(* one after another the default way.                                      *)
(***************************************************************************)
FromCentre(a, box) ==      \* the square of twice the distance of the centres
    LET dx == a.left + a.right - box.left - box.right
        dy == a.top + a.bottom - box.top - box.bottom
    IN  dx * dx + dy * dy

RetrieveLosesOne(n) ==
    LET e == Entries(n)
        s == Ordered(e, [i \in DOMAIN e |-> <<FromCentre(objects[e[i]], tree_nodes[n].box), e[i]>>])
        keep == Len(e) - ((3 * Len(e) + 9) \div 10)
    IN  <<SubSeq(s, 1, keep), SubSeq(s, keep + 2, Len(s))>>

RetrieveForReinsert(n) ==      \* <<kept, given up>>
    LET e == Entries(n)
        s == Ordered(e, [i \in DOMAIN e |-> <<FromCentre(objects[e[i]], tree_nodes[n].box), e[i]>>])
        keep == Len(e) - ((3 * Len(e) + 9) \div 10)
    IN  <<SubSeq(s, 1, keep), SubSeq(s, keep + 1, Len(e))>>

\* UpdateMBRForReinsert: every box above the leaf is built anew, upwards.
UpdatedBoxes(n, box) ==
    LET up == Path(n)
        new[k \in 1..height] ==
            IF k = 1 THEN box
            ELSE MergeRange([m \in DOMAIN tree_nodes |->
                                IF m = up[k - 1] THEN new[k - 1] ELSE tree_nodes[m].box],
                            Entries(up[k]))
    IN  [k \in 1..height |-> new[k]]

DirectSplitWithReinsert ==
    /\ Splitting("reinsert")
    /\ LET cut == RetrieveForReinsert(iter)
           up == Path(iter)
           boxes == UpdatedBoxes(iter, MergeRange(objects, cut[1]))
       IN  /\ tree_nodes' = [n \in DOMAIN tree_nodes |->
                  LET boxed == [tree_nodes[n] EXCEPT
                          !.box = IF n \in ASet(up) THEN boxes[CHOOSE k \in 1..height : up[k] = n] ELSE @]
                  IN  IF n = iter THEN [boxed EXCEPT !.kids = cut[1], !.overflow = FALSE] ELSE boxed]
           /\ pending' = cut[2] /\ rec' = Head(cut[2])
    /\ pc' = "insert" /\ iter' = root
    /\ UNCHANGED <<objects, root, height, learned, fixed, copy>>

\* The splitting loop ends: the next object to be reinserted, or the driver.
Settle ==
    /\ pc = "split" /\ ~Overflow
    /\ pending' = IF Reinserting THEN Tail(pending) ELSE <<>>
    /\ IF pending' # <<>> THEN pc' = "insert" /\ rec' = Head(pending') /\ iter' = root
                          ELSE pc' = "idle" /\ UNCHANGED <<rec, iter>>
    /\ UNCHANGED <<treeVars, objects, learned, fixed, copy>>

(***************************************************************************)
(* Clear and CopyTree between the driver's tree and its other tree.        *)
(***************************************************************************)
ClearKeepsRoot ==
    /\ pc = "idle" /\ conf.copies /\ objects # NoObjects
    /\ tree_nodes' = EmptyTree /\ objects' = NoObjects /\ iter' = 0
    /\ UNCHANGED <<root, height, learned, fixed, pc, rec, pending, copy>>

Clear ==
    /\ pc = "idle" /\ conf.copies /\ objects # NoObjects
    /\ tree_nodes' = EmptyTree /\ root' = 0 /\ height' = 1 /\ objects' = NoObjects
    /\ iter' = 0
    /\ UNCHANGED <<learned, fixed, pc, rec, pending, copy>>

SaveTree ==
    /\ pc = "idle" /\ conf.copies
    /\ copy' = {[tree_nodes |-> tree_nodes, objects |-> objects, root |-> root, height |-> height]}
    /\ UNCHANGED <<treeVars, objects, learned, fixed, pc, iter, rec, pending>>

RestoreTree ==
    /\ pc = "idle" /\ conf.copies
    /\ \E c \in copy : /\ tree_nodes' = c.tree_nodes /\ objects' = c.objects
                      /\ root' = c.root /\ height' = c.height /\ iter' = c.root
    /\ UNCHANGED <<learned, fixed, pc, rec, pending, copy>>

Call ==       \* what the driver goes on with once it has begun an insertion
    \/ \E strategy \in InsertStrategies : InsertStepByStep(strategy)
    \/ \E loc \in 0..maximum_entry - 1 : InsertWithLoc(loc)
    \/ \E sorted_loc \in 0..maximum_entry - 1 : InsertWithSortedLoc(sorted_loc)
    \/ RRInsert \/ TryDescend \/ TryPlace
    \/ \E t \in {"RL_FOR_ENLARGED_CHILDREN", "RL_FOR_CONTAINING_CHILDREN"} : RetrieveSortedInsertStates(t)
    \/ \E strategy \in SplitStrategies : SplitStepByStep(strategy)
    \/ \E loc \in 0..4 * CutsPerOrder - 1 : SplitWithLoc(loc)
    \/ RRSplit \/ RetrieveSortedSplitStates \/ GetNumberOfNonOverlapSplitLocs
    \/ \E loc \in Locations : SplitWithSortedLoc(loc)
    \/ RetrieveZeroOVLPSplitStates \/ SplitInMinOverlap
    \/ \E loc \in {1, 2} : SplitWithCandidateAction(loc)
    \/ DirectSplitWithReinsert \/ Settle

Next == InsertRec \/ Call \/ Clear \/ SaveTree \/ RestoreTree
Spec == Init /\ [][Next]_vars /\ WF_vars(Call)
=============================================================================
