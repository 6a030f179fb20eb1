----------------------------- MODULE RTreeStates -----------------------------
(* What the R-tree shows a learned policy before it asks it for a choice:    *)
(* the rows of features of the children an object may descend into and of    *)
(* the cuts an overflowing node may be divided by.  The policy answers with  *)
(* the number of a row, and InsertWithLoc, SplitWithLoc and the others act   *)
(* on that number: nothing but the two pieces of code agreeing on the order  *)
(* ties a row to what is then done.                                          *)
(*                                                                           *)
(* Each feature is then scaled: a record holds the rows before that and, for *)
(* each column, the bounds lo and hi it is scaled with, to                   *)
(* (x - lo) / (hi - lo).  The small numbers that keep the divisor from being *)
(* zero are left out.                                                        *)
EXTENDS RTree

Column(rows, cs) == {rows[i][c] : i \in DOMAIN rows, c \in cs}

(***************************************************************************)
(* The children of an inner node n that the object r may descend into.     *)
(***************************************************************************)
InsertFeatures(n, i, r) ==
    LET box == Child(n, i)
    IN  <<Area(box), Perimeter(box), OverlapWithOthers(n, i, box),
          AreaIncrease(box, r), PerimeterIncrease(box, r), OverlapIncrease(n, i, r),
          Len(Entries(Entries(n)[i]))>>

\* The column of entry counts is a fraction of maximum_entry, the others are
\* scaled by their largest value.
ScaledByMax(rows) ==
    [rows |-> rows, lo |-> [c \in 1..7 |-> 0],
     hi |-> [c \in 1..7 |-> IF c = 7 THEN maximum_entry ELSE Max(Column(rows, {c}) \cup {0})]]
Only(states, cs) ==
    [rows |-> [i \in DOMAIN states.rows |-> [c \in DOMAIN cs |-> states.rows[i][cs[c]]]],
     lo |-> [c \in DOMAIN cs |-> states.lo[cs[c]]], hi |-> [c \in DOMAIN cs |-> states.hi[cs[c]]]]

\* A state has maximum_entry rows: the rows beyond the children repeat them
\* from the first, or are zero.
GetInsertStates7(n, r) ==
    LET k == Len(Entries(n))
    IN  ScaledByMax([i \in 1..maximum_entry |->
                        InsertFeatures(n, IF i <= k THEN i ELSE ((i - 1 - k) % k) + 1, r)])
GetInsertStates7Fill0(n, r) ==
    ScaledByMax([i \in 1..maximum_entry |->
                    IF i <= Len(Entries(n)) THEN InsertFeatures(n, i, r) ELSE [c \in 1..7 |-> 0]])
GetInsertStates6(n, r) == Only(GetInsertStates7(n, r), <<1, 2, 3, 4, 5, 6>>)
GetInsertStates4(n, r) == Only(GetInsertStates7(n, r), <<4, 5, 6, 7>>)
GetInsertStates3(n, r) == Only(GetInsertStates7(n, r), <<4, 5, 6>>)

\* Neither scaled nor filled; the two ratios of the sides, which divide by a
\* width that may be zero, are left out.
GetInsertStates(n, r) ==
    [object |-> <<r.left, r.bottom, r.right - r.left, r.top - r.bottom, Area(r)>>,
     rows |-> [i \in DOMAIN Entries(n) |->
                  LET a == Child(n, i)
                  IN  <<a.left, a.bottom, a.right - a.left, a.top - a.bottom, Area(a),
                        AreaIncrease(a, r), PerimeterIncrease(a, r), OverlapIncrease(n, i, r)>>]]

\* The first topk of the children in the order an earlier call has put them.
GetSortedInsertStates(n, r, topk, state_type) ==
    LET k == Len(tmp_sorted_children)
        at(i) == CHOOSE j \in DOMAIN Entries(n) : Entries(n)[j] = tmp_sorted_children[i]
        of(i) == LET f == InsertFeatures(n, at(i), r)
                 IN  IF state_type = "RL_FOR_CONTAINING_CHILDREN" THEN <<f[1], f[2], f[3], f[7]>>
                     ELSE <<f[4], f[5], f[6], f[7]>>
        rows == [i \in 1..topk |-> of(IF i <= k THEN i ELSE ((i - 1) % k) + 1)]
    IN  [rows |-> rows, lo |-> [c \in 1..4 |-> 0], hi |-> [c \in 1..4 |-> Max(Column(rows, {c}))]]

(***************************************************************************)
(* The greedy choices that a policy may ask for by name: the first position *)
(* with the least score.  -1 says that no child contains r.                *)
(***************************************************************************)
FirstLeast(score) == Least({<<score[i], i>> : i \in DOMAIN score})[2] - 1
GetMinAreaEnlargementChild(n, r) == FirstLeast([i \in DOMAIN Entries(n) |-> AreaIncrease(Child(n, i), r)])
GetMinMarginIncrementChild(n, r) == FirstLeast([i \in DOMAIN Entries(n) |-> PerimeterIncrease(Child(n, i), r)])
GetMinOverlapIncrementChild(n, r) == FirstLeast([i \in DOMAIN Entries(n) |-> OverlapIncrease(n, i, r)])
GetMinAreaContainingChild(n, r) ==
    LET within == {i \in DOMAIN Entries(n) : Contains(Child(n, i), r)}
    IN  IF within = {} THEN -1 ELSE FirstLeast([i \in within |-> Area(Child(n, i))])
GetNumberOfEnlargedChildren(n, r) ==
    Cardinality({i \in DOMAIN Entries(n) : ~Contains(Child(n, i), r)})

(***************************************************************************)
(* The cuts of an overflowing node n.                                      *)
(***************************************************************************)
SplitFeatures(a, b) == <<Area(a), Area(b), Perimeter(a), Perimeter(b), SplitOverlap(a, b)>>
LargerFirst(a, b) ==
    <<Higher(Area(a), Area(b)), Lower(Area(a), Area(b)),
      Higher(Perimeter(a), Perimeter(b)), Lower(Perimeter(a), Perimeter(b)), SplitOverlap(a, b)>>

\* The two columns of areas, and those of perimeters, are scaled alike.
ScaledByRange(rows) ==
    LET like(c) == IF c \in {1, 2} THEN {1, 2} ELSE IF c \in {3, 4} THEN {3, 4} ELSE {5}
    IN  [rows |-> rows, lo |-> [c \in 1..5 |-> Min(Column(rows, like(c)))],
                        hi |-> [c \in 1..5 |-> Max(Column(rows, like(c)))]]

SweptRows(n, orders) ==
    LET sweep == [o \in DOMAIN orders |-> Sweep(EntryBoxes(n), Sorted(EntryBoxes(n), Entries(n), orders[o]))]
    IN  [i \in 1..Len(orders) * CutsPerOrder |->
            LET b == sweep[((i - 1) \div CutsPerOrder) + 1][((i - 1) % CutsPerOrder) + 1]
            IN  SplitFeatures(b[1], b[2])]

\* GetSplitStates always scales 240 numbers: the rows there are only with
\* twelve cuts per order, as maximum 50 and minimum 20 have.
GetSplitStates(n) == ScaledByRange(SweptRows(n, AllOrders))
GetShortSplitStates(n) == ScaledByRange(SweptRows(n, <<"left">>))

\* The topk cuts by perimeter.  An inner node has no rows: the code scales
\* what the caller's array held.
GetSortedSplitStates(n, topk) ==
    LET row(at) ==       \* at = <<perimeters, is_horizontal, cut>>
            LET s == Sorted(objects, Entries(n), IF at[2] = 1 THEN "left" ELSE "bottom")
                k == minimum_entry - 1 + at[3]
            IN  LargerFirst(MergeRange(objects, SubSeq(s, 1, k)), MergeRange(objects, SubSeq(s, k + 1, Len(s))))
    IN  IF tree_nodes[n].leaf THEN ScaledByRange([i \in 1..topk |-> row(sorted_split_loc[i])])
        ELSE [rows |-> <<>>, lo |-> <<>>, hi |-> <<>>]

(***************************************************************************)
(* The costs of the five strategies: the boxes each would lead to.         *)
(***************************************************************************)
Boxes(split) == <<split.box1, split.box2>>
AreaCostOtherTie(n) == Boxes(FindMinimumSplit(EntryBoxes(n), Entries(n), AllOrders, "SplitArea", "SplitPerimeter"))
SplitAREACost(n) == Boxes(FindMinimumSplit(EntryBoxes(n), Entries(n), AllOrders, "SplitArea", "SplitOverlap"))
SplitMARGINCost(n) == Boxes(FindMinimumSplit(EntryBoxes(n), Entries(n), AllOrders, "SplitPerimeter", "SplitOverlap"))
SplitOVERLAPCost(n) == Boxes(FindMinimumSplit(EntryBoxes(n), Entries(n), AllOrders, "SplitOverlap", "SplitArea"))

CostInHalves(R, s) ==
    LET h == Len(s) \div 2
        box1 == MergeRange(R, SubSeq(s, 1, h))
        box2 == MergeRange(R, SubSeq(s, Len(s) - h + 1, Len(s)))
        rec1 == Merge(box1, R[s[h + 1]])
        rec2 == Merge(box2, R[s[h + 1]])
    IN  IF Len(s) % 2 = 0 THEN <<box1, box2>>
        ELSE IF Area(rec1) - Area(box1) < Area(rec2) - Area(box2) THEN <<rec1, box2>> ELSE <<box1, rec2>>
SplitGREENECost(n) ==
    CostInHalves(EntryBoxes(n),
        Sorted(EntryBoxes(n), Entries(n), GreeneOrder(EntryBoxes(n), Entries(n), tree_nodes[n].box)))

\* The groups are only counted; entries leave the list in the order in which
\* the strategy itself would place them.
SplitQUADRATICCost(n) ==
    LET R == EntryBoxes(n)
        seed == Seeds(R, Entries(n))
        step(s) ==
            LET i == PickNext(R, s.box1, s.box2, s.unassigned)
                a == R[s.unassigned[i]]
                rest == Without(s.unassigned, i)
            IN  IF Len(s.unassigned) + s.count1 = minimum_entry
                THEN [s EXCEPT !.box1 = Merge(@, MergeRange(R, s.unassigned)), !.unassigned = <<>>]
                ELSE IF Len(s.unassigned) + s.count2 = minimum_entry
                THEN [s EXCEPT !.box2 = Merge(@, MergeRange(R, s.unassigned)), !.unassigned = <<>>]
                ELSE IF JoinsFirst(s.box1, s.box2, s.count1, s.count2, a)
                THEN [s EXCEPT !.box1 = Merge(@, a), !.count1 = @ + 1, !.unassigned = rest]
                ELSE [s EXCEPT !.box2 = Merge(@, a), !.count2 = @ + 1, !.unassigned = rest]
        after[k \in 0..Len(Entries(n))] ==
            IF k = 0 THEN [box1 |-> R[Entries(n)[seed[1]]], box2 |-> R[Entries(n)[seed[2]]],
                           count1 |-> 1, count2 |-> 1,
                           unassigned |-> Without(Without(Entries(n), seed[2]), seed[1])]
            ELSE IF after[k - 1].unassigned = <<>> THEN after[k - 1] ELSE step(after[k - 1])
    IN  Boxes(after[Len(Entries(n))])

CheckOrder(boxes) ==      \* the two boxes in the order of their sides
    IF Less(SortedByLeft(boxes[2]), SortedByLeft(boxes[1])) THEN <<boxes[2], boxes[1]>> ELSE boxes

\* The five pairs of boxes in the order of their rows, and is_valid: whether
\* the strategies differ.  Only the first pair and, if the loop gets there,
\* the second are put in order before they are compared with the first.
Differ(pair) == \E i \in 2..5 : CheckOrder(pair[1]) # IF i = 2 THEN CheckOrder(pair[2]) ELSE pair[i]
RetrieveStates(n) ==
    LET states(pair) == [rows |-> pair, is_valid |-> Differ(pair)]
    IN  states(<<SplitAREACost(n), SplitMARGINCost(n), SplitOVERLAPCost(n),
                 SplitGREENECost(n), SplitQUADRATICCost(n)>>)
RowOf == <<"SPL_MIN_AREA", "SPL_MIN_MARGIN", "SPL_MIN_OVERLAP", "SPL_GREENE", "SPL_QUADRATIC">>

-----------------------------------------------------------------------------
Descending == pc = "insert" /\ ~tree_nodes[iter].leaf
AboutToSplit == pc = "split" /\ Overflow

\* A policy that answers with row loc of the features of an inner node gets
\* the child the row describes, also for the rows that only fill the state up:
\* GetInsertStates7 and InsertWithLoc wrap loc around in the same way.
RowLeadsToChild ==
    Descending => \A loc \in 0..maximum_entry - 1 :
        LET i == CHOOSE j \in DOMAIN Entries(iter) : Entries(iter)[j] = LocChild(iter, loc)
        IN  GetInsertStates7(iter, objects[rec]).rows[loc + 1] = InsertFeatures(iter, i, objects[rec])

\* The same for sorted children: the order in which an earlier call left them
\* is still that of the node the object is at, and a row's area is the area
\* (or the growth) of the child that InsertWithSortedLoc descends into.
SortedRowLeadsToChild ==
    tmp_sorted_children # <<>> =>
        /\ Descending /\ ASet(tmp_sorted_children) = ASet(Entries(iter))
        /\ \A topk \in 1..maximum_entry, loc \in 0..maximum_entry - 1 : loc < topk =>
            LET box == tree_nodes[tmp_sorted_children[(loc % Len(tmp_sorted_children)) + 1]].box
                row(t) == GetSortedInsertStates(iter, objects[rec], topk, t).rows[loc + 1]
            IN  /\ row("RL_FOR_CONTAINING_CHILDREN")[1] = Area(box)
                /\ row("RL_FOR_ENLARGED_CHILDREN")[1] = Area(Merge(box, objects[rec])) - Area(box)

\* Row loc of GetSplitStates describes the two nodes that SplitWithLoc(loc)
\* leaves: the sweep and the cut agree on the order, on where a cut is and on
\* the boxes.  The short state is its beginning.
RowLeadsToCut ==
    AboutToSplit =>
        /\ \A loc \in 0..4 * CutsPerOrder - 1 :
               LET d == LocCut(iter, loc)
               IN  GetSplitStates(iter).rows[loc + 1] = SplitFeatures(d.box1, d.box2)
        /\ GetShortSplitStates(iter).rows = SubSeq(GetSplitStates(iter).rows, 1, CutsPerOrder)

\* Row loc of the sorted cuts of a leaf describes the nodes that
\* SplitWithSortedLoc(loc) leaves, and the rows come by growing perimeter.
SortedRowLeadsToCut ==
    pc = "sorted" /\ tree_nodes[iter].leaf =>
        LET states == GetSortedSplitStates(iter, 2 * CutsPerOrder)
        IN  \A loc \in Locations :
               LET d == TwoOrdersCut(iter, <<2 - sorted_split_loc[loc][2], sorted_split_loc[loc][3]>>)
               IN  /\ states.rows[loc] = LargerFirst(d.box1, d.box2)
                   /\ loc > 1 => states.rows[loc - 1][3] + states.rows[loc - 1][4]
                                 <= states.rows[loc][3] + states.rows[loc][4]

\* What a policy sees are fractions: every column is scaled by the bounds of
\* the values that are in it.
Fractions(s) == \A i \in DOMAIN s.rows : \A c \in DOMAIN s.rows[i] :
                    s.lo[c] <= s.rows[i][c] /\ s.rows[i][c] <= s.hi[c]
ChildrenAreFractions ==
    Descending => \A s \in {GetInsertStates7(iter, objects[rec]), GetInsertStates7Fill0(iter, objects[rec]),
                            GetInsertStates6(iter, objects[rec]), GetInsertStates4(iter, objects[rec]),
                            GetInsertStates3(iter, objects[rec])} : Fractions(s)
CutsAreFractions == AboutToSplit => Fractions(GetSplitStates(iter)) /\ Fractions(GetShortSplitStates(iter))

\* Once a policy is told that two cuts do not overlap, whichever it chooses of
\* the two it is shown leaves siblings that do not.
CandidatesDoNotOverlap ==
    pc = "action" => \A loc \in {1, 2} :
        LET d == TwoOrdersCut(iter, split_locations[candidate_split_action[loc]].at)
        IN  SplitOverlap(d.box1, d.box2) = 0

\* The row of a strategy is what that strategy then does, though each cost is
\* computed by code of its own.  MIN_MARGIN is the exception: its cost looks at
\* four orders, it splits along two, so that the row only bounds what it does.
RowBoundsStrategy(rows, boxes) ==
    \A i \in 1..5 :
        IF RowOf[i] # "SPL_MIN_MARGIN" THEN rows[i] = boxes[i]
        ELSE SplitPerimeter(rows[i][1], rows[i][2]) <= SplitPerimeter(boxes[i][1], boxes[i][2])

\* A node for which RetrieveStates says that there is nothing to choose is
\* split into the same two boxes by every strategy but MIN_MARGIN.
NothingToChoose(is_valid, boxes) ==
    is_valid \/ \A i, j \in {k \in 1..5 : RowOf[k] # "SPL_MIN_MARGIN"} :
                   CheckOrder(boxes[i]) = CheckOrder(boxes[j])

\* The greedy choices agree with one another and with the strategies: a child
\* that contains the object is found unless all are enlarged, then no child
\* needs area and the one DefaultInsert takes needs none either.
GreedyChoicesAgree ==
    Descending =>
        LET r == objects[rec]
            least(n, i) == AreaIncrease(Child(n, i + 1), r)
            within == GetMinAreaContainingChild(iter, r)
        IN  /\ within = -1 <=> GetNumberOfEnlargedChildren(iter, r) = Len(Entries(iter))
            /\ within >= 0 => /\ Contains(Child(iter, within + 1), r)
                              /\ least(iter, GetMinAreaEnlargementChild(iter, r)) = 0
            /\ \A i \in Chosen("INS_AREA", iter, r) :
                   least(iter, i - 1) = least(iter, GetMinAreaEnlargementChild(iter, r))
            /\ \A i \in Chosen("INS_MARGIN", iter, r) :
                   PerimeterIncrease(Child(iter, i), r)
                   = PerimeterIncrease(Child(iter, GetMinMarginIncrementChild(iter, r) + 1), r)
            /\ \A i \in Chosen("INS_OVERLAP", iter, r) :
                   OverlapIncrease(iter, i, r)
                   = OverlapIncrease(iter, GetMinOverlapIncrementChild(iter, r) + 1, r)

\* What a policy is shown of the children is what it gets if it chooses one,
\* whichever way it is asked: by row, by sorted row or by a greedy choice.
ChildrenAsShown ==
    RowLeadsToChild /\ SortedRowLeadsToChild /\ ChildrenAreFractions /\ GreedyChoicesAgree

\* What a policy is shown of the cuts is what it gets if it chooses one, though
\* rows, sorted rows, candidates and cuts are listed by separate loops.
CutsAsShown ==
    RowLeadsToCut /\ SortedRowLeadsToCut /\ CutsAreFractions /\ CandidatesDoNotOverlap

\* What a policy is told of the built-in strategies is what they do, and that
\* there is nothing to choose only if there is not.
RowIsWhatStrategyDoes ==
    AboutToSplit =>
        LET split(strategy) == SplitBy(strategy, EntryBoxes(iter), Entries(iter), tree_nodes[iter].box)
        IN  \A states \in {RetrieveStates(iter)}, boxes \in {[i \in 1..5 |-> Boxes(split(RowOf[i]))]} :
                /\ RowBoundsStrategy(states.rows, boxes)
                /\ NothingToChoose(states.is_valid, boxes)
=============================================================================
