----------------------------- MODULE NodeSplits -----------------------------
(* How a node of the R-tree is divided: the split strategies and the cuts    *)
(* that the learned policies choose from, as operators on the entries e of   *)
(* the node (a sequence of ids) and their boxes R.  A split is a record: the *)
(* entries low that stay and high that move to the sibling, and the boxes    *)
(* that the code gives the two.                                              *)
EXTENDS Rectangles

VARIABLES maximum_entry, minimum_entry    \* static members of TreeNode

Sorted(R, e, order) ==
    Ordered(e, [i \in DOMAIN e |-> Key(order, R[e[i]]) \o <<e[i]>>])

\* A cut leaves at least minimum_entry entries on each side.
CutsPerOrder == maximum_entry - 2 * minimum_entry + 2

\* The boxes of the two sides at every cut of s, as every loop over the cuts
\* computes them: the box of the first entries grows by one entry per cut,
\* that of the others is built anew from the entries no cut takes.
SweepForgetsOne(R, s) ==
    LET suffix == MergeRange(R, SubSeq(s, maximum_entry - minimum_entry + 2, Len(s)))
    IN  [c \in 1..CutsPerOrder |->
            <<MergeRange(R, SubSeq(s, 1, minimum_entry - 1 + c)),
              IF c = CutsPerOrder THEN suffix
              ELSE Merge(suffix, MergeRange(R, SubSeq(s, minimum_entry + c + 1, Len(s))))>>]
Sweep(R, s) ==
    LET prefix == MergeRange(R, SubSeq(s, 1, minimum_entry - 1))
        suffix == MergeRange(R, SubSeq(s, maximum_entry - minimum_entry + 2, Len(s)))
        grow(box, i, j) == IF i > j THEN box ELSE Merge(box, MergeRange(R, SubSeq(s, i, j)))
    IN  [c \in 1..CutsPerOrder |->
            <<grow(prefix, minimum_entry, minimum_entry - 1 + c),
              grow(suffix, minimum_entry + c, maximum_entry - minimum_entry + 1)>>]

\* SplitInLoc and SplitInSortedLoc: cut c of s, the boxes from the entries.
CutAt(R, s, c) ==
    LET k == minimum_entry - 1 + c
        low == SubSeq(s, 1, k)
        high == SubSeq(s, k + 1, Len(s))
    IN  [low |-> low, high |-> high, box1 |-> MergeRange(R, low), box2 |-> MergeRange(R, high)]

\* The cut with the boxes of the sweep.
SweptCut(R, s, c) ==
    LET k == minimum_entry - 1 + c
    IN  [low |-> SubSeq(s, 1, k), high |-> SubSeq(s, k + 1, Len(s)),
         box1 |-> Sweep(R, s)[c][1], box2 |-> Sweep(R, s)[c][2]]

\* FindMinimumSplit, run over the orders one after another: the first cut
\* with the smallest pair of scores.
Score(by, a, b) ==
    CASE by = "SplitArea" -> SplitArea(a, b)
      [] by = "SplitPerimeter" -> SplitPerimeter(a, b)
      [] by = "SplitOverlap" -> SplitOverlap(a, b)

\* The scores of every cut of every order, then its order and its number.
Scored(boxes, score1, score2) ==
    [at \in (DOMAIN boxes) \X (1..CutsPerOrder) |->
        LET b == boxes[at[1]][at[2]]
        IN  <<Score(score1, b[1], b[2]), Score(score2, b[1], b[2]), at[1], at[2]>>]

FindMinimumSplit(R, e, orders, score1, score2) ==
    LET s == [o \in DOMAIN orders |-> Sorted(R, e, orders[o])]
        boxes == [o \in DOMAIN orders |-> Sweep(R, s[o])]
        scored == Scored(boxes, score1, score2)
        best == Least({scored[at] : at \in DOMAIN scored})
    IN  SweptCut(R, s[best[3]], best[4])

AllOrders == <<"left", "right", "bottom", "top">>
TwoOrders == <<"left", "bottom">>

MinArea(R, e) == FindMinimumSplit(R, e, AllOrders, "SplitArea", "SplitOverlap")
MinMargin(R, e) == FindMinimumSplit(R, e, TwoOrders, "SplitPerimeter", "SplitOverlap")
MinOverlap(R, e) == FindMinimumSplit(R, e, AllOrders, "SplitOverlap", "SplitArea")

(***************************************************************************)
(* Quadratic: the pair that wastes most seeds the two groups, then the     *)
(* entry with the strongest preference is placed, until one group needs    *)
(* all that are left.                                                      *)
(***************************************************************************)
Waste(a, b) == Area(Merge(a, b)) - Area(a) - Area(b)

Seeds(R, e) ==      \* the two positions
    LET best == Least({<<-Waste(R[e[p[1]]], R[e[p[2]]]), p[1], p[2]>> :
                           p \in {q \in (DOMAIN e) \X (DOMAIN e) : q[1] < q[2]}})
    IN  <<best[2], best[3]>>

Without(s, i) == SubSeq(s, 1, i - 1) \o SubSeq(s, i + 1, Len(s))

\* The position in s of the entry whose two areas differ most, the first such.
PickNext(R, box1, box2, s) ==
    Least({<<-Gap(Area(Merge(box1, R[s[i]])), Area(Merge(box2, R[s[i]]))), i>> : i \in DOMAIN s})[2]

\* It joins the group whose box stays smaller, in a tie the group with fewer.
JoinsFirst(box1, box2, n1, n2, a) ==
    LET a1 == Area(Merge(box1, a))  a2 == Area(Merge(box2, a))
    IN  a1 < a2 \/ (a1 = a2 /\ n1 < n2)

\* One round of the loop, on the split and what is unassigned.
Assigned(R, a) ==
    LET d == a.split
        u == a.left
        i == PickNext(R, d.box1, d.box2, u)
        all1 == [d EXCEPT !.low = @ \o u, !.box1 = Merge(@, MergeRange(R, u))]
        all2 == [d EXCEPT !.high = @ \o u, !.box2 = Merge(@, MergeRange(R, u))]
        one1 == [d EXCEPT !.low = Append(@, u[i]), !.box1 = Merge(@, R[u[i]])]
        one2 == [d EXCEPT !.high = Append(@, u[i]), !.box2 = Merge(@, R[u[i]])]
    IN  IF u = <<>> THEN a
        ELSE IF Len(u) + Len(d.low) = minimum_entry THEN [split |-> all1, left |-> <<>>]
        ELSE IF Len(u) + Len(d.high) = minimum_entry THEN [split |-> all2, left |-> <<>>]
        ELSE IF JoinsFirst(d.box1, d.box2, Len(d.low), Len(d.high), R[u[i]])
             THEN [split |-> one1, left |-> Without(u, i)]
             ELSE [split |-> one2, left |-> Without(u, i)]

Distribute(R, split, s) ==
    LET after[k \in 0..Len(s)] ==
            IF k = 0 THEN [split |-> split, left |-> s] ELSE Assigned(R, after[k - 1])
    IN  after[Len(s)].split

Quadratic(R, e) ==
    LET p == Seeds(R, e)
    IN  Distribute(R, [low |-> <<e[p[1]]>>, high |-> <<e[p[2]]>>, box1 |-> R[e[p[1]]], box2 |-> R[e[p[2]]]],
                   Without(Without(e, p[2]), p[1]))

(***************************************************************************)
(* Greene: the seeds' separation, relative to the node's box, chooses the  *)
(* order; each side takes a half, an odd entry goes where the area grows   *)
(* less.  A node without width or height divides 0 by 0, and every         *)
(* comparison with that is false.                                          *)
(***************************************************************************)
Length(a, order) == IF order = "left" THEN a.right - a.left ELSE a.top - a.bottom

GreeneOrder(R, e, node) ==
    LET p == Seeds(R, e)
        o == Overlap(R[e[p[1]]], R[e[p[2]]])
    IN  IF /\ Length(node, "left") > 0 /\ Length(node, "bottom") > 0
           /\ Gap(o.left, o.right) * Length(node, "bottom") < Gap(o.bottom, o.top) * Length(node, "left")
        THEN "bottom" ELSE "left"

Halves(R, low, high) ==
    [low |-> low, high |-> high, box1 |-> MergeRange(R, low), box2 |-> MergeRange(R, high)]
WithOdd(split, odd, a) ==
    LET box1 == Merge(split.box1, a)
        box2 == Merge(split.box2, a)
    IN  IF Area(box1) - Area(split.box1) < Area(box2) - Area(split.box2)
        THEN [split EXCEPT !.low = Append(@, odd), !.box1 = box1]
        ELSE [split EXCEPT !.high = Append(@, odd), !.box2 = box2]
FromEnd(s, h) == [i \in 1..h |-> s[Len(s) + 1 - i]]
InHalves(R, s) ==
    LET h == Len(s) \div 2
        halves == Halves(R, SubSeq(s, 1, h), FromEnd(s, h))
    IN  IF Len(s) % 2 = 0 THEN halves ELSE WithOdd(halves, s[h + 1], R[s[h + 1]])
Greene(R, e, node) == InHalves(R, Sorted(R, e, GreeneOrder(R, e, node)))

\* The strategies of SplitStepByStep.
SplitBy(strategy, R, e, node) ==
    CASE strategy = "SPL_MIN_AREA" -> MinArea(R, e)
      [] strategy = "SPL_MIN_MARGIN" -> MinMargin(R, e)
      [] strategy = "SPL_MIN_OVERLAP" -> MinOverlap(R, e)
      [] strategy = "SPL_QUADRATIC" -> Quadratic(R, e)
      [] strategy = "SPL_GREENE" -> Greene(R, e, node)

(***************************************************************************)
(* RRSplit: a leaf is cut along the order with the smaller sum of          *)
(* perimeters, an inner node along either.  Which cut of the order it takes *)
(* depends on exponential weights, which are not modelled: any may be      *)
(* taken.  Along a side of length zero every weight is 0/0 and none is.    *)
(***************************************************************************)
PerimSum(sweep) == SumFunction([c \in DOMAIN sweep |-> SplitPerimeter(sweep[c][1], sweep[c][2])])

RROrders(R, e, leaf) ==
    IF ~leaf THEN {"left", "bottom"}
    ELSE IF PerimSum(Sweep(R, Sorted(R, e, "left"))) < PerimSum(Sweep(R, Sorted(R, e, "bottom")))
         THEN {"left"} ELSE {"bottom"}

RRCuts(R, e, node, leaf) ==
    {SweptCut(R, Sorted(R, e, order), c) :
        order \in {o \in RROrders(R, e, leaf) : Length(node, o) > 0}, c \in 1..CutsPerOrder}
=============================================================================
