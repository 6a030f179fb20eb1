------------------------------ MODULE MCRTree ------------------------------
EXTENDS RTreeQueries, RTreeStates

P(x, y) == {Rect(x, x, y, y)}                     \* a point, as build_rtree inserts
B(x, y, w, h) == {Rect(x, x + w, y, y + h)}

PointsInTwoClouds == <<P(0, 0), P(1, 0), P(0, 1), P(6, 6), P(5, 6), P(6, 5) \cup P(1, 1), P(3, 3), P(0, 0)>>
PointsOnLines == <<P(0, 0) \cup P(5, 1), P(1, 0), P(2, 0), P(3, 0) \cup P(1, 2), P(0, 0) \cup P(5, 3), P(5, 0)>>
Boxes9 == <<B(0, 0, 2, 1), B(1, 0, 1, 3), B(4, 4, 2, 2) \cup B(0, 2, 1, 1), B(3, 3, 1, 1), B(5, 0, 1, 2) \cup B(3, 1, 2, 0),
            B(0, 4, 3, 2), B(2, 2, 2, 2) \cup B(5, 5, 1, 1), B(1, 1, 4, 1), B(0, 5, 1, 1) \cup P(3, 2)>>
Grid20 == [i \in 1..20 |-> B((i - 1) % 5, (i - 1) \div 5, 1, 1 + (i % 2))]
\* The first split of a node, for any few of these boxes, under every strategy.
Four == B(0, 0, 1, 1) \cup B(0, 1, 2, 1) \cup B(3, 0, 1, 2) \cup P(4, 4)
Six == Four \cup B(1, 2, 2, 2) \cup P(0, 4)
AnyOf(boxes, n) == [i \in 1..n |-> boxes]
Up(s, n) == SubSeq(s, 1, n)

Setup(max, min, insert, split, ins, spl, rects, copies) ==
    [max |-> max, min |-> min, insert |-> insert, split |-> split, ins |-> ins, spl |-> spl,
     rects |-> rects, copies |-> copies]

MCSetups == <<
    Setup(3, 2, "INS_AREA", "SPL_MIN_AREA", "step", "step", Up(Boxes9, 6), FALSE),
    Setup(3, 2, "INS_AREA", "SPL_MIN_AREA", "default", "step", AnyOf(Six, 4), FALSE),
    Setup(4, 2, "INS_AREA", "SPL_MIN_AREA", "default", "step", AnyOf(Four, 5), FALSE),
    Setup(3, 2, "INS_OVERLAP", "SPL_MIN_OVERLAP", "default", "default", PointsInTwoClouds, FALSE),
    Setup(4, 2, "INS_MARGIN", "SPL_MIN_MARGIN", "default", "default", Boxes9, FALSE),
    Setup(4, 2, "INS_AREA", "SPL_QUADRATIC", "try", "default", Boxes9, FALSE),
    Setup(3, 2, "INS_AREA", "SPL_GREENE", "default", "reinsert", Boxes9, FALSE),
    Setup(4, 2, "INS_RANDOM", "SPL_GREENE", "default", "default", Up(Boxes9, 8), FALSE),
    Setup(3, 2, "INS_AREA", "SPL_MIN_AREA", "loc", "default", Up(Boxes9, 7), FALSE),
    Setup(3, 2, "INS_AREA", "SPL_MIN_AREA", "default", "loc", Up(Boxes9, 8), FALSE),
    Setup(3, 2, "INS_AREA", "SPL_MIN_AREA", "sorted", "default", Up(Boxes9, 6), FALSE),
    Setup(3, 2, "INS_AREA", "SPL_MIN_AREA", "default", "sorted", Boxes9, FALSE),
    Setup(3, 2, "INS_AREA", "SPL_MIN_AREA", "default", "candidate", Boxes9, FALSE),
    Setup(4, 2, "INS_AREA", "SPL_MIN_AREA", "default", "sorted", Up(Boxes9, 2) \o AnyOf(Six, 3), FALSE),
    Setup(4, 2, "INS_AREA", "SPL_MIN_AREA", "default", "candidate", Up(Boxes9, 2) \o AnyOf(Six, 3), FALSE),
    Setup(3, 2, "INS_AREA", "SPL_MIN_AREA", "RR", "RR", Boxes9, FALSE),
    Setup(3, 2, "INS_AREA", "SPL_MIN_AREA", "RR", "RR", PointsOnLines, FALSE),
    Setup(3, 2, "INS_AREA", "SPL_MIN_AREA", "default", "default", Up(Boxes9, 5), TRUE),
    Setup(3, 2, "INS_MARGIN", "SPL_MIN_OVERLAP", "default", "default", Grid20, FALSE),
    Setup(3, 2, "INS_AREA", "SPL_QUADRATIC", "default", "reinsert", Grid20, FALSE)>>

MCQueries == {Rect(0, 1, 0, 1), Rect(1, 2, 1, 2), Rect(5, 6, 5, 6), Rect(4, 5, 1, 2), Rect(0, 6, 0, 6)}
MCPoints == {<<0, 0>>, <<3, 3>>, <<6, 1>>}
MCGrid == [minX |-> 0, minY |-> 0, delX |-> 3, delY |-> 3, xPar |-> 2, yPar |-> 2]

(* Spec's fairness, WF_vars(Call), in a form that TLC evaluates faster: a    *)
(* call can be made in every state in which an insertion is under way.  That *)
(* this is so is what the search for deadlocks checks: only the driver's end *)
(* and an RRSplit without a cut are allowed to be one.                       *)
Stopped == pc = "undefined" \/ (pc = "idle" /\ ObjectCount = Len(conf.rects))
Done == Stopped /\ UNCHANGED vars
MCSpec == Init /\ [][Next \/ Done]_vars /\ ([]<>(pc \in {"idle", "undefined"}) \/ []<><<Call>>_vars)
=============================================================================
