----------------------------- MODULE Rectangles -----------------------------
(* The rectangles of src/storage/rtree: what the R-tree computes on bounding *)
(* boxes.  Coordinates are integers here and doubles in the code: rounding   *)
(* is left out, the order of comparisons and the treatment of ties are not.  *)
EXTENDS Integers, Sequences, FiniteSets, FiniteSetsExt, Functions

Rect(l, r, b, t) == [left |-> l, right |-> r, bottom |-> b, top |-> t]
Higher(a, b) == IF a < b THEN b ELSE a
Lower(a, b) == IF b < a THEN b ELSE a
Gap(a, b) == IF a < b THEN b - a ELSE a - b

\* Rectangle::Merge, Include, and the free function Merge: the box of both.
Merge(a, b) == Rect(Lower(a.left, b.left), Higher(a.right, b.right),
                    Lower(a.bottom, b.bottom), Higher(a.top, b.top))

\* MergeRange: the box of the entries s, each a member of the domain of R.
MergeRange(R, s) ==
    LET of == {R[s[i]] : i \in DOMAIN s}
    IN  Rect(Min({a.left : a \in of}), Max({a.right : a \in of}),
             Min({a.bottom : a \in of}), Max({a.top : a \in of}))

Area(a) == (a.top - a.bottom) * (a.right - a.left)
Perimeter(a) == 2 * (a.top - a.bottom + a.right - a.left)

Contains(a, b) == /\ a.left <= b.left /\ b.right <= a.right
                  /\ a.bottom <= b.bottom /\ b.top <= a.top

\* What two rectangles share.  Touching is not overlapping: both sides must
\* be longer than zero.
Overlap(a, b) == Rect(Higher(a.left, b.left), Lower(a.right, b.right),
                      Higher(a.bottom, b.bottom), Lower(a.top, b.top))
IsOverlap(a, b) == LET o == Overlap(a, b) IN o.left < o.right /\ o.bottom < o.top

SplitArea(a, b) == Area(a) + Area(b)
SplitPerimeter(a, b) == Perimeter(a) + Perimeter(b)
SplitOverlap(a, b) == IF IsOverlap(a, b) THEN Area(Overlap(a, b)) ELSE 0
OverlapPerimeter(a, b) == IF IsOverlap(a, b) THEN Perimeter(Overlap(a, b)) ELSE 0

\* How much more of b the box a covers once it includes obj.
MarginOvlpPerim(a, obj, b) == OverlapPerimeter(Merge(a, obj), b) - OverlapPerimeter(a, b)
MarginOvlpArea(a, obj, b) == SplitOverlap(Merge(a, obj), b) - SplitOverlap(a, b)

\* The square of MinDistanceToRec and MinDistanceToNode: the root is monotone.
MinDistance(x, y, a) ==
    LET dx == IF x > a.right THEN x - a.right ELSE IF x < a.left THEN a.left - x ELSE 0
        dy == IF y > a.top THEN y - a.top ELSE IF y < a.bottom THEN a.bottom - y ELSE 0
    IN  dx * dx + dy * dy

(***************************************************************************)
(* The four orders of entries: by one side, ties by the others, then by id.*)
(***************************************************************************)
Less(v, w) == \E i \in DOMAIN v : v[i] < w[i] /\ \A j \in 1..i - 1 : v[j] = w[j]

\* The least of a set of tuples.  Where the code keeps the first entry with
\* the best score, a tuple is the scores and then the entry's position.
Least(S) == CHOOSE v \in S : \A w \in S : v = w \/ Less(v, w)

\* The members of s in the order of their scores, all different: each comes
\* after as many others as score less.
Ranked(s, score) == {<<Cardinality({j \in DOMAIN s : Less(score[j], score[i])}), s[i]>> : i \in DOMAIN s}
Ordered(s, score) ==
    LET ranked == Ranked(s, score)
    IN  [k \in DOMAIN s |-> (CHOOSE p \in ranked : p[1] = k - 1)[2]]

SortedByLeft(a) == <<a.left, a.right, a.bottom, a.top>>
SortedByRight(a) == <<a.right, a.left, a.bottom, a.top>>
SortedByTop(a) == <<a.top, a.bottom, a.left, a.right>>
SortedByBottom(a) == <<a.bottom, a.top, a.left, a.right>>

Key(order, a) == CASE order = "left" -> SortedByLeft(a)
                   [] order = "right" -> SortedByRight(a)
                   [] order = "top" -> SortedByTop(a)
                   [] order = "bottom" -> SortedByBottom(a)
=============================================================================
