----------------------------- MODULE MCQuadTree -----------------------------
EXTENDS QuadTree, TLC

CONSTANTS o1, o2, o3, o4
MCObjects == {o1, o2, o3, o4}
AnyObject == Permutations(MCObjects)

\* Points in one quarter and its quarters, on the lines between buckets, in the
\* other quarters and beyond the square.
MCPlaces == {<<1, 1>>, <<3, 1>>, <<2, 3>>, <<4, 2>>, <<7, 5>>, <<9, 1>>}
MCQueries == {Rect(x, y, w, w) : x, y \in {0, 1, 2, 4}, w \in {0, 1, 5}} \cup {Rect(3, 0, 6, 6)}
MCCells == <<Rect(0, 0, 4, 4), Rect(4, 0, 4, 4), Rect(0, 4, 8, 4)>>
=============================================================================
