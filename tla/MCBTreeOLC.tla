------------------------------ MODULE MCBTreeOLC ------------------------------
(***************************************************************************)
(* Instances of BTreeOLC for TLC.  A payload <<k, i>> points to the key k; *)
(* i tells two inserts of the same key apart.                              *)
(***************************************************************************)
EXTENDS BTreeOLC, RoutedKeys, TLC

CONSTANTS main, w1, w2

Two == {main, w1, w2}

MCPayloads == (1..10) \X {0, 1}
MCKeyAt(p) == p[1]
Ins(k, i) == [op |-> "insert", key |-> k, val |-> <<k, i>>]
Fnd(k)    == [op |-> "find", key |-> k]
Scn(k, r) == [op |-> "scan", key |-> k, range |-> r]

\* The root has room for one separator more, and the last leaf is full: the first
\* insert there splits the leaf, and the insert that comes by next, the same one
\* after its restart or the other worker's, splits the root.
RootKeys == 1..9
NearlyFullRoot == [i \in 1..5 |-> Ins(<<1, 2, 3, 4, 6>>[i], 0)]
RootCalls == {Ins(7, 1), Ins(9, 1), Ins(1, 1), Fnd(6), Scn(2, 4)}

\* Three levels; the same with the right inner node, which has a parent.
DeepKeys == 1..10
Deep == [i \in 1..7 |-> Ins(i, 0)]
DeepCalls == {Ins(8, 1), Ins(10, 1), Fnd(7), Scn(5, 4)}

\* Keys beyond 2^53 that reach the index through a router, two keys per double.
RoutedCalls == {RoutedInsert(7, <<7, 1>>, 2), RoutedScan(5, 5, 2)}
===============================================================================
