---------------------------- MODULE MCGridPlacement ---------------------------
(***************************************************************************)
(* Instances of GridPlacement for TLC.                                     *)
(***************************************************************************)
EXTENDS GridPlacement, TLC

\* A sequence of keys cut into leaves of one to three keys in all ways: a way is
\* the set of the positions it cuts behind.
Ways(keys) ==
  {cut \in SUBSET (1..(Len(keys) - 1)) :
     \A i \in 0..(Len(keys) - 3) : (cut \cup {0, Len(keys)}) \cap (i + 1)..(i + 3) # {}}
Cut(keys, cut) ==
  [j \in 1..(Cardinality(cut) + 1) |->
     {keys[i] : i \in {h \in DOMAIN keys : Cardinality({c \in cut : c < h}) = j - 1}}]

\* Dense, sparse and clustered data, also far from zero, in key spaces that fit,
\* that reach beyond the data, and that leave some of it out.
DataSets == {<<0, 1, 2, 3, 4, 5>>, <<1, 2, 4, 5, 9, 10, 11>>, <<1, 2, 3, 4, 14, 15>>, <<50, 51, 52, 53, 59, 60>>}
Spaces(keys) ==
  LET last == keys[Len(keys)]
  IN  {<<keys[1], last>>, <<keys[1], last + 2>>, <<keys[1] + 1, last - 1>>}
TreeInstances ==
  UNION {{[min |-> space[1], max |-> space[2], leaves |-> Cut(keys, cut)]
          : space \in Spaces(keys), cut \in Ways(keys)} : keys \in DataSets}

\* Key spaces with borders that are rounded, and keys at the last of the borders.
\* Beyond 256 an odd key is not a double either: it may be counted in a cell whose
\* scan begins behind it.
SpaceInstances ==
  {[min |-> m, max |-> n, leaves |-> <<{m, n - n \div xPar - 1}, {n - n \div xPar, n}>>]
   : m \in {0, 3}, n \in (24..40) \cup (321..332)}

\* Keys beyond 256 from an odd one on, which may be rounded up to the key after it.
OddInstances ==
  {[min |-> m, max |-> n, leaves |-> <<{m}, {m + 1, m + 2}, {m + 3, n - 3}, {n - 1, n}>>]
   : m \in {257, 259, 261}, n \in 285..288}

\* Key spaces only: narrow ones near zero, wide ones further from zero than they are
\* wide, ones whose cells leave gaps that a key falls into (from 65), and ones whose
\* last cell ends up to three keys early (from 238).
KeySpaces == {<<m, m + w>> : m \in {0, 7}, w \in 4..20}
             \cup {<<65, n>> : n \in 391..394}
             \cup {<<238, n>> : n \in (331..333) \cup (370..373)}
             \cup {<<400, n>> : n \in 550..553}
SpacesAlone == {[min |-> s[1], max |-> s[2], leaves |-> <<{s[1], s[2]}>>] : s \in KeySpaces}
AllInstances == TreeInstances \cup SpaceInstances \cup OddInstances \cup SpacesAlone

\* Three cells with borders in whole numbers that no key lies on, and no leaf with
\* keys of two cells: what a cell counts is what its scan, which begins at the
\* border, reaches.
AlignedInstances ==
  LET keys == <<1, 2, 3, 5, 6, 7, 9, 10, 11>>
  IN  {[min |-> 0, max |-> 12, leaves |-> Cut(keys, cut)]
       : cut \in {way \in Ways(keys) : {3, 6} \subseteq way}}
====
