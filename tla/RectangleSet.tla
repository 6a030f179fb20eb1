---------------------------- MODULE RectangleSet ----------------------------
(* What an R-tree promises whoever fills it: it is a numbered collection of  *)
(* rectangles that only grows, except that it may be cleared or go back, as  *)
(* a whole, to what it was when it was last copied.                          *)
EXTENDS Integers, FiniteSets

CONSTANT Rectangle
VARIABLES stored, saved

Count == Cardinality(DOMAIN stored)

Init == DOMAIN stored = {} /\ saved = {}

Insert ==
    /\ DOMAIN stored' = 0..Count /\ stored'[Count] \in Rectangle
    /\ \A k \in DOMAIN stored : stored'[k] = stored[k]
    /\ UNCHANGED saved
Clear == DOMAIN stored' = {} /\ UNCHANGED saved
Save == saved' = {stored} /\ UNCHANGED stored
Restore == stored' \in saved /\ UNCHANGED saved

Next == Insert \/ Clear \/ Save \/ Restore
Spec == Init /\ [][Next]_<<stored, saved>>
=============================================================================
