------------------------------ MODULE AtomicCell ------------------------------
(***************************************************************************)
(* What an optimistically locked B-tree node promises to the operations    *)
(* that use it (OptLock, storage/btree/btree.h): although its contents are *)
(* read without a lock and written field by field, every accepted read and *)
(* every update behaves as one indivisible step on the whole contents, and *)
(* a node that has been marked obsolete is never read or written again.    *)
(*                                                                         *)
(* The contents are abstracted to the number of updates they have seen, so *)
(* a lost update and a read of a mixture of two versions are both visible. *)
(***************************************************************************)
EXTENDS Naturals

CONSTANTS
  Threads,     \* threads that use the node
  None         \* what a thread that has read nothing yet has seen

VARIABLES
  cell,        \* number of updates applied to the contents
  alive,       \* FALSE once the node is obsolete
  seen         \* the contents the last accepted read of a thread returned

cellVars == <<cell, alive, seen>>

Init ==
  /\ cell = 0
  /\ alive = TRUE
  /\ seen = [t \in Threads |-> None]

\* An update that is based on the contents as they are.
Update ==
  /\ alive
  /\ cell' = cell + 1
  /\ UNCHANGED <<alive, seen>>

\* A read of the whole contents: both fields carry the same number of updates.
Read(t) ==
  /\ alive
  /\ seen' = [seen EXCEPT ![t] = <<cell, cell>>]
  /\ UNCHANGED <<cell, alive>>

\* The node leaves the tree for good.
Retire ==
  /\ alive
  /\ alive' = FALSE
  /\ UNCHANGED <<cell, seen>>

Next ==
  \/ Update
  \/ Retire
  \/ \E t \in Threads : Read(t)

Spec == Init /\ [][Next]_cellVars
===============================================================================
