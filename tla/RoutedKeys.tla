------------------------------ MODULE RoutedKeys ------------------------------
(***************************************************************************)
(* The way a key takes from a router to the index (src/threads/TPM.cc).    *)
(* The router puts it into the field left_ of a Rectangle, a double; the   *)
(* worker casts the double back to a 64-bit integer.  The payload of an    *)
(* insert still points to the key as it was.                               *)
(*                                                                         *)
(* A double has 53 significant bits.  The data sets use the whole range up *)
(* to 2^63, where neighbouring doubles are up to 1024 apart; `Spacing' is  *)
(* that distance for the keys at hand.                                     *)
(***************************************************************************)
EXTENDS Naturals

\* The nearest multiple of spacing, the even one of two that are equally near.
ToDouble(k, spacing) ==
  LET lower == k - (k % spacing)
      twice == 2 * (k % spacing)
      even  == (lower \div spacing) % 2 = 0
  IN  IF twice < spacing \/ (twice = spacing /\ even) THEN lower ELSE lower + spacing

\* lx = init_keys[...]; query = Rectangle(lx, ...), then in the worker
\* idx_btree->insert(static_cast<uint64_t>(left_), static_cast<uint64_t>(bottom_)).
RoutedInsert(k, payload, spacing) ==
  [op |-> "insert", key |-> ToDouble(k, spacing), val |-> payload]

\* idx_btree->scan(static_cast<uint64_t>(left_), static_cast<int>(right_)).
RoutedScan(k, range, spacing) ==
  [op |-> "scan", key |-> ToDouble(k, spacing), range |-> range]
===============================================================================
