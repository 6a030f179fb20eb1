------------------------------ MODULE MCOptLock -------------------------------
(***************************************************************************)
(* Instance of OptLock for TLC: three threads, and room in the lock word   *)
(* for two write locks, so that a reader can be overtaken by two writers   *)
(* and a third can still fail its upgrade.                                 *)
(***************************************************************************)
EXTENDS OptLock

CONSTANTS t1, t2, t3

MCThreads == {t1, t2, t3}
===============================================================================
