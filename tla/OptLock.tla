------------------------------- MODULE OptLock --------------------------------
(***************************************************************************)
(* struct OptLock (src/storage/btree/btree.h): the version lock every      *)
(* B-tree node starts with, together with the protocol the tree's          *)
(* operations follow when they read or write a node under it.              *)
(*                                                                         *)
(* One 64-bit word holds an obsolete flag (bit 0), a lock flag (bit 1) and *)
(* a version (the remaining bits).  Readers take no lock: they remember    *)
(* the word, read the contents, and accept what they read only if the word *)
(* is still the same.  A writer turns the word it remembered into its      *)
(* locked form with one compare-and-swap.                                  *)
(*                                                                         *)
(* The contents of the node are two fields, `first' and `second', that are *)
(* read and written one at a time: every step below is one shared access.  *)
(***************************************************************************)
EXTENDS Naturals

CONSTANTS
  Threads,     \* threads that use the node
  None,        \* no value
  MaxWord      \* bound on the lock word: no write lock is taken beyond it

ASSUME MaxWordAssumption == MaxWord \in Nat
ASSUME NoneAssumption == None \notin Nat

InitialWord == 4                          \* 0b100

isObsolete(version) == version % 2 = 1
isLocked(version)   == (version \div 2) % 2 = 1
Readable(version)   == ~isLocked(version) /\ ~isObsolete(version)

(***************************************************************************)
(* Where a thread stands.  "first" and "second" name the field it reads    *)
(* next, "put1" and "put2" the field it writes next.                       *)
(***************************************************************************)
ReaderPC == {"first", "second", "check"}
WriterPC == {"put1", "put2", "unlock"}
PC == {"idle"} \cup ReaderPC \cup WriterPC

VARIABLES
  typeVersionLockObsolete,   \* the lock word
  first, second,             \* the contents of the node
  pc,                        \* where each thread stands
  version,                   \* the word each thread remembers
  got,                       \* the fields each thread has read
  seen                       \* what its last accepted read returned

vars == <<typeVersionLockObsolete, first, second, pc, version, got, seen>>

Goto(t, label) == pc' = [pc EXCEPT ![t] = label]

\* The attempt is over: what the thread remembers of it goes out of scope.
Leave(t) ==
  /\ Goto(t, "idle")
  /\ version' = [version EXCEPT ![t] = 0]
  /\ got' = [got EXCEPT ![t] = <<None, None>>]

Init ==
  /\ typeVersionLockObsolete = InitialWord
  /\ first = 0
  /\ second = 0
  /\ pc = [t \in Threads |-> "idle"]
  /\ version = [t \in Threads |-> 0]
  /\ got = [t \in Threads |-> <<None, None>>]
  /\ seen = [t \in Threads |-> None]

-------------------------------------------------------------------------------
\* readLockOrRestart: remember the word; a locked or obsolete one is a restart.
readLockOrRestart(t) ==
  /\ pc[t] = "idle"
  /\ IF Readable(typeVersionLockObsolete)
       THEN /\ version' = [version EXCEPT ![t] = typeVersionLockObsolete]
            /\ Goto(t, "first")
       ELSE UNCHANGED <<version, pc>>
  /\ UNCHANGED <<typeVersionLockObsolete, first, second, got, seen>>

\* Only the first field is read before the reader validates.
FirstOnly(t) ==
  /\ pc[t] = "first"
  /\ got' = [got EXCEPT ![t] = <<first, @[2]>>]
  /\ Goto(t, "check")
  /\ UNCHANGED <<typeVersionLockObsolete, first, second, version, seen>>

\* An operation reads the node's fields while others may be writing them.
ReadFirst(t) ==
  /\ pc[t] = "first"
  /\ got' = [got EXCEPT ![t] = <<first, @[2]>>]
  /\ Goto(t, "second")
  /\ UNCHANGED <<typeVersionLockObsolete, first, second, version, seen>>

ReadSecond(t) ==
  /\ pc[t] = "second"
  /\ got' = [got EXCEPT ![t] = <<@[1], second>>]
  /\ Goto(t, "check")
  /\ UNCHANGED <<typeVersionLockObsolete, first, second, version, seen>>

\* A reader that only looks whether the node is locked now.
AcceptUnlocked(t) ==
  /\ pc[t] = "check"
  /\ seen' = IF isLocked(typeVersionLockObsolete)
               THEN seen
               ELSE [seen EXCEPT ![t] = got[t]]
  /\ Leave(t)
  /\ UNCHANGED <<typeVersionLockObsolete, first, second>>

\* readUnlockOrRestart, and checkOrRestart which calls it: the reader accepts
\* what it read exactly when the word is the one it remembers.
readUnlockOrRestart(t) ==
  /\ pc[t] = "check"
  /\ seen' = IF version[t] = typeVersionLockObsolete
               THEN [seen EXCEPT ![t] = got[t]]
               ELSE seen
  /\ Leave(t)
  /\ UNCHANGED <<typeVersionLockObsolete, first, second>>

\* A store instead of the compare-and-swap.
StoreLocked(t) ==
  /\ pc[t] = "check"
  /\ typeVersionLockObsolete < MaxWord
  /\ typeVersionLockObsolete' = version[t] + 2
  /\ version' = [version EXCEPT ![t] = @ + 2]
  /\ Goto(t, "put1")
  /\ UNCHANGED <<first, second, got, seen>>

\* upgradeToWriteLockOrRestart: the compare-and-swap from the remembered word
\* to its locked form.
upgradeToWriteLockOrRestart(t) ==
  /\ pc[t] = "check"
  /\ typeVersionLockObsolete < MaxWord
  /\ IF typeVersionLockObsolete = version[t]
       THEN /\ typeVersionLockObsolete' = version[t] + 2
            /\ version' = [version EXCEPT ![t] = @ + 2]
            /\ Goto(t, "put1")
            /\ got' = got
       ELSE /\ Leave(t)
            /\ UNCHANGED typeVersionLockObsolete
  /\ UNCHANGED <<first, second, seen>>

\* The writer derives the new contents from what it read before it upgraded,
\* as an insert does that found its position in the leaf optimistically.
WriteFirst(t) ==
  /\ pc[t] = "put1"
  /\ first' = got[t][1] + 1
  /\ Goto(t, "put2")
  /\ UNCHANGED <<typeVersionLockObsolete, second, version, got, seen>>

WriteSecond(t) ==
  /\ pc[t] = "put2"
  /\ second' = got[t][2] + 1
  /\ Goto(t, "unlock")
  /\ UNCHANGED <<typeVersionLockObsolete, first, version, got, seen>>

\* The version is counted up, the lock bit stays.
VersionOnly(t) ==
  /\ pc[t] = "unlock"
  /\ typeVersionLockObsolete' = typeVersionLockObsolete + 4
  /\ Leave(t)
  /\ UNCHANGED <<first, second, seen>>

\* writeUnlock: fetch_add(0b10) clears the lock bit and carries into the version.
writeUnlock(t) ==
  /\ pc[t] = "unlock"
  /\ typeVersionLockObsolete' = typeVersionLockObsolete + 2
  /\ Leave(t)
  /\ UNCHANGED <<first, second, seen>>

\* writeUnlockObsolete: fetch_add(0b11) also sets the obsolete bit.
writeUnlockObsolete(t) ==
  /\ pc[t] = "unlock"
  /\ typeVersionLockObsolete' = typeVersionLockObsolete + 3
  /\ Leave(t)
  /\ UNCHANGED <<first, second, seen>>

Step(t) ==
  \/ readLockOrRestart(t)
  \/ ReadFirst(t)
  \/ ReadSecond(t)
  \/ readUnlockOrRestart(t)
  \/ upgradeToWriteLockOrRestart(t)
  \/ WriteFirst(t)
  \/ WriteSecond(t)
  \/ writeUnlock(t)
  \/ writeUnlockObsolete(t)

Next == \E t \in Threads : Step(t)

Spec == Init /\ [][Next]_vars

\* No thread is descheduled for ever.
FairSpec == Spec /\ \A t \in Threads : WF_vars(Step(t))
-------------------------------------------------------------------------------
TypeOK ==
  /\ typeVersionLockObsolete \in Nat
  /\ first \in Nat
  /\ second \in Nat
  /\ pc \in [Threads -> PC]
  /\ version \in [Threads -> Nat]
  /\ got \in [Threads -> (Nat \cup {None}) \X (Nat \cup {None})]
  /\ seen \in [Threads -> {None} \cup (Nat \X Nat)]

Writers == {t \in Threads : pc[t] \in WriterPC}

(***************************************************************************)
(* Two threads never hold the write lock together, and the lock bit tells  *)
(* exactly whether one does: upgrade and unlock may be interleaved with    *)
(* failing upgrades of other threads in any order.                         *)
(***************************************************************************)
MutualExclusion ==
  /\ \A s, t \in Writers : s = t
  /\ isLocked(typeVersionLockObsolete) <=> Writers # {}

(***************************************************************************)
(* The node implements an indivisible cell: what readUnlockOrRestart       *)
(* accepts is one version of the contents and the current one, an update   *)
(* is never based on contents another update has replaced, and nothing     *)
(* reads or updates the contents after writeUnlockObsolete.                *)
(***************************************************************************)
Cell == INSTANCE AtomicCell WITH
          cell  <- first,
          alive <- ~isObsolete(typeVersionLockObsolete)

CellSpec == Cell!Spec

\* A write lock that is taken is given back, so no reader spins for ever on it.
LockReleased == isLocked(typeVersionLockObsolete) ~> ~isLocked(typeVersionLockObsolete)
===============================================================================
