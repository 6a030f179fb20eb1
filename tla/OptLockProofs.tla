---------------------------- MODULE OptLockProofs -----------------------------
(***************************************************************************)
(* Proofs about OptLock, for any set of threads and any bound on the word. *)
(*                                                                         *)
(* The argument: every lock acquisition makes the word larger than all the *)
(* words that threads remember, and only the holder of the lock changes    *)
(* the contents.  So a thread whose remembered word is still the word has  *)
(* read the fields as they still are (Fresh), and both fields carry the    *)
(* same number of updates whenever nobody holds the lock (Settled).        *)
(***************************************************************************)
EXTENDS OptLock, TLAPS

\* A thread remembers an unlocked, live word that is not ahead of the word.
Remembered(t) ==
  pc[t] \in ReaderPC =>
    /\ Readable(version[t])
    /\ version[t] <= typeVersionLockObsolete

\* While the word is the remembered one, the fields read are still in place.
Fresh(t) ==
  pc[t] \in ReaderPC /\ version[t] = typeVersionLockObsolete =>
    /\ pc[t] \in {"second", "check"} => got[t][1] = first
    /\ pc[t] = "check" => got[t][2] = second

\* The writer works on the contents it read, one field after the other.
Writing(t) ==
  /\ pc[t] \in WriterPC =>
       /\ got[t][1] \in Nat
       /\ got[t][2] = got[t][1]
       /\ isLocked(typeVersionLockObsolete)
       /\ ~isObsolete(typeVersionLockObsolete)
  /\ pc[t] = "put1" => first = got[t][1] /\ second = got[t][2]
  /\ pc[t] = "put2" => first = got[t][1] + 1 /\ second = got[t][2]
  /\ pc[t] = "unlock" => first = got[t][1] + 1 /\ second = got[t][2] + 1

ReadSoFar(t) ==
  /\ pc[t] \in {"second", "check"} => got[t][1] \in Nat
  /\ pc[t] = "check" => got[t][2] \in Nat

Settled == ~isLocked(typeVersionLockObsolete) => first = second

LockBit ==
  isLocked(typeVersionLockObsolete) => \E t \in Threads : pc[t] \in WriterPC

OneWriter ==
  \A s, t \in Threads : pc[s] \in WriterPC /\ pc[t] \in WriterPC => s = t

IInv ==
  /\ TypeOK
  /\ \A t \in Threads : Remembered(t)
  /\ \A t \in Threads : Fresh(t)
  /\ \A t \in Threads : Writing(t)
  /\ \A t \in Threads : ReadSoFar(t)
  /\ Settled
  /\ LockBit
  /\ OneWriter

-------------------------------------------------------------------------------
\* The arithmetic of the lock word: what fetch_add and the compare-and-swap do
\* to its two flag bits.
LEMMA LockedWord ==
  ASSUME NEW w \in Nat, Readable(w)
  PROVE  isLocked(w + 2) /\ ~isObsolete(w + 2) /\ w + 2 \in Nat
BY DEF Readable, isLocked, isObsolete

LEMMA UnlockedWord ==
  ASSUME NEW w \in Nat, isLocked(w), ~isObsolete(w)
  PROVE  ~isLocked(w + 2) /\ ~isObsolete(w + 2) /\ w + 2 \in Nat
BY DEF isLocked, isObsolete

LEMMA ObsoleteWord ==
  ASSUME NEW w \in Nat, isLocked(w), ~isObsolete(w)
  PROVE  ~isLocked(w + 3) /\ isObsolete(w + 3) /\ w + 3 \in Nat
BY DEF isLocked, isObsolete

-------------------------------------------------------------------------------
LEMMA InitIInv == Init => IInv
<1> SUFFICES ASSUME Init PROVE IInv
  OBVIOUS
<1>1. TypeOK
  BY DEF Init, TypeOK, PC, InitialWord
<1>2. ~isLocked(typeVersionLockObsolete)
  BY DEF Init, InitialWord, isLocked
<1>3. QED
  BY <1>1, <1>2 DEF Init, IInv, Remembered, Fresh, Writing, ReadSoFar, Settled,
                    LockBit, OneWriter, ReaderPC, WriterPC

(***************************************************************************)
(* Steps that leave the lock word and the contents alone: the thread moves *)
(* among the reader labels or back to idle, where IInv asks nothing of it. *)
(***************************************************************************)
LEMMA ReadingStep ==
  ASSUME IInv, NEW t \in Threads,
         \/ readLockOrRestart(t)
         \/ ReadFirst(t)
         \/ ReadSecond(t)
         \/ readUnlockOrRestart(t)
  PROVE  IInv'
<1> USE DEF IInv, TypeOK, PC, ReaderPC, WriterPC, Goto, Leave,
            Remembered, Fresh, Writing, ReadSoFar, Settled, LockBit, OneWriter
<1>1. CASE readLockOrRestart(t)
  BY <1>1, SMTT(30) DEF readLockOrRestart
<1>2. CASE ReadFirst(t)
  BY <1>2 DEF ReadFirst
<1>3. CASE ReadSecond(t)
  BY <1>3 DEF ReadSecond
<1>4. CASE readUnlockOrRestart(t)
  BY <1>4 DEF readUnlockOrRestart
<1>5. QED
  BY <1>1, <1>2, <1>3, <1>4

(***************************************************************************)
(* The compare-and-swap: when it succeeds nobody held the lock, so the     *)
(* fields the thread read are both in place (Fresh) and equal (Settled);   *)
(* every other thread now remembers an older word.                         *)
(***************************************************************************)
LEMMA UpgradeStep ==
  ASSUME IInv, NEW t \in Threads, upgradeToWriteLockOrRestart(t)
  PROVE  IInv'
<1> USE DEF TypeOK, PC, ReaderPC, WriterPC, Goto, Leave, IInv,
            upgradeToWriteLockOrRestart
<1>1. CASE typeVersionLockObsolete = version[t]
  <2>1. /\ Readable(typeVersionLockObsolete)
        /\ ~isLocked(typeVersionLockObsolete)
    BY <1>1 DEF Remembered, Readable
  <2>2. /\ isLocked(typeVersionLockObsolete')
        /\ ~isObsolete(typeVersionLockObsolete')
        /\ typeVersionLockObsolete' \in Nat
    BY <1>1, <2>1, LockedWord
  <2>3. \A s \in Threads : pc[s] \notin WriterPC
    BY <2>1 DEF Writing
  <2>4. /\ got[t] = <<first, second>>
        /\ first = second
    BY <1>1, <2>1 DEF Fresh, Settled
  <2>5. pc' = [pc EXCEPT ![t] = "put1"]
    BY <1>1
  <2>6. TypeOK'
    BY <1>1, <2>2
  <2>7. (\A s \in Threads : Remembered(s))'
    BY <1>1, <2>2 DEF Remembered
  <2>8. (\A s \in Threads : Fresh(s))'
    BY <1>1, <2>2 DEF Fresh, Remembered
  <2>9. (\A s \in Threads : Writing(s))'
    BY <1>1, <2>2, <2>3, <2>4, <2>5 DEF Writing
  <2>10. (\A s \in Threads : ReadSoFar(s))'
    BY <1>1 DEF ReadSoFar
  <2>11. Settled' /\ LockBit' /\ OneWriter'
    BY <1>1, <2>2, <2>3 DEF Settled, LockBit, OneWriter
  <2>12. QED
    BY <2>6, <2>7, <2>8, <2>9, <2>10, <2>11
<1>2. CASE typeVersionLockObsolete # version[t]
  <2>1. /\ UNCHANGED <<typeVersionLockObsolete, first, second, seen>>
        /\ pc[t] = "check"
        /\ pc' = [pc EXCEPT ![t] = "idle"]
        /\ version' = [version EXCEPT ![t] = 0]
        /\ got' = [got EXCEPT ![t] = <<None, None>>]
    BY <1>2
  <2>2. TypeOK'
    BY <2>1
  <2>3. (\A s \in Threads : Remembered(s) /\ Fresh(s) /\ ReadSoFar(s))'
    BY <2>1 DEF Remembered, Fresh, ReadSoFar
  <2>4. (\A s \in Threads : Writing(s))'
    BY <2>1 DEF Writing
  <2>5. Settled' /\ LockBit' /\ OneWriter'
    BY <2>1 DEF Settled, LockBit, OneWriter
  <2>6. QED
    BY <2>2, <2>3, <2>4, <2>5
<1>3. QED
  BY <1>1, <1>2

\* The holder writes the fields one after the other, all others are kept out by
\* the lock bit: no remembered word equals a locked word.
LEMMA WritingStep ==
  ASSUME IInv, NEW t \in Threads, WriteFirst(t) \/ WriteSecond(t)
  PROVE  IInv'
<1> USE DEF TypeOK, PC, ReaderPC, WriterPC, Goto, IInv
<1>1. \A s \in Threads :
        pc[s] \in ReaderPC => version[s] # typeVersionLockObsolete
  BY DEF WriteFirst, WriteSecond, Writing, Remembered, Readable
<1>2. CASE WriteFirst(t)
  BY <1>1, <1>2 DEF WriteFirst, Remembered, Fresh, Writing, ReadSoFar, Settled,
                    LockBit, OneWriter
<1>3. CASE WriteSecond(t)
  BY <1>1, <1>3 DEF WriteSecond, Remembered, Fresh, Writing, ReadSoFar, Settled,
                    LockBit, OneWriter
<1>4. QED
  BY <1>2, <1>3

\* Both unlocks move the word past every remembered one.
LEMMA UnlockStep ==
  ASSUME IInv, NEW t \in Threads, writeUnlock(t) \/ writeUnlockObsolete(t)
  PROVE  IInv'
<1> USE DEF TypeOK, PC, ReaderPC, WriterPC, Goto, Leave, IInv
<1>1. /\ pc[t] = "unlock"
      /\ isLocked(typeVersionLockObsolete)
      /\ ~isObsolete(typeVersionLockObsolete)
      /\ typeVersionLockObsolete \in Nat
  BY DEF writeUnlock, writeUnlockObsolete, Writing
<1>2. /\ typeVersionLockObsolete' \in Nat
      /\ typeVersionLockObsolete' > typeVersionLockObsolete
      /\ ~isLocked(typeVersionLockObsolete')
  BY <1>1, UnlockedWord, ObsoleteWord DEF writeUnlock, writeUnlockObsolete
<1>3. \A s \in Threads : pc'[s] \notin WriterPC
  BY <1>1 DEF OneWriter, writeUnlock, writeUnlockObsolete
<1>4. first = second /\ UNCHANGED <<first, second, seen>>
  BY <1>1 DEF Writing, writeUnlock, writeUnlockObsolete
<1>5. /\ pc' = [pc EXCEPT ![t] = "idle"]
      /\ version' = [version EXCEPT ![t] = 0]
      /\ got' = [got EXCEPT ![t] = <<None, None>>]
  BY DEF writeUnlock, writeUnlockObsolete
<1>6. TypeOK'
  BY <1>2, <1>4, <1>5
<1>7. (\A s \in Threads : Remembered(s) /\ Fresh(s) /\ ReadSoFar(s))'
  BY <1>2, <1>4, <1>5 DEF Remembered, Fresh, ReadSoFar
<1>8. (\A s \in Threads : Writing(s))'
  BY <1>3, <1>5 DEF Writing
<1>9. Settled' /\ LockBit' /\ OneWriter'
  BY <1>2, <1>3, <1>4 DEF Settled, LockBit, OneWriter
<1>10. QED
  BY <1>6, <1>7, <1>8, <1>9

LEMMA NextIInv == IInv /\ [Next]_vars => IInv'
<1> SUFFICES ASSUME IInv, [Next]_vars PROVE IInv'
  OBVIOUS
<1>1. ASSUME NEW t \in Threads, Step(t) PROVE IInv'
  BY <1>1, ReadingStep, UpgradeStep, WritingStep, UnlockStep DEF Step
<1>2. CASE UNCHANGED vars
  BY <1>2 DEF vars, IInv, TypeOK, Remembered, Fresh, Writing, ReadSoFar,
              Settled, LockBit, OneWriter
<1>3. QED
  BY <1>1, <1>2 DEF Next

-------------------------------------------------------------------------------
\* The strengthened invariant holds in every reachable state.
THEOREM Invariant == Spec => []IInv
BY InitIInv, NextIInv, PTL DEF Spec

\* Every variable keeps its type, whatever the threads and the bound are.
THEOREM TypeCorrect == Spec => []TypeOK
<1>1. IInv => TypeOK
  BY DEF IInv
<1>2. QED
  BY <1>1, Invariant, PTL

\* At most one thread holds the write lock, and the lock bit says whether one does.
THEOREM Exclusion == Spec => []MutualExclusion
<1>1. IInv => MutualExclusion
  BY DEF IInv, MutualExclusion, Writers, LockBit, OneWriter, Writing
<1>2. QED
  BY <1>1, Invariant, PTL

(***************************************************************************)
(* The node is an indivisible cell.  Only four steps change what the cell  *)
(* shows: an accepted read, the first field of a write (with which the     *)
(* update takes effect), and the unlock that marks the node obsolete.      *)
(***************************************************************************)
LEMMA CellStep ==
  ASSUME IInv, NEW t \in Threads, Step(t)
  PROVE  [Cell!Next]_(Cell!cellVars)
<1> USE DEF Cell!Next, Cell!cellVars
<1>1. CASE readUnlockOrRestart(t)
  <2>1. CASE version[t] = typeVersionLockObsolete
    <3>1. /\ Readable(typeVersionLockObsolete)
          /\ got[t] = <<first, second>>
          /\ first = second
      BY <1>1, <2>1 DEF readUnlockOrRestart, IInv, TypeOK, Remembered, Fresh,
                        Settled, ReaderPC, Readable
    <3>2. Cell!Read(t)
      BY <1>1, <2>1, <3>1 DEF readUnlockOrRestart, Cell!Read, Readable
    <3>3. QED
      BY <3>2
  <2>2. QED
    BY <1>1, <2>1 DEF readUnlockOrRestart
<1>2. CASE upgradeToWriteLockOrRestart(t)
  <2>1. CASE version[t] = typeVersionLockObsolete
    <3>1. typeVersionLockObsolete \in Nat /\ Readable(typeVersionLockObsolete)
      BY <1>2, <2>1 DEF upgradeToWriteLockOrRestart, IInv, TypeOK, Remembered,
                        ReaderPC
    <3>2. typeVersionLockObsolete' = typeVersionLockObsolete + 2
      BY <1>2, <2>1 DEF upgradeToWriteLockOrRestart
    <3>3. ~isObsolete(typeVersionLockObsolete) /\ ~isObsolete(typeVersionLockObsolete')
      BY <3>1, <3>2, LockedWord DEF Readable
    <3>4. QED
      BY <1>2, <3>3 DEF upgradeToWriteLockOrRestart
  <2>2. QED
    BY <1>2, <2>1 DEF upgradeToWriteLockOrRestart
<1>3. CASE WriteFirst(t)
  <2>1. Cell!Update
    BY <1>3 DEF WriteFirst, Cell!Update, IInv, Writing, WriterPC
  <2>2. QED
    BY <2>1
<1>4. CASE writeUnlock(t)
  <2>1. ~isObsolete(typeVersionLockObsolete) /\ ~isObsolete(typeVersionLockObsolete')
    BY <1>4, UnlockedWord DEF writeUnlock, IInv, TypeOK, Writing, WriterPC
  <2>2. QED
    BY <1>4, <2>1 DEF writeUnlock
<1>5. CASE writeUnlockObsolete(t)
  <2>1. ~isObsolete(typeVersionLockObsolete) /\ isObsolete(typeVersionLockObsolete')
    BY <1>5, ObsoleteWord DEF writeUnlockObsolete, IInv, TypeOK, Writing, WriterPC
  <2>2. Cell!Retire
    BY <1>5, <2>1 DEF writeUnlockObsolete, Cell!Retire
  <2>3. QED
    BY <2>2
<1>6. CASE readLockOrRestart(t) \/ ReadFirst(t) \/ ReadSecond(t) \/ WriteSecond(t)
  BY <1>6 DEF readLockOrRestart, ReadFirst, ReadSecond, WriteSecond
<1>7. QED
  BY <1>1, <1>2, <1>3, <1>4, <1>5, <1>6 DEF Step

\* Optimistic reads and field-by-field writes implement an indivisible cell.
THEOREM Refinement == Spec => CellSpec
<1>1. Init => Cell!Init
  BY DEF Init, Cell!Init, InitialWord, isObsolete
<1>2. IInv /\ [Next]_vars => [Cell!Next]_(Cell!cellVars)
  <2> SUFFICES ASSUME IInv, [Next]_vars PROVE [Cell!Next]_(Cell!cellVars)
    OBVIOUS
  <2>1. CASE Next
    BY <2>1, CellStep DEF Next
  <2>2. CASE UNCHANGED vars
    BY <2>2 DEF vars, Cell!cellVars
  <2>3. QED
    BY <2>1, <2>2
<1>3. QED
  BY <1>1, <1>2, Invariant, PTL DEF Spec, CellSpec, Cell!Spec
===============================================================================
