\* Three threads on one node; no symmetry, a liveness property is checked.
CONSTANTS
  t1 = t1
  t2 = t2
  t3 = t3
  Threads <- MCThreads
  None = None
  MaxWord = 10
SPECIFICATION FairSpec
INVARIANTS
  TypeOK
  MutualExclusion
PROPERTIES
  CellSpec
  LockReleased
