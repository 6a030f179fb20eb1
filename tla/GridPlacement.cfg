CONSTANTS
  Instances <- AllInstances
  xPar = 5
  NumaNodes = {n1, n2}
  Allocated = Allocated
  Fanout = 2
  Significand = 8
  Unit = 64
  MaxExponent = 16
SPECIFICATION FairSpec
INVARIANTS
  TypeOK
  LeavesFollowTheirCell
  InnerFollowsLastLeaf
  CountedOnce
  CellsDivideKeySpace
PROPERTIES
  Finishes
