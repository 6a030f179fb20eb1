CONSTANTS
  Instances <- AlignedInstances
  xPar = 3
  NumaNodes = {n1, n2}
  Allocated = Allocated
  Fanout = 2
  Significand = 8
  Unit = 16
  MaxExponent = 12
SPECIFICATION Spec
INVARIANTS
  IndexMigrated
