CONSTANTS
  o1 = o1
  o2 = o2
  o3 = o3
  o4 = o4
  Objects <- MCObjects
  Side = 8
  Places <- MCPlaces
  capacity = 2
  maxLevel = 2
  Queries <- MCQueries
  Cells <- MCCells
  Nowhere = Nowhere
SYMMETRY AnyObject
SPECIFICATION Spec
INVARIANTS
  TypeOK
  TreeSound
  QueryExact
  BucketsFollowTheirCell
