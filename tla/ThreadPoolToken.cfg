CONSTANTS
  c1 = c1
  c2 = c2
  w1 = w1
  w2 = w2
  n1 = n1
  r1 = r1
  r2 = r2
  Routers = {r1}
  Cells = {c1, c2}
  NumaNodes = {n1}
  FirstNode = n1
  NUMAToWorkerCPUs <- OneNode
  idCPU <- MCidCPU
  Interval = 1
  UnsetType = {"sample", "token"}
  MaxQueries = 2
  MaxSweeps = 1
  MaxChannel = 0
  main = main
SPECIFICATION Spec
INVARIANTS
  NoStaleToken
