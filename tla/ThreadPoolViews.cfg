CONSTANTS
  c1 = c1
  c2 = c2
  w1 = w1
  w2 = w2
  n1 = n1
  r1 = r1
  r2 = r2
  Routers = {r1}
  Cells = {c1}
  NumaNodes = {n1}
  FirstNode = n1
  NUMAToWorkerCPUs <- OneWorker
  idCPU <- MCOneCPU
  Interval = 2
  UnsetType = {"sample", "token"}
  MaxQueries = 3
  MaxSweeps = 2
  MaxChannel = 1
  main = main
SPECIFICATION Spec
INVARIANTS
  WindowNeverAhead
  ViewsAgree
  DumpedRowsAgree
