SPECIFICATION Spec
CONSTANTS
  w1 = w1
  w2 = w2
  NoWorker = NoWorker
  Worker = {w1, w2}
  Present = {w1}
  Batches = 2
  Iterations = 2
  GlobalsAt <- MCGlobalsAt
  MaxBatches = 2
  MaxUpdates = 4
  MaxFaults = 1
  MaxDrops = 1
CHECK_DEADLOCK FALSE
INVARIANTS
  DesignsMatch
  GlobalsMatch
  ViaDataArrives
  HandlersReady
