SPECIFICATION Spec
CONSTANTS
  r1 = r1
  r2 = r2
  w1 = w1
  w2 = w2
  NoWorker = NoWorker
  Worker <- TwoWorkers
  Request <- One
  Command <- OneCommand
  Items = 2
  BatchSize = 2
  BadItems <- Nobody
  MaxFaults = 2
SYMMETRY WorkerSymmetry
INVARIANTS
  CountersMatchItems
  FinishedMeansDone
  ItemsMatchTransfers
PROPERTIES
  ProgressIsKept
CONSTRAINT FirstItemExpires
