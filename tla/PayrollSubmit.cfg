SPECIFICATION Spec
CONSTANTS
  r1 = r1
  r2 = r2
  w1 = w1
  w2 = w2
  NoWorker = NoWorker
  Worker <- TwoWorkers
  Request <- Two
  Command <- Submissions
  Items = 1
  BadItems <- Nobody
  BatchSize = 1
  MaxFaults = 0
SYMMETRY Symmetry
INVARIANTS
  OneJobPerKey
  OneWorkerPerEmployer
CONSTRAINT WindowsLast
