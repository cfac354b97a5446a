SPECIFICATION FairSpec
CONSTANTS
  r1 = r1
  r2 = r2
  w1 = w1
  w2 = w2
  NoWorker = NoWorker
  Worker <- TwoWorkers
  Request <- One
  Command <- OneCommand
  Items = 2
  BatchSize = 2
  BadItems <- SecondItem
  MaxFaults = 1
PROPERTIES
  JobsFinish
