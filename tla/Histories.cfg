SPECIFICATION Spec
CONSTANTS
  Transfers = 3
  International <- Second
  RowIds <- FourIds
  BatchSize = 2
  Limit = 1
  MaxTime = 1
  MaxDamage = 1
INVARIANTS
  RebuildRepairs
  PagesAreComplete
CONSTRAINT OneAtATime
