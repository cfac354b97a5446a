SPECIFICATION Spec
CONSTANTS
  r1 = r1
  r2 = r2
  r3 = r3
  u1 = u1
  Request <- Three
  User <- OneUser
  Currency <- Currencies
  Command <- Commands
  MaxTime = 2
  MaxFaults = 2
SYMMETRY Symmetry3
INVARIANTS
  WalletsHaveKeys
  ActiveMeansProvisioned
  CreatedMeansActive
