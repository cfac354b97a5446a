SPECIFICATION AuditedSpec
CONSTANTS
  r1 = r1
  r2 = r2
  operator = operator
  u1 = u1
  u2 = u2
  NoRequest = NoRequest
  Operators = Operators
  Request <- Requests
  Caller <- Callers
  Stream <- Users
  Event <- Events
  Key <- OneKey
  MaxTampers = 1
  User <- Users
  Legacy <- OneUser
  Command <- Commands
  OldKey = "v1"
  NewKey = "v2"
  MaxTime = 1
  MaxFaults = 1
SYMMETRY CallerSymmetry
INVARIANTS
  ChainIntact
  RecordedOnce
  ValidMeansGenuine
  UpdatesAudited
  IdentitiesReadable
  RotationComplete
  UpdatesKept
CONSTRAINT Focus
