SPECIFICATION Spec
CONSTANTS
  r1 = r1
  r2 = r2
  r3 = r3
  t1 = t1
  t2 = t2
  NoTransfer = NoTransfer
  Request <- Requests
  Transfer <- Transfers
  Client <- Clients
  Term <- AllTerms
  Rate <- Rates
  TTL = 1
  MaxTime = 2
SYMMETRY Symmetry
INVARIANTS
  ConsumedInTime
  OneConsumer
  PriceHonoured
PROPERTIES
  SettledIsFinal
