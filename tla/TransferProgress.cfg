SPECIFICATION FairSpec
CONSTANTS
  r1 = r1
  r2 = r2
  w1 = w1
  NoTransfer = NoTransfer
  Request <- One
  Reconciler <- OneReconciler
  Command <- MixedCommands
  MaxFaults = 3
PROPERTIES
  RecoverableSettles
