SPECIFICATION Spec
CONSTANTS
  r1 = r1
  r2 = r2
  w1 = w1
  NoTransfer = NoTransfer
  Request <- One
  Reconciler <- OneReconciler
  Command <- OneCommand
  MaxFaults = 2
PROPERTIES
  LostAnswerStaysProcessing
