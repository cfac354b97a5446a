SPECIFICATION Spec
CONSTANTS
  r1 = r1
  r2 = r2
  w1 = w1
  NoTransfer = NoTransfer
  Request <- Two
  Reconciler <- OneReconciler
  Command <- Commands
  MaxFaults = 1
SYMMETRY Symmetry
INVARIANTS
  CompletedMeansPosted
  TablesAgree
  ClaimsAreUnique
  RepliesHold
  QuoteBoundFirst
  OneRetryPerVersion
PROPERTIES
  FollowsLifecycle
