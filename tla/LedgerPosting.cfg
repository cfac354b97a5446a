SPECIFICATION Spec
CONSTANTS
  r1 = r1
  r2 = r2
  r3 = r3
  NoRequest = NoRequest
  Request <- Requests
  Account <- Accounts
  Customer <- Customers
  CurrencyOf <- Currencies
  Command <- Commands
  MaxAttempts = 2
SYMMETRY Symmetry
INVARIANTS
  JournalMatchesBalances
  MoneyConserved
  NoOverdraft
  ExactlyOnce
  ReversalsAreExact
  LockedRowsAreCurrent
  NoMutualWait
PROPERTIES
  PostingMovesBalances
