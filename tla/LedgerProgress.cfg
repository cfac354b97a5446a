SPECIFICATION FairSpec
CONSTANTS
  r1 = r1
  r2 = r2
  r3 = r3
  NoRequest = NoRequest
  Request <- Requests
  Account <- DomesticAccounts
  Customer <- DomesticCustomers
  CurrencyOf <- Currencies
  Command <- DomesticCommands
  MaxAttempts = 2
PROPERTIES
  RequestsAnswered
