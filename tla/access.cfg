SPECIFICATION FairSpec
CONSTANTS
  Employees = {"e", "f"}
  WalletOf <- MCWalletOf
  Zones = {1, 2}
  NRequests = 3
  Workers = {w, x}
  Limit = 1
  MaxFaults = 2
INVARIANTS
  Forgotten
  TokensAccounted
  RowsHaveTokens
PROPERTIES
  Drained
CHECK_DEADLOCK FALSE
