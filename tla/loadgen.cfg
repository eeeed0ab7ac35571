SPECIFICATION FairSpec
CONSTANTS
  Wallets = {"w"}
  Profiles <- MCProfiles
  CAP = 3
  Concurrency = 2
  MaxNonce = 2
  MaxHeight = 2
  MaxFaults = 2
INVARIANTS
  ConsumersSucceed
  NonceOnce
PROPERTIES
  EverythingResolved
CHECK_DEADLOCK FALSE
