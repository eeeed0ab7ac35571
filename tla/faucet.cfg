SPECIFICATION FairSpec
CONSTANTS
  Addresses = {"a", "A"}
  Accounts = {"x"}
  AccountOf <- MCAccountOf
  Ips = {"i", "j"}
  Asks <- MCAsks
  NRequests = 3
  Cooldown = 2
  Free = Free
  DAILY_GLOBAL_MAX = 1
  Day = 3
  MIN_BALANCE = 1
  Drip = 1
  Funds = {2}
  ChainCooldown = 2
  ChainFloor = 0
  MaxTime = 4
  MaxFaults = 1
INVARIANTS
  OncePerCooldown
  BudgetHolds
PROPERTIES
  MainnetCooldown
  Answered
CHECK_DEADLOCK FALSE
