SPECIFICATION PageFairSpec
CONSTANTS
  Amounts = {4}
  Picks <- MCPicks
  SlipBps = 3400
  Pools <- MCPools
  GenesisChain <- MCChain
  MaxEvents = 2
  MaxClock = 1
  MaxQueue = 2
INVARIANTS
  OncePerEntry
  LocksKept
PROPERTIES
  GetsThrough
  NoWorseThanShown
CHECK_DEADLOCK FALSE
