SPECIFICATION FairSpec
CONSTANTS
  Validators = {"v"}
  Urls = {"u"}
  Risks <- MCRisks
  ResetRisks = {"val-count-low"}
  LargeSales = {}
  ChainCycles = {"c", "d"}
  UptimeCycles = {"m"}
  COOLDOWN_MS = 1
  Window = 1
  MaxBlock = 2
  MaxTime = 2
  MaxMoves = 1
  MaxFaults = 1
INVARIANTS
  CursorSkipsNothing
  ToldOnce
PROPERTIES
  JailTold
CHECK_DEADLOCK FALSE
