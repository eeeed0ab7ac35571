SPECIFICATION ValgateSpec
CONSTANTS
  Operators = {"v1", "v2"}
  Nil = Nil
  Unset = Unset
  CosmosTxs <- MixedTxs
  GenTxs <- MixedGenTxs
  Calls <- MixedCalls
  GenesisParams <- MixedGenesis
  StoredParams <- MixedStored
  ParamMsgs <- MixedMsgs
  Defaults <- DefaultsIs
  maxAuthzDepth = 2
  MaxGrowth = 3
  MaxFrames = 2
  MaxDay = 2
INVARIANTS
  GrowthWithinCap
  ChargedOnce
  EntryWithinLimits
CHECK_DEADLOCK FALSE
