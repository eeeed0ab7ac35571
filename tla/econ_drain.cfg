SPECIFICATION FairSpec
CONSTANTS
  NVals = 2
  Orders <- ShippedOrders
  FeeSplitChoices <- NoSplit
  StreamChoices <- NoStream
  FormulaChoices <- DrainFormula
  TailChoices <- NoStream
  GenesisBal <- DrainBal
  GenesisStake <- DrainStake
  Amounts = {3}
  BankFaults = FALSE
  BurnDeposits = FALSE
PROPERTIES
  ReserveRunsDry
