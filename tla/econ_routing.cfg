SPECIFICATION Spec
CONSTANTS
  NVals = 2
  Orders <- MoneyOrders
  FeeSplitChoices <- RoutingSplit
  StreamChoices <- RoutingStream
  FormulaChoices <- RoutingFormula
  TailChoices <- RoutingTail
  GenesisBal <- RoutingBal
  GenesisStake <- RoutingStake
  Amounts = {2}
  BankFaults = TRUE
  BurnDeposits = TRUE
INVARIANTS
  RewardNeverSkimmed
  RoundCovered
  TypeOK
  SupplyConserved
  RoundWithinLimits
  DistributionBacked
PROPERTIES
  FlowSpec
