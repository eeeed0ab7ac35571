SPECIFICATION GovernorSpec
CONSTANTS
  Accounts = {"a", "b"}
  Zero = "0"
  InitBalance <- Holders
  InitExcluded = {}
  VoteAmounts = {2}
  MaxSupply = 7
  MaxMoves = 1
  Proposals = {"exclude", "quorum", "money"}
  Calls <- MixedCalls
  votingDelay = 1
  votingPeriod = 1
  minDelay = 1
  InitQuorum = 40
  supermajority = 51
  criticalQuorum = 51
  criticalSupermajority = 66
  MaxProposals = 2
  MaxBlock = 6
INVARIANTS
  ExcludedPowerless
  NoVoteTwice
  CriticalNeedsCriticalBar
PROPERTIES
  CriticalOutcomeFinal
CHECK_DEADLOCK FALSE
