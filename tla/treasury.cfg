SPECIFICATION TreasurySpec
CONSTANTS
  People = {g1, g2, g3}
  Targets = {public}
  InitGuardians = {g1, g2, g3}
  InitThreshold = 2
  Public = public
  Limits <- MCLimits
  GrantCaps = {0, 1}
  Amounts = {1}
  MaxBal = 2
  MaxTime = 4
SYMMETRY GuardianSymmetry
INVARIANTS
  LiveVotes
  WindowHolds
PROPERTIES
  PausedByQuorum
