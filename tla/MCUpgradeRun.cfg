CONSTANTS
  entry = entry
  packed = packed
  OptionTypes = {}
  SparseProtocol = 2
  Builds <- MCBuilds
  Calls <- MCCalls
  Policy <- LaxPolicy
  Network = testnet
  Protocol = 1
  Signers = {s1, s2}
  MaxReviews = 3
SYMMETRY Symmetry
SPECIFICATION Spec
INVARIANTS TypeOK SettledContractFits MigratesOnce
PROPERTIES UpgradeStaysPossible ImplementsReviewedUpgrades
CHECK_DEADLOCK FALSE
