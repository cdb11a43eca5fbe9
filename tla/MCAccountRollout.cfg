CONSTANTS
  OptionTypes = {"Option<u32>"}
  SparseProtocol = 28
  Builds <- MCBuilds
  Policies <- MCPolicies
  Amounts <- MCAmounts
  MinBalance <- MCMinBalance
  MaxBalance = 3
  MaxU64 = 2
SPECIFICATION Spec
INVARIANTS StaysReadable NothingLost CallersServed
CHECK_DEADLOCK FALSE
