CONSTANTS
  ImportCount = 1
  BodyCount = 2
  MaxIndex = 3
  MaxCalls = 2
  CallLists <- MCCallLists
  Exports = {count, upgrade}
SPECIFICATION FairSpec
INVARIANTS TypeOK EvidenceExact DanglingRejected WorklistBounded
PROPERTY Terminates
