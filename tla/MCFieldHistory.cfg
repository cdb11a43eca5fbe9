CONSTANTS
  entry = entry
  packed = packed
  optional = optional
  u32 = u32
  OptionTypes = {optional}
  SparseProtocol = 2
  Policy <- FieldPolicy
  Builds <- FieldBuilds
  Versions = {1, 2, 3}
  HistoryTypes = {"Config"}
  HistoryFields = {owner, limit}
  FieldTypes = {u32, address}
  FirstTypes <- Nothing
  FirstProtocol = 1
  LastProtocol = 1
  MaxReleases = 3
  Gaps = {{}}
  Assertions = {}
SYMMETRY Symmetry
SPECIFICATION Spec
INVARIANTS NoTypeConfusion RemovedFieldsStayGone VersionsIncrease
CHECK_DEADLOCK FALSE
