CONSTANTS
  entry = entry
  packed = packed
  optional = optional
  u32 = u32
  OptionTypes = {optional}
  SparseProtocol = 2
  Policy <- DefaultPolicy
  Builds <- SurfaceBuilds
  Versions = {1, 2, 3}
  HistoryTypes = {}
  HistoryFields = {}
  FieldTypes = {}
  FirstTypes <- SurfaceTypes
  FirstProtocol = 1
  LastProtocol = 2
  MaxReleases = 3
  Gaps = {{}, {"rpc"}}
  Assertions = {0, 2}
SPECIFICATION Spec
INVARIANTS InterfaceKept DeployedReleaseRuns ApprovalOutlivesProtocolUpgrade FactsAreBacked KeysKeptOrMigrated
CHECK_DEADLOCK FALSE
