----------------------------- MODULE Validator -----------------------------
(***************************************************************************)
(* The release decision of soroban-upgrades-core: every check_* function    *)
(* and the order-free union of their findings (validate_with_history).      *)
(*                                                                         *)
(* A finding is its code and severity; the text is left out, and findings   *)
(* that repeat a code count once.  Semantic versions are numbers ordered    *)
(* like the versions; Unversioned stands for missing `binver` metadata and  *)
(* Malformed for a string that is no semantic version.                      *)
(***************************************************************************)
EXTENDS Naturals, FiniteSets

CONSTANTS
  OptionTypes,     \* the field types that are Option<...>
  SparseProtocol   \* CAP_0086_PROTOCOL

ASSUME ValidatorAssumption == SparseProtocol \in Nat \ {0}

Unversioned == 0
Malformed == 1000
IsSemver(v) == v \in Nat /\ v # Unversioned /\ v # Malformed

SparseWrite == "m.b"
SparseRead == "m.c"
UpdateWasm == "l.6"

Error(code) == [code |-> code, severity |-> "error"]
Warning(code) == [code |-> code, severity |-> "warning"]
Info(code) == [code |-> code, severity |-> "info"]
When(condition, finding) == IF condition THEN {finding} ELSE {}

\* A supplied value, or none (Option<T>).
None == <<>>
Some(x) == <<x>>
Given(x) == x[1]

----------------------------------------------------------------------------
(* Policy, protocol and host interface.                                     *)

Protections ==
  {"require_upgrade_function", "require_semver_increase", "require_storage_schema",
   "require_schema_history", "deny_removed_functions", "deny_changed_functions",
   "deny_removed_events", "deny_changed_events", "deny_changed_user_types"}

\* A policy is the set `on` of its enabled switches and whether its format
\* version is the supported one; forbid_constructor is a switch too.
DefaultPolicy == [supported |-> TRUE, on |-> Protections]

CheckPolicy(policy) ==
  When(~policy.supported, Error("POL001"))
    \cup When(~(Protections \subseteq policy.on), Warning("POL002"))

\* ValidationContext: `source` is the ProtocolSource, `protocol` is 0 for None,
\* `missing` is the set of other live-evidence fields that are absent.
LiveFields == {"name", "id", "passphrase", "rpc", "time"}
IsIdentified(context) == {"name", "id", "time"} \cap context.missing = {}

IsComplete(context) == context.missing = {}

CheckProtocolContext(context) ==
  LET known == context.protocol # 0 IN
  CASE context.source = "unpinned" -> {IF known THEN Error("NET002") ELSE Warning("NET001")}
    [] context.source = "offline" -> {IF known THEN Warning("NET003") ELSE Error("NET004")}
    [] context.source = "live" ->
         {IF known /\ IsComplete(context) THEN Info("NET005") ELSE Error("NET006")}

\* (names ending in _Slip: mistaken variants, see the README)
EnvOffByOne_Slip(target, context) ==
  When(context.protocol # 0 /\ context.protocol + 1 < target.env_protocol, Error("ENV002"))
EnvExact_Slip(target, context) ==
  When(context.protocol # 0 /\ context.protocol # target.env_protocol, Error("ENV002"))
CheckEnvironmentCompatibility(target, context) ==
  When(target.pre_release, Error("ENV001"))
    \cup When(context.protocol # 0 /\ context.protocol < target.env_protocol, Error("ENV002"))

ReachedFrom(artifact, import) ==
  {export \in DOMAIN artifact.evidence :
     import \in artifact.evidence[export].host_imports}
DynamicExports(artifact) ==
  {export \in DOMAIN artifact.evidence : artifact.evidence[export].dynamic}

CheckCap0086(target, context) ==
  LET reads == SparseRead \in target.imports
      writes == SparseWrite \in target.imports
      known == context.protocol # 0
      active == known /\ context.protocol >= SparseProtocol
  IN  When((reads \/ writes) /\ known /\ ~active, Error("CAP001"))
        \cup When(active /\ reads, Info("CAP002"))
        \cup When(active /\ ~reads, Warning("CAP003"))
        \cup When(writes /\ ~reads, Warning("CAP004"))
        \cup When(reads /\ ReachedFrom(target, SparseRead) = {}, Error("CAP007"))
        \cup When(writes /\ ReachedFrom(target, SparseWrite) = {}, Error("CAP009"))
        \cup When((reads \/ writes) /\ DynamicExports(target) # {}, Warning("CAP008"))

HasFunction(artifact, name) == name \in DOMAIN artifact.functions
ReachesUpdate(artifact) == "upgrade" \in ReachedFrom(artifact, UpdateWasm)

CheckUpgradePath(source, target, policy) ==
  IF "require_upgrade_function" \notin policy.on THEN {}
  ELSE When(~HasFunction(target, "upgrade"), Error("UPG001"))
         \cup When(~HasFunction(source, "upgrade") \/ ~ReachesUpdate(source), Error("UPG003"))
         \cup When(HasFunction(target, "upgrade") /\ ~ReachesUpdate(target), Error("UPG004"))

CheckConstructor(target, policy) ==
  When(HasFunction(target, "__constructor"),
       IF "forbid_constructor" \in policy.on THEN Error("UPG002") ELSE Warning("UPG002"))

CheckVersions_Slip(source, target, policy) ==
  When(target.version < source.version, Error("VER002"))
CheckVersions(source, target, policy) ==
  IF "require_semver_increase" \notin policy.on THEN {}
  ELSE IF Unversioned \in {source.version, target.version} THEN {Error("VER001")}
  ELSE IF Malformed \in {source.version, target.version} THEN {Error("VER003")}
  ELSE When(target.version <= source.version, Error("VER002"))

----------------------------------------------------------------------------
(* Public interface.  An artifact maps names to canonical entries; the      *)
(* entry of a user type is its kind and its members (field -> type).        *)

Removed(before, after) == DOMAIN before \ DOMAIN after
Changed(before, after) ==
  {name \in DOMAIN before \cap DOMAIN after : before[name] # after[name]}

\* optional_struct_fields_added: only Option fields are new, none is touched.
OptionalFieldsAdded(old, new) ==
  /\ old.kind = "struct" /\ new.kind = "struct"
  /\ DOMAIN old.fields \subseteq DOMAIN new.fields /\ DOMAIN new.fields # DOMAIN old.fields
  /\ \A f \in DOMAIN old.fields : new.fields[f] = old.fields[f]
  /\ \A f \in DOMAIN new.fields \ DOMAIN old.fields : new.fields[f] \in OptionTypes

ChangedTypeFinding_Slip(old, new, target, context) ==
  IF OptionalFieldsAdded(old, new) /\ SparseRead \in target.imports
  THEN Warning("CAP005") ELSE Error("ABI004")
ChangedTypeFinding(old, new, target, context) ==
  IF ~OptionalFieldsAdded(old, new) THEN Error("ABI004")
  ELSE IF context.protocol >= SparseProtocol /\ SparseRead \in target.imports
       THEN Error("CAP005")
       ELSE Error("CAP006")

CompareInterfaces(source, target, policy, context) ==
  LET enabled(switch, names, code) == When(switch \in policy.on /\ names # {}, Error(code))
      types == Changed(source.user_types, target.user_types)
  IN  enabled("deny_removed_functions", Removed(source.functions, target.functions), "ABI001")
        \cup enabled("deny_changed_functions", Changed(source.functions, target.functions), "ABI002")
        \cup enabled("deny_removed_events", Removed(source.events, target.events), "EVT001")
        \cup enabled("deny_changed_events", Changed(source.events, target.events), "EVT002")
        \cup enabled("deny_changed_user_types", Removed(source.user_types, target.user_types), "ABI003")
        \cup IF "deny_changed_user_types" \notin policy.on THEN {}
             ELSE {ChangedTypeFinding(source.user_types[t], target.user_types[t], target, context) :
                     t \in types}

----------------------------------------------------------------------------
(* Field history: type -> [fields : field -> record, reserved : names].     *)

StructFields(artifact) ==
  [t \in {n \in DOMAIN artifact.user_types : artifact.user_types[n].kind = "struct"} |->
     artifact.user_types[t].fields]
FieldsOf(artifact, t) ==
  IF t \in DOMAIN StructFields(artifact) THEN DOMAIN StructFields(artifact)[t] ELSE {}

Recorded(history, t, f) ==
  t \in DOMAIN history.types /\ f \in DOMAIN history.types[t].fields
RecordOf(history, t, f) == history.types[t].fields[f]
Reserved(history, t, f) ==
  t \in DOMAIN history.types /\ f \in history.types[t].reserved
IsRetired(record) == record.retired_in # None

HistoryRecordFindings(type_history, f) ==
  LET record == type_history.fields[f] IN
  IF ~IsSemver(record.first_seen)
       \/ (IsRetired(record) /\ ~IsSemver(Given(record.retired_in)))
  THEN {Error("HIS013")}
  ELSE When(IsRetired(record) /\ Given(record.retired_in) < record.first_seen, Error("HIS014"))
         \cup When(IsRetired(record) /\ f \notin type_history.reserved, Error("HIS015"))

HistoryShapeFindings(history) ==
  When(~history.complete, Error("HIS012")) \cup
  UNION {UNION {HistoryRecordFindings(history.types[t], f) : f \in DOMAIN history.types[t].fields}
           \cup When(\E f \in history.types[t].reserved :
                       ~Recorded(history, t, f) \/ ~IsRetired(RecordOf(history, t, f)),
                     Error("HIS016")) :
         t \in DOMAIN history.types}

TypeFinding_Slip(record, type, code) == {Warning(code)}
TypeFinding(record, type, code) == When(record.type # type, Error(code))

SourceFieldFindings(source, history, t, f) ==
  IF ~Recorded(history, t, f) THEN {Error("HIS002")}
  ELSE TypeFinding(RecordOf(history, t, f), StructFields(source)[t][f], "HIS003")

TargetFieldFindings(source, target, history, t, f) ==
  When(Reserved(history, t, f), Error("HIS005")) \cup
  IF ~Recorded(history, t, f) THEN {Error("HIS006")}
  ELSE LET record == RecordOf(history, t, f) IN
       When(IsRetired(record), Error("HIS007"))
         \cup TypeFinding(record, StructFields(target)[t][f], "HIS008")
         \cup When(f \notin FieldsOf(source, t) /\ record.first_seen # target.version,
                   Error("HIS009"))

RemovedFieldFinding_Slip(target, history, t, f) ==
  IF Recorded(history, t, f) THEN Warning("HIS011") ELSE Error("HIS010")
RemovedFieldFinding(target, history, t, f) ==
  IF /\ Recorded(history, t, f)
     /\ RecordOf(history, t, f).retired_in = Some(target.version)
     /\ Reserved(history, t, f)
  THEN Warning("HIS011")
  ELSE Error("HIS010")

SourceFindings(source, history) ==
  UNION {UNION {SourceFieldFindings(source, history, t, f) : f \in FieldsOf(source, t)} :
           t \in DOMAIN StructFields(source)}
TargetFindings(source, target, history) ==
  UNION {IF t \notin DOMAIN history.types THEN {Error("HIS004")}
         ELSE UNION {TargetFieldFindings(source, target, history, t, f) : f \in FieldsOf(target, t)} :
           t \in DOMAIN StructFields(target)}
RemovedFindings(source, target, history) ==
  UNION {{RemovedFieldFinding(target, history, t, f) : f \in FieldsOf(source, t) \ FieldsOf(target, t)} :
           t \in DOMAIN StructFields(source)}

ValidateSchemaHistory(source, target, history) ==
  IF ~history.supported THEN {Error("HIS001")}
  ELSE HistoryShapeFindings(history)
         \cup SourceFindings(source, history)
         \cup TargetFindings(source, target, history)
         \cup RemovedFindings(source, target, history)

CheckHistory(source, target, policy, history) ==
  IF history = None
  THEN {IF "require_schema_history" \in policy.on THEN Error("HIS000") ELSE Warning("HIS000")}
  ELSE ValidateSchemaHistory(source, target, Given(history))

----------------------------------------------------------------------------
(* Storage declarations: key -> [layout, migration]; `layout` is the        *)
(* durability and value type, `migration` an optional [strategy_ok,         *)
(* entrypoint] whose entrypoint is optional too.                            *)

SchemaFindings(artifact, schema) ==
  When(~schema.supported, Error("STO006"))
    \cup When(~schema.complete, Error("STO010"))
    \cup When(schema.schema_version = 0, Error("STO011"))
    \cup When(~IsSemver(schema.contract_version), Error("STO012"))
    \cup When(artifact.version # Unversioned /\ artifact.version # schema.contract_version,
              Error("STO007"))
    \cup When(schema.duplicate_keys, Error("STO008"))

MigrationFindings_Slip(target, migration) ==
  When(migration.entrypoint # None /\ ~HasFunction(target, Given(migration.entrypoint)),
       Error("STO009"))
MigrationFindings(target, migration) ==
  When(~migration.strategy_ok, Error("STO013"))
    \cup IF migration.entrypoint = None THEN {Error("STO014")}
         ELSE When(~HasFunction(target, Given(migration.entrypoint)), Error("STO009"))

DeclaredMigrations(schema) ==
  {schema.entries[k].migration : k \in DOMAIN schema.entries} \ {None}

ValidateSchemaManifests(source, target, from, to) ==
  SchemaFindings(source, from) \cup SchemaFindings(target, to)
    \cup UNION {MigrationFindings(target, Given(m)) : m \in DeclaredMigrations(to)}

Relaid(from, to) ==
  {k \in DOMAIN from.entries \cap DOMAIN to.entries :
     from.entries[k].layout # to.entries[k].layout}

NotIncremented(from, to) == to.schema_version <= from.schema_version

CompareStorageSchemas(from, to) ==
  LET removed == Removed(from.entries, to.entries) IN
  When(removed # {}, Error("STO001"))
    \cup {IF to.entries[k].migration # None THEN Warning("STO002") ELSE Error("STO003") :
            k \in Relaid(from, to)}
    \cup When((removed # {} \/ Relaid(from, to) # {}) /\ NotIncremented(from, to),
              Error("STO005"))

CheckStorage(source, target, policy, from, to) ==
  IF from = None /\ to = None
  THEN {IF "require_storage_schema" \in policy.on THEN Error("STO000") ELSE Warning("STO000")}
  ELSE IF from = None \/ to = None THEN {Error("STO004")}
  ELSE ValidateSchemaManifests(source, target, Given(from), Given(to))
         \cup CompareStorageSchemas(Given(from), Given(to))

----------------------------------------------------------------------------
(* validate_with_history.  `limited` is the outcome of the public-impact    *)
(* search (module PublicImpact).                                            *)

Findings(source, target, from, to, policy, context, history, limited) ==
  CheckPolicy(policy)
    \cup CheckProtocolContext(context)
    \cup CheckEnvironmentCompatibility(target, context)
    \cup CheckCap0086(target, context)
    \cup CheckUpgradePath(source, target, policy)
    \cup CheckConstructor(target, policy)
    \cup CheckVersions(source, target, policy)
    \cup CompareInterfaces(source, target, policy, context)
    \cup CheckHistory(source, target, policy, history)
    \cup CheckStorage(source, target, policy, from, to)
    \cup When(limited, Error("RES001"))

(* build_evidence_coverage: how far the report's claims go.  Its other       *)
(* labels are the same in every report.                                     *)
ProtocolLabel_Slip(context) == IF context.protocol # 0 THEN "FACT" ELSE "UNKNOWN"
ProtocolLabel(context) ==
  CASE context.source = "live" /\ context.protocol # 0 /\ IsIdentified(context) -> "FACT"
    [] context.source = "offline" -> "INFERENCE"
    [] OTHER -> "UNKNOWN"

EvidenceCoverage(context, from, to, history) ==
  LET checked(condition) == IF condition THEN "FACT" ELSE "UNKNOWN" IN
  [target_network_protocol |-> ProtocolLabel(context),
   declared_storage_schema |-> checked(from # None /\ to # None),
   declared_schema_history |-> checked(history # None)]

Safe(findings) == \A f \in findings : f.severity # "error"
=============================================================================
