-------------------------------- MODULE Plan --------------------------------
(***************************************************************************)
(* The review plan of soroban-upgrades-core: which validation reports a     *)
(* plan may be made of (create_plan_with_paths) and the steps it lists.     *)
(*                                                                         *)
(* The canonical entry of a function is its inputs here (name -> type).     *)
(* An artifact stands for its SHA-256.  Checks on the spelling of paths,    *)
(* identities and arguments, and the scan for private keys, are left out.   *)
(***************************************************************************)
EXTENDS Validator, Sequences

\* What a plan needs of validate_with_history's report.
Report(source, target, from, to, policy, context, network_name, history) ==
  LET findings == Findings(source, target, from, to, policy, context, history, FALSE)
  IN  [safe |-> Safe(findings), findings |-> findings, context |-> context,
       network_name |-> network_name, source |-> source, target |-> target, target_schema |-> to,
       storage_schema_checked |-> from # None /\ to # None,
       schema_history_checked |-> history # None]

StandardUpgrade == [new_wasm_hash |-> "bytes_n_32", operator |-> "address"]

\* (names ending in _Slip: mistaken variants, see the README)
HasStandardUpgrade_Slip(artifact) == HasFunction(artifact, "upgrade")
\* validate_standard_upgrade_entrypoint
HasStandardUpgrade(artifact) ==
  /\ HasFunction(artifact, "upgrade")
  /\ artifact.functions["upgrade"] = StandardUpgrade
  /\ ReachesUpdate(artifact)

\* validate_call_arguments
AcceptsCall(artifact, call) ==
  /\ HasFunction(artifact, call.entrypoint)
  /\ DOMAIN artifact.functions[call.entrypoint] = call.arguments

\* Entrypoints that the target declaration names, of keys old and new.
DeclaredEntrypoints(schema) ==
  {Given(Given(m).entrypoint) :
     m \in {d \in DeclaredMigrations(schema) : Given(d).entrypoint # None}}

MigrationRequired(report) == Warning("STO002") \in report.findings

MigrationFits_Slip(report, migration) ==
  MigrationRequired(report) => migration # None
MigrationFits(report, migration) ==
  MigrationRequired(report) =>
    /\ migration # None
    /\ DeclaredEntrypoints(Given(report.target_schema)) = {Given(migration).entrypoint}

\* create_plan_with_paths makes a plan of the report; migration is an optional
\* [entrypoint, arguments].
CanPlan(report, network, migration) ==
  /\ report.safe
  /\ report.context.protocol # 0 /\ report.context.source # "unpinned"
  /\ report.network_name = Some(network)
  /\ report.storage_schema_checked
  /\ report.schema_history_checked
  /\ MigrationFits(report, migration)
  /\ HasStandardUpgrade(report.source) /\ HasStandardUpgrade(report.target)
  /\ migration # None => AcceptsCall(report.target, Given(migration))

Unguarded_Slip(migration) ==
  IF migration = None
  THEN <<"upload_target_wasm", "simulate_upgrade", "execute_upgrade",
         "verify_executable", "verify_invariants">>
  ELSE <<"upload_target_wasm", "simulate_upgrade", "execute_upgrade",
         "execute_migration", "verify_executable", "verify_invariants">>
Steps(migration) ==
  IF migration = None
  THEN <<"verify_current_executable", "upload_target_wasm", "simulate_upgrade",
         "execute_upgrade", "verify_executable", "verify_invariants">>
  ELSE <<"verify_current_executable", "upload_target_wasm", "simulate_upgrade",
         "execute_upgrade", "execute_migration", "verify_executable", "verify_invariants">>

\* PlanStatus
Status(report) == IF report.context.source = "live" THEN "review_ready" ELSE "offline_draft"
=============================================================================
