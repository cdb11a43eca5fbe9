---------------------------- MODULE MCUpgradeRun ----------------------------
(***************************************************************************)
(* Releases of a contract that repacks `Count` once, with one or two        *)
(* migration entrypoints, plus builds that no plan may install.             *)
(***************************************************************************)
EXTENDS UpgradeRun, TLC

CONSTANTS entry, packed  \* storage layouts

Empty == [n \in {} |-> {}]
Upgrade == [upgrade |-> StandardUpgrade]
Migrate(arguments) == [migrate |-> [a \in arguments |-> "address"]]
Convert == [convert |-> [operator |-> "address"]]

Artifact(version, functions, reached) ==
  [version |-> version, functions |-> functions, events |-> Empty, user_types |-> Empty,
   imports |-> reached, env_protocol |-> 1, pre_release |-> FALSE,
   evidence |-> [upgrade |-> [host_imports |-> reached, dynamic |-> FALSE]]]

Key(layout, migration) == [layout |-> layout, migration |-> migration]
By(entrypoint) == Some([strategy_ok |-> TRUE, entrypoint |-> Some(entrypoint)])
Plain == [Count |-> Key(entry, None)]
Packed == [Count |-> Key(packed, By("migrate"))]
Build(version, functions, reached, number, entries) ==
  [artifact |-> Artifact(version, functions, reached),
   schema |-> [supported |-> TRUE, complete |-> TRUE, duplicate_keys |-> FALSE,
               schema_version |-> number, contract_version |-> version, entries |-> entries]]

Update == {UpdateWasm}
MCBuilds ==
  {Build(1, Upgrade, Update, 1, Plain),
   Build(2, Upgrade @@ Migrate({"operator"}), Update, 2, Packed),
   Build(2, Upgrade @@ Migrate({"operator", "limit"}), Update, 2, Packed),
   Build(2, Upgrade @@ Migrate({"operator"}) @@ Convert, Update, 2,
         Packed @@ [Paused |-> Key(entry, By("convert"))]),
   Build(2, [upgrade |-> [hash |-> "bytes_n_32"]], Update, 1, Plain),
   Build(2, Upgrade, {}, 1, Plain),
   Build(3, Upgrade @@ Convert, Update, 3, [Count |-> Key(packed, By("convert"))]),
   Build(3, Upgrade @@ Migrate({"operator"}), Update, 2,
         [Count |-> Key(packed, None), Paused |-> Key(entry, None)]),
   Build(3, Upgrade, Update, 1, Plain)}

Call(entrypoint) == Some([entrypoint |-> entrypoint, arguments |-> {"operator"}])
MCCalls == {None, Call("migrate"), Call("convert")}

\* A policy that no longer asks for an upgrade path or a stable interface.
LaxPolicy ==
  [supported |-> TRUE, on |-> {"require_semver_increase", "require_storage_schema", "require_schema_history"}]

Symmetry == Permutations(Signers)
=============================================================================
