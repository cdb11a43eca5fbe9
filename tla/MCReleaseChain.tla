--------------------------- MODULE MCReleaseChain ---------------------------
(***************************************************************************)
(* Small builds, declarations and policies for module ReleaseChain.         *)
(***************************************************************************)
EXTENDS ReleaseChain, TLC

CONSTANTS
  entry, packed,  \* storage layouts
  u32, optional   \* field types

Nothing == [n \in {} |-> {}]
Reach(imports) == [host_imports |-> imports, dynamic |-> FALSE]
UpgradeOnly == [upgrade |-> Reach({UpdateWasm})]

\* A build whose `upgrade` reaches the host's WASM replacement.
Release(version, functions, types, imports, evidence, env) ==
  [version |-> version, functions |-> functions @@ [upgrade |-> "signature"], events |-> Nothing,
   user_types |-> types,
   imports |-> imports \cup {UpdateWasm}, evidence |-> evidence,
   env_protocol |-> env, pre_release |-> FALSE]

\* Builds that differ in one struct only: any subset of its fields, any types,
\* the struct gone, or (in version 2) an enum of the same name.
Struct(fields) == [Config |-> [kind |-> "struct", fields |-> fields]]
FieldTypeTables ==
  {Struct(g) : g \in UNION {[S -> FieldTypes] : S \in SUBSET HistoryFields}}
    \cup {Nothing}
EnumTable == [Config |-> [kind |-> "enum", fields |-> Nothing]]
FieldPolicy == [supported |-> TRUE, on |-> Protections \ {"deny_changed_user_types"}]

Schema(version, number, entries) ==
  [supported |-> TRUE, complete |-> TRUE, duplicate_keys |-> FALSE,
   schema_version |-> number, contract_version |-> version, entries |-> entries]
FieldBuilds ==
  {[artifact |-> Release(v, Nothing, types, {}, UpgradeOnly, 1), schema |-> Schema(v, 1, Nothing)] :
     v \in Versions, types \in FieldTypeTables}
    \cup {[artifact |-> Release(2, Nothing, EnumTable, {}, UpgradeOnly, 1), schema |-> Schema(2, 1, Nothing)]}

\* Builds that differ in their functions, host imports and protocol; `migrate`
\* is the migration entrypoint; others publish an event, change an enum, or
\* add an optional struct field, with and without the sparse reader that
\* would make it decodable.
Get(canonical) == [get |-> canonical]
Sparse(imports) == [upgrade |-> Reach({UpdateWasm}), get |-> Reach(imports)]
Mode(cases) == [Mode |-> [kind |-> "enum", fields |-> [c \in cases |-> "void"]]]
Owner == [owner |-> u32]
SurfaceArtifacts ==
  {Release(v, f, Nothing, {}, UpgradeOnly, 1) :
     f \in {Get("old"), Get("new"), Get("old") @@ [migrate |-> "signature"]}, v \in Versions}
    \cup {Release(v, Get("old"), Nothing, {}, UpgradeOnly, 2) : v \in Versions}
    \cup {Release(v, Get("old"), Nothing, i, Sparse(r), 1) :
            v \in Versions, i \in {{SparseRead}, {SparseRead, SparseWrite}},
            r \in {{}, {SparseRead, SparseWrite}}}
    \cup {Release(v, Get("old"), Nothing, {}, [upgrade |-> Reach({})], 1) : v \in Versions}
    \cup {[Release(v, Get("old"), Mode(m), {}, UpgradeOnly, 1) EXCEPT !.events = e] :
            v \in Versions, m \in {{"on"}, {"on", "off"}},
            e \in {Nothing, [paid |-> "topics"]}}
    \cup {Release(v, Get("old"), Struct(g), i, [upgrade |-> Reach({UpdateWasm} \cup i)],
                   IF i = {} THEN 1 ELSE 2) :
            v \in Versions, g \in {Owner, Owner @@ [memo |-> optional]}, i \in {{}, {SparseRead}}}

Key(layout, migration) == [layout |-> layout, migration |-> migration]
Eager == Some([strategy_ok |-> TRUE, entrypoint |-> Some("migrate")])
Nameless == Some([strategy_ok |-> TRUE, entrypoint |-> None])
First == [Count |-> Key(entry, None)]
Declarations ==
  {<<1, First>>, <<1, [Count |-> Key(packed, Eager)]>>, <<2, [Count |-> Key(packed, None)]>>,
   <<2, [Count |-> Key(packed, Eager)]>>, <<2, [Count |-> Key(packed, Nameless)]>>,
   <<3, [Count |-> Key(entry, Eager)]>>,
   <<1, First @@ [Paused |-> Key(entry, None)]>>}

\* The history was filled in before the first check: `memo` is new in 2.
Record(type, version) == [type |-> type, first_seen |-> version, retired_in |-> None]
SurfaceTypes ==
  [Config |-> [fields |-> [owner |-> Record(u32, 1), memo |-> Record(optional, 2)],
               reserved |-> {}]]

\* The declarations vary with the interface that has the migration entrypoint;
\* every other interface keeps the first declaration, or forgets the entrypoint.
SurfaceBuilds ==
  LET build(artifact, number, entries) ==
        [artifact |-> artifact, schema |-> Schema(artifact.version, number, entries)]
      plain(v, functions) == Release(v, functions, Nothing, {}, UpgradeOnly, 1)
  IN  {build(a, 1, First) : a \in SurfaceArtifacts}
        \cup {build(plain(v, Get("old") @@ [migrate |-> "signature"]), d[1], d[2]) :
                v \in Versions, d \in Declarations}
        \cup {build(plain(v, Get("old")), 2, [Count |-> Key(packed, Eager)]) : v \in Versions}

Symmetry == Permutations(HistoryFields) \cup Permutations(FieldTypes)
=============================================================================
