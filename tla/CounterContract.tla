-------------------------- MODULE CounterContract --------------------------
(***************************************************************************)
(* The counter examples (src/examples/counter-v1, counter-v2 and            *)
(* counter-unsafe) on a ledger: one contract instance whose executable the  *)
(* administrator replaces by any of the three builds, forwards or back,     *)
(* while callers go on using it.                                            *)
(*                                                                         *)
(* The second build keeps `paused` beside `count`, so its storage has       *)
(* another layout.  It converts the old layout on the first call that needs *)
(* the configuration (lazily) or when `migrate` is called (eagerly).        *)
(* A call that traps, for whatever reason, leaves the ledger as it was.     *)
(***************************************************************************)
EXTENDS Naturals

CONSTANTS
  Addresses, \* who calls the contract
  Admin,     \* the address given to the constructor
  MaxCount   \* u32::MAX

ASSUME CounterAssumption == Admin \in Addresses /\ MaxCount \in Nat

VARIABLES
  code,      \* build of the executable: "v1", "v2" or "unsafe"
  storage,   \* instance storage: a function from the keys present
  answer,    \* the last call and what it answered (history variable)
  rolled_back \* v2 was replaced by v1 at some time (history variable)

vars == <<code, storage, answer, rolled_back>>

Codes == {"v1", "v2", "unsafe"}
Abstract == INSTANCE Counter WITH
  count <- IF "Config" \in DOMAIN storage THEN storage["Config"].count ELSE 0,
  paused <- IF "Config" \in DOMAIN storage /\ "paused" \in DOMAIN storage["Config"]
            THEN storage["Config"].paused ELSE FALSE,
  answer <- answer

Answer(call, by, number, flag) ==
  [call |-> call, by |-> by, number |-> number, flag |-> flag]

----------------------------------------------------------------------------
(* Storage.  A struct is stored as a map from its fields, and decoding it   *)
(* traps unless the map has exactly the fields of the type.                 *)

ConfigV1(count) == [count |-> count]
ConfigV2(count, paused) == [count |-> count, paused |-> paused]

Set(s, key, value) == [k \in DOMAIN s \cup {key} |-> IF k = key THEN value ELSE s[k]]

Decodes_Slip(s, fields) == "Config" \in DOMAIN s /\ fields \subseteq DOMAIN s["Config"]
Decodes(s, fields) == "Config" \in DOMAIN s /\ DOMAIN s["Config"] = fields
DecodesV1(s) == Decodes(s, {"count"})
DecodesV2(s) == Decodes(s, {"count", "paused"})

Fresh(schema, config) == [Admin |-> Admin, Config |-> config, SchemaVersion |-> schema]
\* __constructor of each build; it runs at deployment, never on replacement.
ConstructV1 == Fresh(1, ConfigV1(0))
ConstructV2 == Fresh(2, ConfigV2(0, FALSE))
ConstructUnsafe == [Admin |-> Admin, Count |-> 0]

\* require_auth and the comparison with the stored administrator.
Authorized(s, caller, operator) == caller = operator /\ operator = s["Admin"]

----------------------------------------------------------------------------
(* load_v2: what it needs to succeed and the storage it leaves behind.      *)

SchemaVersion(s) == IF "SchemaVersion" \in DOMAIN s THEN s["SchemaVersion"] ELSE 0
IsOld(s) == SchemaVersion(s) < 2
Loads(s) == IF IsOld(s) THEN DecodesV1(s) ELSE DecodesV2(s)

LoadedReset_Slip(s) ==
  Set(Set(s, "Config", ConfigV2(s["Config"].count, FALSE)), "SchemaVersion", 2)
Loaded(s) ==
  IF IsOld(s)
  THEN Set(Set(s, "Config", ConfigV2(s["Config"].count, FALSE)), "SchemaVersion", 2)
  ELSE s

----------------------------------------------------------------------------
(* Calls that succeed, one action per entrypoint of a build.                *)

Return(call, by, number, flag) ==
  /\ answer' = Answer(call, by, number, flag)
  /\ UNCHANGED rolled_back

CountV1(by) ==
  /\ code = "v1" /\ DecodesV1(storage)
  /\ Return("count", by, storage["Config"].count, FALSE)
  /\ UNCHANGED <<code, storage>>

\* config.count += 1 traps at the top (overflow-checks of the release profile).
CanIncrement(count) == count < MaxCount

IncrementV1(by) ==
  /\ code = "v1" /\ DecodesV1(storage)
  /\ LET count == storage["Config"].count
     IN  /\ CanIncrement(count)
         /\ storage' = Set(storage, "Config", ConfigV1(count + 1))
         /\ Return("increment", by, count + 1, FALSE)
  /\ UNCHANGED code

CountV2(by) ==
  /\ code = "v2" /\ Loads(storage)
  /\ storage' = Loaded(storage)
  /\ Return("count", by, Loaded(storage)["Config"].count, FALSE)
  /\ UNCHANGED code

PausedV2(by) ==
  /\ code = "v2" /\ Loads(storage)
  /\ storage' = Loaded(storage)
  /\ Return("paused", by, 0, Loaded(storage)["Config"].paused)
  /\ UNCHANGED code

IncrementV2(by) ==
  /\ code = "v2" /\ Loads(storage)
  /\ LET config == Loaded(storage)["Config"]
     IN  /\ ~config.paused /\ CanIncrement(config.count)
         /\ storage' = Set(Loaded(storage), "Config", ConfigV2(config.count + 1, config.paused))
         /\ Return("increment", by, config.count + 1, FALSE)
  /\ UNCHANGED code

SetPausedV2(caller, operator, flag) ==
  /\ code = "v2" /\ Authorized(storage, caller, operator) /\ Loads(storage)
  /\ LET config == Loaded(storage)["Config"]
     IN  storage' = Set(Loaded(storage), "Config", ConfigV2(config.count, flag))
  /\ Return("set_paused", caller, 0, flag)
  /\ UNCHANGED code

MigrateV2(caller, operator) ==
  /\ code = "v2" /\ Authorized(storage, caller, operator) /\ Loads(storage)
  /\ storage' = Loaded(storage)
  /\ Return("migrate", caller, 0, FALSE)
  /\ UNCHANGED code

UpgradeNeeds_Slip == IF code = "v1" THEN DecodesV1(storage) ELSE Loads(storage)
\* `upgrade` reads the administrator only, never the configuration.
UpgradeNeeds == "Admin" \in DOMAIN storage

\* `upgrade` of v1 and v2; the unsafe build has no such entrypoint.
Upgrade(caller, operator, new) ==
  /\ code \in {"v1", "v2"} /\ UpgradeNeeds /\ Authorized(storage, caller, operator)
  /\ code' = new
  /\ rolled_back' = (rolled_back \/ (code = "v2" /\ new = "v1"))
  /\ answer' = Answer("upgrade", caller, 0, FALSE)
  /\ UNCHANGED storage

\* `count` of the unsafe build looks for a key that only its constructor sets.
CountUnsafe(by) ==
  /\ code = "unsafe"
  /\ Return("count", by, IF "Count" \in DOMAIN storage THEN storage["Count"] ELSE 0, FALSE)
  /\ UNCHANGED <<code, storage>>

\* A call fails: not authorized, paused, at the top, undecodable storage, an
\* entrypoint the build does not have, or the transaction's fees or limits.
Trap(by) ==
  /\ answer' = Answer("trap", by, 0, FALSE)
  /\ UNCHANGED <<code, storage, rolled_back>>

----------------------------------------------------------------------------
Init ==
  /\ \/ code = "v1" /\ storage = ConstructV1
     \/ code = "v2" /\ storage = ConstructV2
     \/ code = "unsafe" /\ storage = ConstructUnsafe
  /\ answer = Abstract!Silence
  /\ rolled_back = FALSE

Next ==
  \/ \E by \in Addresses :
       \/ CountV1(by) \/ IncrementV1(by)
       \/ CountV2(by) \/ PausedV2(by) \/ IncrementV2(by)
       \/ CountUnsafe(by) \/ Trap(by)
  \/ \E caller, operator \in Addresses :
       \/ MigrateV2(caller, operator)
       \/ \E flag \in BOOLEAN : SetPausedV2(caller, operator, flag)
       \/ \E new \in Codes : Upgrade(caller, operator, new)

Spec == Init /\ [][Next]_vars

----------------------------------------------------------------------------
Configs == {ConfigV1(n) : n \in Abstract!Counts}
             \cup {ConfigV2(n, flag) : n \in Abstract!Counts, flag \in BOOLEAN}

(* Types of the contract instance. *)
TypeOK ==
  /\ code \in Codes
  /\ \/ storage \in [Admin : {Admin}, Config : Configs, SchemaVersion : {1, 2}]
     \/ storage = ConstructUnsafe
  /\ answer \in Abstract!Answers
  /\ rolled_back \in BOOLEAN

\* The unsafe build was installed over the storage of another one.
Misplaced == code = "unsafe" /\ "Config" \in DOMAIN storage

(* Every step of the contract is one of the abstract counter: no sequence   *)
(* of replacements, lazy and eager migrations, traps and rollbacks loses or *)
(* repeats an increment, wraps the counter, answers with a wrong value, or  *)
(* lets anyone but the administrator, or a second migration, change         *)
(* `paused`.  The exception is the unsafe build where it replaced another:  *)
(* it finds no `Count` and answers 0 whatever was counted, which is why the *)
(* checker refuses it.  Even there the stored counter stays as it was.      *)
KeepsCounting ==
  Abstract!Init
    /\ [][IF Misplaced THEN UNCHANGED storage ELSE Abstract!Next]_(Abstract!vars)

(* A build meets storage it can decode: v2 always, in either layout and     *)
(* also after a rollback and a second upgrade; v1 unless v2 was there       *)
(* before it.  So the only replacement that makes calls trap is the rollback*)
(* that the checker refuses because it lowers the version.                  *)
ReadersFitStorage ==
  /\ code = "v2" => Loads(storage)
  /\ code = "v1" /\ ~rolled_back => DecodesV1(storage)

(* The way back: as long as v1 or v2 is installed the administrator can     *)
(* install another build, also when the storage is of a layout the          *)
(* installed build cannot decode.                                           *)
AdminKeepsControl ==
  code \in {"v1", "v2"} => UpgradeNeeds /\ Authorized(storage, Admin, Admin)
=============================================================================
