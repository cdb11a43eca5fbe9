------------------------- MODULE ReleaseChainProofs -------------------------
(***************************************************************************)
(* What holds between any two releases of a contract, for every set of      *)
(* builds, every policy and every length of the chain.                      *)
(*                                                                         *)
(* The validator compares a release with the one before it (Accepted).     *)
(* Everything said of releases further apart is carried along the chain:    *)
(* from an earlier release to the last one by the invariant, and from the   *)
(* last one to the new one by the decision.  First, what it means that the  *)
(* validator lets a release pass: a report without an error, taken apart    *)
(* check by check.  Nothing is assumed there about artifacts, declarations, *)
(* policies and histories but what a lemma states.                          *)
(***************************************************************************)
EXTENDS ReleaseChain, TLAPS

----------------------------------------------------------------------------
(* Findings.                                                                *)

(* A supplied value is not None, and is what was supplied. *)
LEMMA SomeGiven ==
  ASSUME NEW x
  PROVE  Some(x) # None /\ Given(Some(x)) = x
BY DEF Some, None, Given

(* A union of findings is safe only if each part is. *)
LEMMA SafePart ==
  ASSUME NEW all, NEW part, part \subseteq all, Safe(all)
  PROVE  Safe(part)
BY DEF Safe

(* A safe check did not raise the error it may raise. *)
LEMMA SafeWhen ==
  ASSUME NEW condition, NEW code, Safe(When(condition, Error(code)))
  PROVE  ~condition
BY DEF Safe, When, Error

(* Only errors block a release. *)
LEMMA NoError ==
  ASSUME NEW all, NEW code, Safe(all)
  PROVE  Error(code) \notin all
BY DEF Safe, Error

(* validate_with_history reports the findings of every check. *)
LEMMA SafeFindings ==
  ASSUME NEW source, NEW target, NEW from, NEW to, NEW policy, NEW context, NEW declared,
         NEW limited,
         Safe(Findings(source, target, from, to, policy, context, declared, limited))
  PROVE  /\ Safe(CheckPolicy(policy))
         /\ Safe(CheckProtocolContext(context))
         /\ Safe(CheckEnvironmentCompatibility(target, context))
         /\ Safe(CheckCap0086(target, context))
         /\ Safe(CheckUpgradePath(source, target, policy))
         /\ Safe(CheckVersions(source, target, policy))
         /\ Safe(CompareInterfaces(source, target, policy, context))
         /\ Safe(CheckHistory(source, target, policy, declared))
         /\ Safe(CheckStorage(source, target, policy, from, to))
<1> DEFINE all == Findings(source, target, from, to, policy, context, declared, limited)
<1>1. /\ CheckPolicy(policy) \subseteq all
      /\ CheckProtocolContext(context) \subseteq all
      /\ CheckEnvironmentCompatibility(target, context) \subseteq all
      /\ CheckCap0086(target, context) \subseteq all
      /\ CheckUpgradePath(source, target, policy) \subseteq all
      /\ CheckVersions(source, target, policy) \subseteq all
      /\ CompareInterfaces(source, target, policy, context) \subseteq all
      /\ CheckHistory(source, target, policy, declared) \subseteq all
      /\ CheckStorage(source, target, policy, from, to) \subseteq all
  BY DEF Findings
<1> HIDE DEF all
<1>2. Safe(all)
  BY DEF all
<1> QED BY <1>1, <1>2, SafePart

----------------------------------------------------------------------------
(* Versions.                                                                *)

(* Under require_semver_increase a release that passes is newer. *)
LEMMA SafeVersions ==
  ASSUME NEW source, NEW target, NEW policy,
         source.version \in Nat, target.version \in Nat,
         "require_semver_increase" \in policy.on,
         Safe(CheckVersions(source, target, policy))
  PROVE  source.version < target.version
<1>1. /\ Safe({Error("VER001")}) => FALSE
      /\ Safe({Error("VER003")}) => FALSE
  BY DEF Safe, Error
<1>2. Safe(When(target.version <= source.version, Error("VER002")))
  BY <1>1 DEF CheckVersions
<1>3. ~(target.version <= source.version)
  BY <1>2, SafeWhen
<1> QED BY <1>3

----------------------------------------------------------------------------
(* Storage declarations.                                                    *)

(* Two declarations that pass: no key is dropped, a key with a new layout   *)
(* has a migration and a new schema version, and every declared migration   *)
(* names an exported entrypoint.                                            *)
LEMMA SafeStorage ==
  ASSUME NEW source, NEW target, NEW policy, NEW from, NEW to,
         Safe(CheckStorage(source, target, policy, Some(from), Some(to)))
  PROVE  /\ DOMAIN from.entries \subseteq DOMAIN to.entries
         /\ \A k \in Relaid(from, to) : to.entries[k].migration # None
         /\ Relaid(from, to) # {} => ~NotIncremented(from, to)
         /\ \A m \in DeclaredMigrations(to) :
              /\ Given(m).entrypoint # None
              /\ HasFunction(target, Given(Given(m).entrypoint))
<1>1. /\ Safe(ValidateSchemaManifests(source, target, from, to))
      /\ Safe(CompareStorageSchemas(from, to))
  BY SomeGiven, SafePart DEF CheckStorage
<1> DEFINE removed == Removed(from.entries, to.entries)
<1>2. /\ Safe(When(removed # {}, Error("STO001")))
      /\ Safe({IF to.entries[k].migration # None THEN Warning("STO002") ELSE Error("STO003") :
                 k \in Relaid(from, to)})
      /\ Safe(When((removed # {} \/ Relaid(from, to) # {}) /\ NotIncremented(from, to),
                   Error("STO005")))
  BY <1>1 DEF CompareStorageSchemas, Safe
<1>3. removed = {}
  BY <1>2, SafeWhen
<1>4. DOMAIN from.entries \subseteq DOMAIN to.entries
  BY <1>3 DEF Removed
<1>5. ASSUME NEW k \in Relaid(from, to), to.entries[k].migration = None PROVE FALSE
  <2> DEFINE answers == {IF to.entries[j].migration # None THEN Warning("STO002")
                         ELSE Error("STO003") : j \in Relaid(from, to)}
  <2>1. Error("STO003") \in answers
    BY <1>5
  <2> QED BY <1>2, <2>1, NoError
<1>6. Relaid(from, to) # {} => ~NotIncremented(from, to)
  BY <1>2, SafeWhen
<1>7. ASSUME NEW m \in DeclaredMigrations(to)
      PROVE  /\ Given(m).entrypoint # None
             /\ HasFunction(target, Given(Given(m).entrypoint))
  <2> DEFINE entry == Given(m).entrypoint
             named == IF entry = None THEN {Error("STO014")}
                      ELSE When(~HasFunction(target, Given(entry)), Error("STO009"))
  <2>1. named \subseteq MigrationFindings(target, Given(m))
    BY DEF MigrationFindings
  <2>2. Safe(named)
    BY <1>1, <1>7, <2>1 DEF ValidateSchemaManifests, Safe
  <2>3. entry # None
    BY <2>2 DEF Safe, Error
  <2>4. Safe(When(~HasFunction(target, Given(entry)), Error("STO009")))
    BY <2>2, <2>3
  <2> QED BY <2>3, <2>4, SafeWhen
<1> QED BY <1>4, <1>5, <1>6, <1>7

----------------------------------------------------------------------------
(* Network, protocol and upgrade path.                                      *)

(* A live read that passes has a protocol and is complete. *)
LEMMA SafeContext ==
  ASSUME NEW context, context.source = "live", Safe(CheckProtocolContext(context))
  PROVE  context.protocol # 0 /\ context.missing = {}
<1>1. CheckProtocolContext(context) =
        {IF context.protocol # 0 /\ IsComplete(context) THEN Info("NET005") ELSE Error("NET006")}
  BY DEF CheckProtocolContext
<1> QED BY <1>1 DEF Safe, Error, IsComplete

(* A target that passes is no pre-release, and against a known protocol it  *)
(* needs no newer one. *)
LEMMA SafeEnvironment ==
  ASSUME NEW target, NEW context, Safe(CheckEnvironmentCompatibility(target, context))
  PROVE  /\ ~target.pre_release
         /\ context.protocol # 0 => ~(context.protocol < target.env_protocol)
<1>1. /\ Safe(When(target.pre_release, Error("ENV001")))
      /\ Safe(When(context.protocol # 0 /\ context.protocol < target.env_protocol,
                   Error("ENV002")))
  BY DEF CheckEnvironmentCompatibility, Safe
<1> QED BY <1>1, SafeWhen

(* The sparse map functions are each reached from an export, and against a  *)
(* known protocol they are used only where they are active. *)
LEMMA SafeCap0086 ==
  ASSUME NEW target, NEW context, Safe(CheckCap0086(target, context))
  PROVE  /\ context.protocol # 0 /\ {SparseRead, SparseWrite} \cap target.imports # {} =>
              context.protocol >= SparseProtocol
         /\ SparseRead \in target.imports => ReachedFrom(target, SparseRead) # {}
         /\ SparseWrite \in target.imports => ReachedFrom(target, SparseWrite) # {}
<1> DEFINE reads == SparseRead \in target.imports
           writes == SparseWrite \in target.imports
           active == context.protocol # 0 /\ context.protocol >= SparseProtocol
<1>1. /\ Safe(When((reads \/ writes) /\ context.protocol # 0 /\ ~active, Error("CAP001")))
      /\ Safe(When(reads /\ ReachedFrom(target, SparseRead) = {}, Error("CAP007")))
      /\ Safe(When(writes /\ ReachedFrom(target, SparseWrite) = {}, Error("CAP009")))
  BY DEF CheckCap0086, Safe
<1>2. /\ ~((reads \/ writes) /\ context.protocol # 0 /\ ~active)
      /\ ~(reads /\ ReachedFrom(target, SparseRead) = {})
      /\ ~(writes /\ ReachedFrom(target, SparseWrite) = {})
  BY <1>1, SafeWhen
<1> QED BY <1>2

(* Under require_upgrade_function a target that passes can be replaced. *)
LEMMA SafeUpgradePath ==
  ASSUME NEW source, NEW target, NEW policy, "require_upgrade_function" \in policy.on,
         Safe(CheckUpgradePath(source, target, policy))
  PROVE  HasFunction(target, "upgrade") /\ ReachesUpdate(target)
<1>1. /\ Safe(When(~HasFunction(target, "upgrade"), Error("UPG001")))
      /\ Safe(When(HasFunction(target, "upgrade") /\ ~ReachesUpdate(target), Error("UPG004")))
  BY DEF CheckUpgradePath, Safe
<1>2. /\ HasFunction(target, "upgrade")
      /\ ~(HasFunction(target, "upgrade") /\ ~ReachesUpdate(target))
  BY <1>1, SafeWhen
<1> QED BY <1>2

----------------------------------------------------------------------------
(* Public interface.                                                        *)

\* Nothing of the interface was removed or changed that the policy protects.
Protected(source, target, policy) ==
  /\ "deny_removed_functions" \in policy.on => Removed(source.functions, target.functions) = {}
  /\ "deny_changed_functions" \in policy.on => Changed(source.functions, target.functions) = {}
  /\ "deny_removed_events" \in policy.on => Removed(source.events, target.events) = {}
  /\ "deny_changed_events" \in policy.on => Changed(source.events, target.events) = {}
  /\ "deny_changed_user_types" \in policy.on =>
       /\ Removed(source.user_types, target.user_types) = {}
       /\ Changed(source.user_types, target.user_types) = {}

(* Each protection holds of two artifacts that pass.  A changed type never  *)
(* passes: an added optional field is an error with and without CAP-0086. *)
LEMMA SafeInterfaces ==
  ASSUME NEW source, NEW target, NEW policy, NEW context,
         Safe(CompareInterfaces(source, target, policy, context))
  PROVE  Protected(source, target, policy)
<1> DEFINE enabled(switch, names, code) ==
             When(switch \in policy.on /\ names # {}, Error(code))
           removed_functions == Removed(source.functions, target.functions)
           changed_functions == Changed(source.functions, target.functions)
           removed_events == Removed(source.events, target.events)
           changed_events == Changed(source.events, target.events)
           removed_types == Removed(source.user_types, target.user_types)
           changed_types == Changed(source.user_types, target.user_types)
           finding(t) ==
             ChangedTypeFinding(source.user_types[t], target.user_types[t], target, context)
<1>1. /\ Safe(enabled("deny_removed_functions", removed_functions, "ABI001"))
      /\ Safe(enabled("deny_changed_functions", changed_functions, "ABI002"))
      /\ Safe(enabled("deny_removed_events", removed_events, "EVT001"))
      /\ Safe(enabled("deny_changed_events", changed_events, "EVT002"))
      /\ Safe(enabled("deny_changed_user_types", removed_types, "ABI003"))
      /\ "deny_changed_user_types" \in policy.on => Safe({finding(t) : t \in changed_types})
  BY DEF CompareInterfaces, Safe
<1>2. /\ ~("deny_removed_functions" \in policy.on /\ removed_functions # {})
      /\ ~("deny_changed_functions" \in policy.on /\ changed_functions # {})
      /\ ~("deny_removed_events" \in policy.on /\ removed_events # {})
      /\ ~("deny_changed_events" \in policy.on /\ changed_events # {})
      /\ ~("deny_changed_user_types" \in policy.on /\ removed_types # {})
  BY <1>1, SafeWhen
<1>3. ASSUME "deny_changed_user_types" \in policy.on, NEW t \in changed_types PROVE FALSE
  <2>1. finding(t).severity = "error"
    BY DEF ChangedTypeFinding, Error
  <2> QED BY <1>1, <1>3, <2>1 DEF Safe
<1> QED BY <1>2, <1>3 DEF Protected

----------------------------------------------------------------------------
(* Field history.                                                           *)

\* Field f of struct t is on record with the type the artifact gives it.
RecordedAs(artifact, declared, t, f) ==
  /\ Recorded(declared, t, f)
  /\ RecordOf(declared, t, f).type = StructFields(artifact)[t][f]

(* A recorded field whose type differs is an error. *)
LEMMA SafeTypeFinding ==
  ASSUME NEW record, NEW type, NEW code, Safe(TypeFinding(record, type, code))
  PROVE  record.type = type
BY SafeWhen DEF TypeFinding

(* The fields of two artifacts that pass are on record with their types, no *)
(* reserved name is used, and the name of a removed field is reserved. *)
LEMMA SafeHistory ==
  ASSUME NEW source, NEW target, NEW policy, NEW declared,
         Safe(CheckHistory(source, target, policy, Some(declared)))
  PROVE  /\ \A t \in DOMAIN StructFields(source) : \A f \in FieldsOf(source, t) :
              /\ RecordedAs(source, declared, t, f)
              /\ f \notin FieldsOf(target, t) => Reserved(declared, t, f)
         /\ \A t \in DOMAIN StructFields(target) : \A f \in FieldsOf(target, t) :
              RecordedAs(target, declared, t, f) /\ ~Reserved(declared, t, f)
<1> DEFINE of_source(t) == UNION {SourceFieldFindings(source, declared, t, f) :
                                    f \in FieldsOf(source, t)}
           of_target(t) ==
             IF t \notin DOMAIN declared.types THEN {Error("HIS004")}
             ELSE UNION {TargetFieldFindings(source, target, declared, t, f) :
                           f \in FieldsOf(target, t)}
           of_removed(t) == {RemovedFieldFinding(target, declared, t, f) :
                               f \in FieldsOf(source, t) \ FieldsOf(target, t)}
<1>1. Safe(ValidateSchemaHistory(source, target, declared))
  BY SomeGiven DEF CheckHistory
<1>2. declared.supported
  BY <1>1, NoError DEF ValidateSchemaHistory
<1>3. /\ \A t \in DOMAIN StructFields(source) : Safe(of_source(t)) /\ Safe(of_removed(t))
      /\ \A t \in DOMAIN StructFields(target) : Safe(of_target(t))
  <2>1. /\ Safe(SourceFindings(source, declared))
        /\ Safe(TargetFindings(source, target, declared))
        /\ Safe(RemovedFindings(source, target, declared))
    BY <1>1, <1>2 DEF ValidateSchemaHistory, Safe
  <2>2. ASSUME NEW t \in DOMAIN StructFields(source), NEW x \in of_source(t)
        PROVE  x \in SourceFindings(source, declared)
    BY <2>2 DEF SourceFindings
  <2>3. ASSUME NEW t \in DOMAIN StructFields(target), NEW x \in of_target(t)
        PROVE  x \in TargetFindings(source, target, declared)
    <3>1. TargetFindings(source, target, declared)
            = UNION {of_target(u) : u \in DOMAIN StructFields(target)}
      BY DEF TargetFindings
    <3> HIDE DEF of_target
    <3> QED BY <2>3, <3>1
  <2>4. ASSUME NEW t \in DOMAIN StructFields(source), NEW x \in of_removed(t)
        PROVE  x \in RemovedFindings(source, target, declared)
    BY <2>4 DEF RemovedFindings
  <2> HIDE DEF of_source, of_removed, of_target
  <2> QED BY <2>1, <2>2, <2>3, <2>4 DEF Safe
<1>4. ASSUME NEW t \in DOMAIN StructFields(source), NEW f \in FieldsOf(source, t)
      PROVE  RecordedAs(source, declared, t, f)
  <2>1. Safe(SourceFieldFindings(source, declared, t, f))
    BY <1>3, <1>4 DEF Safe
  <2>2. Recorded(declared, t, f)
    BY <2>1, NoError DEF SourceFieldFindings
  <2>3. Safe(TypeFinding(RecordOf(declared, t, f), StructFields(source)[t][f], "HIS003"))
    BY <2>1, <2>2 DEF SourceFieldFindings
  <2> QED BY <2>2, <2>3, SafeTypeFinding DEF RecordedAs
<1>5. ASSUME NEW t \in DOMAIN StructFields(source), NEW f \in FieldsOf(source, t),
             f \notin FieldsOf(target, t)
      PROVE  Reserved(declared, t, f)
  <2>1. RemovedFieldFinding(target, declared, t, f) \in of_removed(t)
    BY <1>5
  <2>2. RemovedFieldFinding(target, declared, t, f) # Error("HIS010")
    BY <1>3, <2>1, NoError
  <2> QED BY <2>2 DEF RemovedFieldFinding
<1>6. ASSUME NEW t \in DOMAIN StructFields(target), NEW f \in FieldsOf(target, t)
      PROVE  RecordedAs(target, declared, t, f) /\ ~Reserved(declared, t, f)
  <2> DEFINE unrecorded ==
               IF ~Recorded(declared, t, f) THEN {Error("HIS006")}
               ELSE LET record == RecordOf(declared, t, f) IN
                    When(IsRetired(record), Error("HIS007"))
                      \cup TypeFinding(record, StructFields(target)[t][f], "HIS008")
                      \cup When(f \notin FieldsOf(source, t)
                                  /\ record.first_seen # target.version, Error("HIS009"))
  <2>1. t \in DOMAIN declared.types
    BY <1>3, NoError
  <2>2. Safe(TargetFieldFindings(source, target, declared, t, f))
    BY <1>3, <1>6, <2>1 DEF Safe
  <2>3. Safe(When(Reserved(declared, t, f), Error("HIS005"))) /\ Safe(unrecorded)
    BY <2>2 DEF TargetFieldFindings, Safe
  <2>4. ~Reserved(declared, t, f)
    BY <2>3, SafeWhen
  <2>5. Recorded(declared, t, f)
    BY <2>3, NoError
  <2>6. Safe(TypeFinding(RecordOf(declared, t, f), StructFields(target)[t][f], "HIS008"))
    BY <2>3, <2>5 DEF Safe
  <2> QED BY <2>4, <2>5, <2>6, SafeTypeFinding DEF RecordedAs
<1> QED BY <1>4, <1>5, <1>6

----------------------------------------------------------------------------
(* The invariants.                                                          *)

AnyContext ==
  {LiveContext(p, missing) : p \in Nat, missing \in Gaps \cup {{}}}
    \cup {AssertedContext(p) : p \in Assertions}
Releases == {Deployed(build, context) : build \in Builds, context \in AnyContext}

TypeInv ==
  /\ releases \in Seq(Releases) /\ Len(releases) >= 1
  /\ protocol \in Nat /\ observed \in Nat /\ observed <= protocol

\* The history still parses.
HistoryInv ==
  /\ history = [supported |-> history.supported, complete |-> history.complete,
                types |-> history.types]
  /\ \A t \in DOMAIN history.types : IsTypeHistory(history.types[t])

\* What the decision leaves of two neighbours in the chain.
SparseReached(target) ==
  /\ SparseRead \in target.imports => ReachedFrom(target, SparseRead) # {}
  /\ SparseWrite \in target.imports => ReachedFrom(target, SparseWrite) # {}
Replaceable(target) ==
  "require_upgrade_function" \in Policy.on =>
    HasFunction(target, "upgrade") /\ ReachesUpdate(target)
KeysCarried(from, to, target) ==
  /\ DOMAIN from.entries \subseteq DOMAIN to.entries
  /\ \A k \in Relaid(from, to) : to.entries[k].migration # None
  /\ Relaid(from, to) # {} => ~NotIncremented(from, to)
  /\ \A m \in DeclaredMigrations(to) :
       /\ Given(m).entrypoint # None
       /\ HasFunction(target, Given(Given(m).entrypoint))
Accepted(before, after) ==
  /\ after.context.source = "live" =>
       after.context.protocol # 0 /\ after.context.missing = {}
  /\ after.context.protocol # 0 => HostProvides(after.artifact, after.context.protocol)
  /\ ~after.artifact.pre_release
  /\ SparseReached(after.artifact)
  /\ Replaceable(after.artifact)
  /\ "require_semver_increase" \in Policy.on =>
       before.artifact.version < after.artifact.version
  /\ Protected(before.artifact, after.artifact, Policy)
  /\ KeysCarried(before.schema, after.schema, after.artifact)

\* What the decision leaves of the history: both structs are on record, no
\* reserved name is used and every removed one is reserved.
HistoryAllows(source, target) ==
  /\ \A t : \A f \in FieldsOf(source, t) :
       /\ RecordedAs(source, history, t, f)
       /\ f \notin FieldsOf(target, t) => Reserved(history, t, f)
  /\ \A t : \A f \in FieldsOf(target, t) :
       RecordedAs(target, history, t, f) /\ ~Reserved(history, t, f)

\* Every release but the first was accepted against its predecessor; a protocol
\* that was read is one the network has reached.
Decided ==
  \A i \in 2 .. Len(releases) :
    /\ Accepted(releases[i - 1], releases[i])
    /\ releases[i].context.source = "live" => releases[i].context.protocol <= protocol

----------------------------------------------------------------------------
(* Steps.                                                                   *)

LEMMA ReleaseFields ==
  ASSUME NEW r \in Releases
  PROVE  /\ r.artifact.version \in Nat /\ r.artifact.env_protocol \in Nat
         /\ r.context.protocol \in Nat
<1>1. PICK build \in Builds, context \in AnyContext : r = Deployed(build, context)
  BY DEF Releases
<1>2. r.artifact = build.artifact /\ r.schema = build.schema /\ r.context = context
  BY <1>1 DEF Deployed
<1>3. context.protocol \in Nat
  BY ReleaseChainAssumption DEF AnyContext, LiveContext, AssertedContext
<1> QED BY <1>1, <1>2, <1>3, ReleaseChainAssumption

(* A published release was accepted against the last one. *)
LEMMA PublishAccepts ==
  ASSUME TypeInv, NEW build \in Builds, NEW context \in Contexts, Publish(build, context)
  PROVE  LET new == Deployed(build, context) IN
         /\ new \in Releases
         /\ new.context.source = "live" => new.context.protocol = observed
         /\ Accepted(releases[Len(releases)], new)
         /\ HistoryAllows(releases[Len(releases)].artifact, new.artifact)
         /\ releases' = Append(releases, new)
         /\ UNCHANGED <<history, protocol, observed>>
<1> DEFINE new == Deployed(build, context)
           old == releases[Len(releases)]
<1>1. /\ new \in Releases
      /\ new.artifact = build.artifact /\ new.schema = build.schema
      /\ new.context = context
      /\ context.source = "live" => context.protocol = observed
  <2>1. /\ context \in AnyContext
        /\ context.source = "live" => context.protocol = observed
    BY DEF TypeInv, Contexts, AnyContext, LiveContext, AssertedContext
  <2> QED BY <2>1 DEF Releases, Deployed
<1>2. old \in Releases /\ Current = old
  BY DEF TypeInv, Current, LastOf
<1>3. /\ releases' = Append(releases, new)
      /\ UNCHANGED <<history, protocol, observed>>
      /\ Safe(Findings(old.artifact, new.artifact, Some(old.schema), Some(new.schema),
                       Policy, context, Some(history), FALSE))
  BY <1>1, <1>2 DEF Publish, Decision
<1>4. /\ Safe(CheckProtocolContext(context))
      /\ Safe(CheckEnvironmentCompatibility(new.artifact, context))
      /\ Safe(CheckCap0086(new.artifact, context))
      /\ Safe(CheckUpgradePath(old.artifact, new.artifact, Policy))
      /\ Safe(CheckVersions(old.artifact, new.artifact, Policy))
      /\ Safe(CompareInterfaces(old.artifact, new.artifact, Policy, context))
      /\ Safe(CheckStorage(old.artifact, new.artifact, Policy,
                           Some(old.schema), Some(new.schema)))
      /\ Safe(CheckHistory(old.artifact, new.artifact, Policy, Some(history)))
  BY <1>3, SafeFindings
<1> HIDE DEF new, old
<1>5. context.source = "live" => context.protocol # 0 /\ context.missing = {}
  BY <1>4, SafeContext
<1>6. /\ ~new.artifact.pre_release
      /\ context.protocol # 0 =>
           /\ ~(context.protocol < new.artifact.env_protocol)
           /\ {SparseRead, SparseWrite} \cap new.artifact.imports # {} =>
                context.protocol >= SparseProtocol
      /\ SparseReached(new.artifact)
  BY <1>4, SafeEnvironment, SafeCap0086 DEF SparseReached
<1>7. /\ new.artifact.env_protocol \in Nat /\ new.artifact.version \in Nat
      /\ old.artifact.version \in Nat /\ context.protocol \in Nat
  BY <1>1, <1>2, ReleaseFields
<1>8. context.protocol # 0 => HostProvides(new.artifact, context.protocol)
  BY <1>6, <1>7 DEF HostProvides
<1>9. Replaceable(new.artifact)
  BY <1>4, SafeUpgradePath DEF Replaceable
<1>10. "require_semver_increase" \in Policy.on =>
         old.artifact.version < new.artifact.version
  BY <1>4, <1>7, SafeVersions
<1>11. Protected(old.artifact, new.artifact, Policy)
  BY <1>4, SafeInterfaces
<1>12. KeysCarried(old.schema, new.schema, new.artifact)
  BY <1>3, <1>4, SafeStorage DEF KeysCarried
<1>13. Accepted(old, new)
  BY <1>1, <1>5, <1>6, <1>8, <1>9, <1>10, <1>11, <1>12 DEF Accepted
<1>14. HistoryAllows(old.artifact, new.artifact)
  BY <1>4, SafeHistory DEF HistoryAllows, FieldsOf
<1> QED BY <1>1, <1>3, <1>13, <1>14 DEF new, old

\* The chain grows by `new`.
Grows(new) ==
  /\ new \in Releases
  /\ new.context.source = "live" => new.context.protocol = observed
  /\ Accepted(releases[Len(releases)], new)
  /\ HistoryAllows(releases[Len(releases)].artifact, new.artifact)
  /\ Len(releases') = Len(releases) + 1 /\ DOMAIN releases' = 1 .. Len(releases) + 1
  /\ releases'[Len(releases) + 1] = new
  /\ \A i \in 1 .. Len(releases) : releases'[i] = releases[i]

(* A step keeps the chain or grows it by an accepted release. *)
LEMMA ChainStep ==
  ASSUME TypeInv, [Next]_vars
  PROVE  \/ releases' = releases
         \/ /\ UNCHANGED <<protocol, history>>
            /\ \E new \in Releases : Grows(new)
<1>1. ASSUME NEW build \in Builds, NEW context \in Contexts, Publish(build, context)
      PROVE  UNCHANGED <<protocol, history>> /\ \E new \in Releases : Grows(new)
  <2> DEFINE new == Deployed(build, context)
  <2>1. /\ new \in Releases
        /\ new.context.source = "live" => new.context.protocol = observed
        /\ Accepted(releases[Len(releases)], new)
        /\ HistoryAllows(releases[Len(releases)].artifact, new.artifact)
        /\ releases' = Append(releases, new)
        /\ UNCHANGED <<protocol, history>>
    BY <1>1, PublishAccepts
  <2> HIDE DEF new
  <2>2. /\ Len(releases') = Len(releases) + 1 /\ DOMAIN releases' = 1 .. Len(releases) + 1
        /\ releases'[Len(releases) + 1] = new
        /\ \A i \in 1 .. Len(releases) : releases'[i] = releases[i]
    BY <2>1 DEF TypeInv
  <2> QED BY <2>1, <2>2 DEF Grows
<1>2. CASE EditHistory
  BY <1>2 DEF EditHistory, RecordField, RetireField, ReserveField
<1>3. CASE ReadNetwork \/ UpgradeNetwork \/ UNCHANGED vars
  BY <1>3 DEF ReadNetwork, UpgradeNetwork, vars
<1> QED BY <1>1, <1>2, <1>3 DEF Next

----------------------------------------------------------------------------
(* Types.                                                                   *)

LEMMA InitTypes == Init => TypeInv
<1> SUFFICES ASSUME Init PROVE TypeInv
  OBVIOUS
<1>1. PICK build \in Builds :
        releases = <<Deployed(build, LiveContext(FirstProtocol, {}))>>
  BY DEF Init
<1>2. Deployed(build, LiveContext(FirstProtocol, {})) \in Releases
  BY ReleaseChainAssumption DEF Releases, AnyContext
<1>3. releases \in Seq(Releases) /\ Len(releases) = 1
  BY <1>1, <1>2
<1> QED BY <1>3, ReleaseChainAssumption DEF Init, TypeInv

(* Every step keeps the types. *)
LEMMA TypesStep == TypeInv /\ [Next]_vars => TypeInv'
<1> SUFFICES ASSUME TypeInv, [Next]_vars PROVE TypeInv'
  OBVIOUS
<1>1. ASSUME NEW build \in Builds, NEW context \in Contexts, Publish(build, context)
      PROVE  TypeInv'
  <2> DEFINE new == Deployed(build, context)
  <2>1. new \in Releases /\ releases' = Append(releases, new)
        /\ UNCHANGED <<protocol, observed>>
    BY <1>1, PublishAccepts
  <2> HIDE DEF new
  <2> QED BY <2>1 DEF TypeInv
<1>2. CASE EditHistory
  BY <1>2 DEF EditHistory, RecordField, RetireField, ReserveField, TypeInv
<1>3. CASE ReadNetwork \/ UpgradeNetwork \/ UNCHANGED vars
  BY <1>3 DEF ReadNetwork, UpgradeNetwork, vars, TypeInv
<1> QED BY <1>1, <1>2, <1>3 DEF Next

(* The chain is never empty, and a live read never shows a protocol the     *)
(* network has not reached (Publish, ReadNetwork, UpgradeNetwork).          *)
THEOREM ChainTypeCorrect == Spec => []TypeInv
<1>1. Init => TypeInv
  BY InitTypes
<1>2. TypeInv /\ [Next]_vars => TypeInv'
  BY TypesStep
<1> QED BY <1>1, <1>2, PTL DEF Spec

(* The protocol of the network never goes back. *)
LEMMA ProtocolGrows ==
  ASSUME TypeInv, [Next]_vars
  PROVE  protocol <= protocol'
<1>1. CASE UpgradeNetwork
  BY <1>1 DEF TypeInv, UpgradeNetwork
<1>2. CASE ~UpgradeNetwork
  <2>1. UNCHANGED protocol
    BY <1>2 DEF Next, Publish, EditHistory, RecordField, RetireField, ReserveField,
                ReadNetwork, vars
  <2> QED BY <2>1 DEF TypeInv
<1> QED BY <1>1, <1>2

(* Every release was accepted against the one before it. *)
LEMMA DecidedStep == TypeInv /\ Decided /\ [Next]_vars => Decided'
<1> SUFFICES ASSUME TypeInv, Decided, [Next]_vars,
                    NEW i \in (2 .. Len(releases))'
             PROVE  /\ Accepted(releases'[i - 1], releases'[i])
                    /\ releases'[i].context.source = "live" =>
                         releases'[i].context.protocol <= protocol'
  BY DEF Decided
<1>1. TypeInv' /\ protocol <= protocol'
  BY TypesStep, ProtocolGrows
<1>2. /\ i \in 1 .. Len(releases') /\ i - 1 \in 1 .. Len(releases')
      /\ releases'[i] \in Releases
  BY <1>1 DEF TypeInv
<1>3. releases'[i].context.protocol \in Nat
  BY <1>2, ReleaseFields
<1>4. CASE releases' = releases
  BY <1>1, <1>3, <1>4 DEF Decided, TypeInv
<1>5. ASSUME NEW new \in Releases, Grows(new)
      PROVE  /\ Accepted(releases'[i - 1], releases'[i])
             /\ releases'[i].context.source = "live" =>
                  releases'[i].context.protocol <= protocol'
  <2>1. CASE i \in 2 .. Len(releases)
    <3>1. /\ releases'[i] = releases[i] /\ releases'[i - 1] = releases[i - 1]
      BY <1>5, <2>1 DEF Grows, TypeInv
    <3>2. /\ Accepted(releases[i - 1], releases[i])
          /\ releases[i].context.source = "live" => releases[i].context.protocol <= protocol
      BY <2>1 DEF Decided
    <3> QED BY <1>1, <1>3, <3>1, <3>2 DEF TypeInv
  <2>2. CASE i = Len(releases) + 1
    <3>1. releases'[i] = new /\ releases'[i - 1] = releases[Len(releases)]
      BY <1>5, <2>2 DEF Grows, TypeInv
    <3>2. /\ new.context.source = "live" => new.context.protocol = observed
          /\ Accepted(releases[Len(releases)], new)
      BY <1>5 DEF Grows
    <3> QED BY <1>1, <3>1, <3>2 DEF TypeInv
  <2> QED BY <1>5, <2>1, <2>2 DEF Grows, TypeInv
<1> QED BY <1>4, <1>5, ChainStep

(* A chain of one release has no neighbours. *)
LEMMA InitDecided == Init => Decided
<1> SUFFICES ASSUME Init PROVE Decided
  OBVIOUS
<1>1. Len(releases) = 1
  BY DEF Init
<1> QED BY <1>1 DEF Decided

(* Neighbours in the chain passed the decision, at every moment. *)
LEMMA AlwaysDecided == Spec => [](TypeInv /\ Decided)
<1>1. Init => TypeInv /\ Decided
  BY InitTypes, InitDecided
<1>2. TypeInv /\ Decided /\ [Next]_vars => (TypeInv /\ Decided)'
  BY TypesStep, DecidedStep
<1> QED BY <1>1, <1>2, PTL DEF Spec

----------------------------------------------------------------------------
(* Any two releases.                                                        *)

(* Two releases of a grown chain: both are old, or the later one is new and *)
(* the earlier one is the last old one or before it. *)
LEMMA PairOf ==
  ASSUME TypeInv, NEW new, Grows(new), NEW i \in DOMAIN releases', NEW j \in Later(i)'
  PROVE  /\ i \in DOMAIN releases /\ releases'[i] = releases[i]
         /\ \/ j \in Later(i) /\ releases'[j] = releases[j]
            \/ /\ j = Len(releases) + 1 /\ releases'[j] = new
               /\ i = Len(releases) \/ Len(releases) \in Later(i)
<1>1. /\ Len(releases') = Len(releases) + 1 /\ Len(releases) \in Nat
      /\ DOMAIN releases = 1 .. Len(releases)
      /\ i \in 1 .. Len(releases') /\ j \in i + 1 .. Len(releases')
  BY DEF TypeInv, Later, Grows
<1> QED BY <1>1 DEF Grows, Later

(* Versions never repeat or decrease. *)
LEMMA VersionsStep ==
  ASSUME "require_semver_increase" \in Policy.on
  PROVE  TypeInv /\ VersionsIncrease /\ [Next]_vars => VersionsIncrease'
<1> SUFFICES ASSUME TypeInv, VersionsIncrease, [Next]_vars PROVE VersionsIncrease'
  OBVIOUS
<1>1. CASE releases' = releases
  BY <1>1 DEF VersionsIncrease, ArtifactOf, Later
<1>2. ASSUME NEW new \in Releases, Grows(new), NEW i \in DOMAIN releases', NEW j \in Later(i)'
      PROVE  releases'[i].artifact.version < releases'[j].artifact.version
  <2>1. i \in DOMAIN releases /\ releases'[i] = releases[i]
    BY <1>2, PairOf
  <2>2. CASE j \in Later(i) /\ releases'[j] = releases[j]
    BY <2>1, <2>2 DEF VersionsIncrease, ArtifactOf
  <2>3. CASE releases'[j] = new
    <3> DEFINE old == releases[Len(releases)]
    <3>1. old.artifact.version < new.artifact.version
      BY <1>2 DEF Grows, Accepted
    <3>2. i = Len(releases) \/ Len(releases) \in Later(i)
      BY <1>2, <2>3, PairOf DEF Later, TypeInv
    <3>3. releases[i].artifact.version < old.artifact.version \/ i = Len(releases)
      BY <2>1, <3>2 DEF VersionsIncrease, ArtifactOf
    <3>4. /\ releases[i].artifact.version \in Nat /\ old.artifact.version \in Nat
          /\ new.artifact.version \in Nat
      BY <1>2, <2>1, ReleaseFields DEF TypeInv
    <3> QED BY <2>1, <2>3, <3>1, <3>3, <3>4
  <2> QED BY <1>2, <2>2, <2>3, PairOf
<1> QED BY <1>1, <1>2, ChainStep DEF VersionsIncrease, ArtifactOf

(* Later versions are higher: under require_semver_increase a version names *)
(* one release (check_versions). *)
THEOREM VersionsKeepIncreasing ==
  ASSUME "require_semver_increase" \in Policy.on
  PROVE  Spec => []VersionsIncrease
<1>1. Init => TypeInv /\ VersionsIncrease
  <2>1. Init => \A i \in DOMAIN releases : Later(i) = {}
    BY DEF Init, Later
  <2> QED BY <2>1, InitTypes DEF VersionsIncrease
<1>2. TypeInv /\ VersionsIncrease /\ [Next]_vars => (TypeInv /\ VersionsIncrease)'
  BY TypesStep, VersionsStep
<1> QED BY <1>1, <1>2, PTL DEF Spec

----------------------------------------------------------------------------
(* The public interface.                                                    *)

InterfaceProtections ==
  {"deny_removed_functions", "deny_changed_functions", "deny_removed_events",
   "deny_changed_events", "deny_changed_user_types"}
InterfaceExtends(before, after) ==
  /\ Extends(before.functions, after.functions)
  /\ Extends(before.events, after.events)
  /\ Extends(before.user_types, after.user_types)

(* Definitions that are neither removed nor changed are kept. *)
LEMMA NothingLost ==
  ASSUME NEW before, NEW after, Removed(before, after) = {}, Changed(before, after) = {}
  PROVE  Extends(before, after)
BY DEF Removed, Changed, Extends

(* With all protections on, an accepted build keeps the interface. *)
LEMMA ProtectedExtends ==
  ASSUME InterfaceProtections \subseteq Policy.on, NEW source, NEW target,
         Protected(source, target, Policy)
  PROVE  InterfaceExtends(source, target)
<1>1. /\ Removed(source.functions, target.functions) = {}
      /\ Changed(source.functions, target.functions) = {}
      /\ Removed(source.events, target.events) = {}
      /\ Changed(source.events, target.events) = {}
      /\ Removed(source.user_types, target.user_types) = {}
      /\ Changed(source.user_types, target.user_types) = {}
  BY DEF Protected, InterfaceProtections
<1> QED BY <1>1, NothingLost DEF InterfaceExtends

(* Keeping the interface carries over from neighbour to neighbour. *)
LEMMA ExtendsTransitive ==
  ASSUME NEW a, NEW b, NEW c, InterfaceExtends(a, b), InterfaceExtends(b, c)
  PROVE  InterfaceExtends(a, c)
<1>1. ASSUME NEW x, NEW y, NEW z, Extends(x, y), Extends(y, z) PROVE Extends(x, z)
  BY <1>1 DEF Extends
<1> QED BY <1>1 DEF InterfaceExtends

(* A new release keeps what the last one kept. *)
LEMMA InterfaceStep ==
  ASSUME InterfaceProtections \subseteq Policy.on
  PROVE  TypeInv /\ InterfaceKept /\ [Next]_vars => InterfaceKept'
<1> SUFFICES ASSUME TypeInv, InterfaceKept, [Next]_vars PROVE InterfaceKept'
  OBVIOUS
<1>1. CASE releases' = releases
  BY <1>1 DEF InterfaceKept, ArtifactOf, Later
<1>2. ASSUME NEW new \in Releases, Grows(new), NEW i \in DOMAIN releases', NEW j \in Later(i)'
      PROVE  InterfaceExtends(releases'[i].artifact, releases'[j].artifact)
  <2>1. i \in DOMAIN releases /\ releases'[i] = releases[i]
    BY <1>2, PairOf
  <2>2. \A l \in Later(i) : InterfaceExtends(releases[i].artifact, releases[l].artifact)
    BY <2>1 DEF InterfaceKept, ArtifactOf, InterfaceExtends
  <2>3. CASE j \in Later(i) /\ releases'[j] = releases[j]
    BY <2>1, <2>2, <2>3
  <2>4. CASE releases'[j] = new
    <3> DEFINE old == releases[Len(releases)]
    <3>1. InterfaceExtends(old.artifact, new.artifact)
      BY <1>2, ProtectedExtends DEF Grows, Accepted
    <3>2. i = Len(releases) \/ Len(releases) \in Later(i)
      BY <1>2, <2>4, PairOf DEF Later, TypeInv
    <3>3. i = Len(releases) \/ InterfaceExtends(releases[i].artifact, old.artifact)
      BY <2>2, <3>2
    <3> HIDE DEF old
    <3>4. InterfaceExtends(releases[i].artifact, new.artifact)
      BY <3>1, <3>3, ExtendsTransitive DEF old
    <3> QED BY <2>1, <2>4, <3>4
  <2> QED BY <1>2, <2>3, <2>4, PairOf
<1> QED BY <1>1, <1>2, ChainStep DEF InterfaceKept, ArtifactOf, InterfaceExtends

(* With the interface protections on, whatever an earlier release exports,  *)
(* emits or defines is unchanged in every later one (compare_interfaces).   *)
THEOREM InterfaceNeverLost ==
  ASSUME InterfaceProtections \subseteq Policy.on
  PROVE  Spec => []InterfaceKept
<1>1. Init => TypeInv /\ InterfaceKept
  <2>1. Init => \A i \in DOMAIN releases : Later(i) = {}
    BY DEF Init, Later
  <2> QED BY <2>1, InitTypes DEF InterfaceKept
<1>2. TypeInv /\ InterfaceKept /\ [Next]_vars => (TypeInv /\ InterfaceKept)'
  BY TypesStep, InterfaceStep
<1> QED BY <1>1, <1>2, PTL DEF Spec

----------------------------------------------------------------------------
(* Storage.                                                                 *)

\* How the layout of key k came from release i to release j.
MigratedIn(m, k) ==
  LET migration == SchemaOf(m).entries[k].migration IN
    /\ migration # None
    /\ Given(migration).entrypoint # None
    /\ HasFunction(ArtifactOf(m), Given(Given(migration).entrypoint))
KeyKept(i, j, k) ==
  /\ k \in DOMAIN SchemaOf(j).entries
  /\ SchemaOf(i).entries[k].layout # SchemaOf(j).entries[k].layout =>
       \E m \in i + 1 .. j : MigratedIn(m, k)

(* One accepted step keeps each key, or migrates it. *)
LEMMA KeyCarried ==
  ASSUME NEW from, NEW to, NEW target, KeysCarried(from, to, target),
         NEW k \in DOMAIN from.entries
  PROVE  /\ k \in DOMAIN to.entries
         /\ from.entries[k].layout # to.entries[k].layout =>
              LET migration == to.entries[k].migration IN
                /\ migration # None
                /\ Given(migration).entrypoint # None
                /\ HasFunction(target, Given(Given(migration).entrypoint))
<1>1. k \in DOMAIN to.entries
  BY DEF KeysCarried
<1>2. ASSUME from.entries[k].layout # to.entries[k].layout
      PROVE  to.entries[k].migration \in DeclaredMigrations(to)
             /\ to.entries[k].migration # None
  <2>1. k \in Relaid(from, to)
    BY <1>1, <1>2 DEF Relaid
  <2>2. to.entries[k].migration # None
    BY <2>1 DEF KeysCarried
  <2> QED BY <1>1, <2>2 DEF DeclaredMigrations
<1> QED BY <1>1, <1>2 DEF KeysCarried

(* A new release keeps or migrates the keys of all before it. *)
LEMMA KeysStep == TypeInv /\ KeysKeptOrMigrated /\ [Next]_vars => KeysKeptOrMigrated'
<1> SUFFICES ASSUME TypeInv, KeysKeptOrMigrated, [Next]_vars PROVE KeysKeptOrMigrated'
  OBVIOUS
<1>1. CASE releases' = releases
  <2>1. \A i \in DOMAIN releases : \A j \in Later(i) :
          \A k \in DOMAIN SchemaOf(i).entries : KeyKept(i, j, k)
    BY DEF KeysKeptOrMigrated, KeyKept, MigratedIn
  <2>2. \A i, j, k : KeyKept(i, j, k)' <=> KeyKept(i, j, k)
    BY <1>1 DEF KeyKept, MigratedIn, SchemaOf, ArtifactOf
  <2>3. \A i \in DOMAIN releases' : \A j \in Later(i)' :
          \A k \in DOMAIN SchemaOf(i)'.entries : KeyKept(i, j, k)'
    BY <1>1, <2>1, <2>2 DEF Later, SchemaOf
  <2> QED BY <2>3 DEF KeysKeptOrMigrated, KeyKept, MigratedIn
<1>2. ASSUME NEW new \in Releases, Grows(new), NEW i \in DOMAIN releases', NEW j \in Later(i)',
             NEW k \in DOMAIN releases'[i].schema.entries
      PROVE  KeyKept(i, j, k)'
  <2> DEFINE n == Len(releases)
             old == releases[n]
  <2>1. /\ i \in DOMAIN releases /\ releases'[i] = releases[i]
        /\ k \in DOMAIN releases[i].schema.entries
    BY <1>2, PairOf
  <2>2. \A l \in Later(i) : KeyKept(i, l, k)
    BY <2>1 DEF KeysKeptOrMigrated, KeyKept, MigratedIn, SchemaOf
  <2>3. ASSUME NEW l \in Later(i) PROVE KeyKept(i, l, k)' /\ releases'[l] = releases[l]
    <3>1. /\ releases'[l] = releases[l]
          /\ \A m \in i + 1 .. l : releases'[m] = releases[m]
      BY <1>2, <2>1 DEF Grows, Later, TypeInv
    <3>2. \A m \in i + 1 .. l : MigratedIn(m, k)' = MigratedIn(m, k)
      BY <3>1 DEF MigratedIn, SchemaOf, ArtifactOf
    <3> QED BY <2>1, <2>2, <3>1, <3>2 DEF KeyKept, SchemaOf
  <2>4. CASE j = n + 1 /\ releases'[j] = new
    <3>1. KeysCarried(old.schema, new.schema, new.artifact)
      BY <1>2 DEF Grows, Accepted
    <3>2. i = n \/ n \in Later(i)
      BY <1>2, <2>4, PairOf DEF Later, TypeInv
    <3>3. /\ k \in DOMAIN old.schema.entries
          /\ releases[i].schema.entries[k].layout # old.schema.entries[k].layout =>
               \E m \in i + 1 .. n : MigratedIn(m, k)'
      BY <2>1, <2>3, <3>2 DEF KeyKept, SchemaOf
    <3>4. /\ k \in DOMAIN new.schema.entries
          /\ old.schema.entries[k].layout # new.schema.entries[k].layout => MigratedIn(j, k)'
      <4>1. /\ SchemaOf(j)' = new.schema /\ ArtifactOf(j)' = new.artifact
        BY <2>4 DEF SchemaOf, ArtifactOf
      <4> QED BY <3>1, <3>3, <4>1, KeyCarried DEF MigratedIn
    <3>5. /\ i + 1 .. n \subseteq i + 1 .. j /\ j \in i + 1 .. j
      BY <2>1, <2>4 DEF TypeInv
    <3> QED BY <2>1, <2>4, <3>3, <3>4, <3>5 DEF KeyKept, SchemaOf
  <2> QED BY <1>2, <2>3, <2>4, PairOf
<1> QED BY <1>1, <1>2, ChainStep DEF KeysKeptOrMigrated, KeyKept, MigratedIn, SchemaOf

(* A declared storage key is never dropped, and its layout changes only in  *)
(* a release that declares a migration for it whose entrypoint it exports   *)
(* (check_storage), under every policy.  Both declarations are supplied. *)
THEOREM KeysNeverLost == Spec => []KeysKeptOrMigrated
<1>1. Init => TypeInv /\ KeysKeptOrMigrated
  <2>1. Init => \A i \in DOMAIN releases : Later(i) = {}
    BY DEF Init, Later
  <2> QED BY <2>1, InitTypes DEF KeysKeptOrMigrated
<1>2. TypeInv /\ KeysKeptOrMigrated /\ [Next]_vars => (TypeInv /\ KeysKeptOrMigrated)'
  BY TypesStep, KeysStep
<1> QED BY <1>1, <1>2, PTL DEF Spec

----------------------------------------------------------------------------
(* The network.                                                             *)

(* What the host provides at one protocol it provides at every later one. *)
LEMMA HostKeeps ==
  ASSUME NEW artifact, artifact.env_protocol \in Nat, NEW p \in Nat, NEW q \in Nat, p <= q,
         HostProvides(artifact, p)
  PROVE  HostProvides(artifact, q)
BY ValidatorAssumption DEF HostProvides

(* What an accepted release keeps, whatever it was decided on; and, if it   *)
(* was decided on a protocol the network has, what the host still provides. *)
LEMMA DecidedRuns ==
  ASSUME TypeInv, Decided, NEW i \in DOMAIN releases, i > 1
  PROVE  /\ KnownProtocol(i) => HostProvides(ArtifactOf(i), protocol) /\ protocol # 0
         /\ releases[i].context.source = "live" =>
              KnownProtocol(i) /\ releases[i].context.missing = {}
         /\ ~ArtifactOf(i).pre_release
         /\ SparseReached(ArtifactOf(i))
         /\ Replaceable(ArtifactOf(i))
         /\ Protected(ArtifactOf(i - 1), ArtifactOf(i), Policy)
<1>1. i \in 2 .. Len(releases) /\ releases[i] \in Releases
  BY DEF TypeInv
<1> DEFINE context == releases[i].context
<1>2. /\ Accepted(releases[i - 1], releases[i])
      /\ context.source = "live" => context.protocol <= protocol
  BY <1>1 DEF Decided
<1>3. context.protocol \in Nat /\ ArtifactOf(i).env_protocol \in Nat /\ protocol \in Nat
  BY <1>1, ReleaseFields DEF ArtifactOf, TypeInv
<1>4. ASSUME KnownProtocol(i) PROVE HostProvides(ArtifactOf(i), protocol) /\ protocol # 0
  <2>1. context.protocol # 0 /\ context.protocol <= protocol
    BY <1>3, <1>4 DEF KnownProtocol
  <2>2. HostProvides(ArtifactOf(i), context.protocol)
    BY <1>2, <2>1 DEF Accepted, ArtifactOf
  <2> QED BY <1>3, <2>1, <2>2, HostKeeps
<1>5. context.source = "live" => KnownProtocol(i) /\ context.missing = {}
  BY <1>2, <1>3 DEF Accepted, KnownProtocol
<1>6. /\ ~ArtifactOf(i).pre_release /\ SparseReached(ArtifactOf(i))
      /\ Replaceable(ArtifactOf(i)) /\ Protected(ArtifactOf(i - 1), ArtifactOf(i), Policy)
  BY <1>2 DEF Accepted, ArtifactOf
<1> QED BY <1>4, <1>5, <1>6

(* Whatever the network upgraded to since the decision, a release that was  *)
(* decided on a protocol the network has finds the protocol and host        *)
(* functions it needs, and every release can be replaced                    *)
(* (check_environment_compatibility, check_cap_0086, check_upgrade_path).   *)
THEOREM DeployedReleasesRun ==
  ASSUME "require_upgrade_function" \in Policy.on
  PROVE  Spec => []DeployedReleaseRuns
<1>1. TypeInv /\ Decided => DeployedReleaseRuns
  BY DecidedRuns DEF DeployedReleaseRuns, Replaceable
<1> QED BY <1>1, AlwaysDecided, PTL

(* A re-check of an accepted release at a later protocol finds no error. *)
LEMMA SafeAgain ==
  ASSUME NEW source, NEW target, NEW p \in Nat, p # 0,
         target.env_protocol \in Nat, ~target.pre_release,
         HostProvides(target, p), SparseReached(target), Protected(source, target, Policy)
  PROVE  LET context == LiveContext(p, {}) IN
         Safe(CheckProtocolContext(context)
                \cup CheckEnvironmentCompatibility(target, context)
                \cup CheckCap0086(target, context)
                \cup CompareInterfaces(source, target, Policy, context))
<1> DEFINE context == LiveContext(p, {})
<1>1. context.source = "live" /\ context.protocol = p /\ context.missing = {}
  BY DEF LiveContext
<1> HIDE DEF context
<1>2. ASSUME NEW code PROVE Safe({}) /\ Safe({Info(code)}) /\ Safe({Warning(code)})
  BY DEF Safe, Info, Warning
<1>3. ASSUME NEW condition, NEW finding, ~condition \/ Safe({finding})
      PROVE  Safe(When(condition, finding))
  BY <1>2, <1>3 DEF When
<1>4. Safe(CheckProtocolContext(context))
  <2>1. CheckProtocolContext(context) = {Info("NET005")}
    BY <1>1 DEF CheckProtocolContext, IsComplete
  <2> QED BY <1>2, <2>1
<1>5. Safe(CheckEnvironmentCompatibility(target, context))
  <2>1. ~target.pre_release /\ ~(p # 0 /\ p < target.env_protocol)
    BY DEF HostProvides
  <2>2. /\ Safe(When(target.pre_release, Error("ENV001")))
        /\ Safe(When(p # 0 /\ p < target.env_protocol, Error("ENV002")))
    BY <2>1 DEF When, Safe
  <2> QED BY <1>1, <2>2 DEF CheckEnvironmentCompatibility, Safe
<1>6. Safe(CheckCap0086(target, context))
  <2> DEFINE reads == SparseRead \in target.imports
             writes == SparseWrite \in target.imports
             known == context.protocol # 0
             active == known /\ context.protocol >= SparseProtocol
  <2>1. /\ ~((reads \/ writes) /\ known /\ ~active)
        /\ ~(reads /\ ReachedFrom(target, SparseRead) = {})
        /\ ~(writes /\ ReachedFrom(target, SparseWrite) = {})
    BY <1>1 DEF HostProvides, SparseReached
  <2>2. /\ Safe(When((reads \/ writes) /\ known /\ ~active, Error("CAP001")))
        /\ Safe(When(active /\ reads, Info("CAP002")))
        /\ Safe(When(active /\ ~reads, Warning("CAP003")))
        /\ Safe(When(writes /\ ~reads, Warning("CAP004")))
        /\ Safe(When(reads /\ ReachedFrom(target, SparseRead) = {}, Error("CAP007")))
        /\ Safe(When(writes /\ ReachedFrom(target, SparseWrite) = {}, Error("CAP009")))
        /\ Safe(When((reads \/ writes) /\ DynamicExports(target) # {}, Warning("CAP008")))
    BY <1>2, <1>3, <2>1
  <2> QED BY <2>2 DEF CheckCap0086, Safe
<1>7. Safe(CompareInterfaces(source, target, Policy, context))
  <2>1. /\ ~("deny_removed_functions" \in Policy.on
               /\ Removed(source.functions, target.functions) # {})
        /\ ~("deny_changed_functions" \in Policy.on
               /\ Changed(source.functions, target.functions) # {})
        /\ ~("deny_removed_events" \in Policy.on
               /\ Removed(source.events, target.events) # {})
        /\ ~("deny_changed_events" \in Policy.on
               /\ Changed(source.events, target.events) # {})
        /\ ~("deny_changed_user_types" \in Policy.on
               /\ Removed(source.user_types, target.user_types) # {})
        /\ "deny_changed_user_types" \in Policy.on =>
             Changed(source.user_types, target.user_types) = {}
    BY DEF Protected
  <2>2. CompareInterfaces(source, target, Policy, context) = {}
    BY <2>1 DEF CompareInterfaces, When
  <2> QED BY <1>2, <2>2
<1>8. Safe(CheckProtocolContext(context)
             \cup CheckEnvironmentCompatibility(target, context)
             \cup CheckCap0086(target, context)
             \cup CompareInterfaces(source, target, Policy, context))
  BY <1>4, <1>5, <1>6, <1>7 DEF Safe
<1> QED BY <1>8 DEF context

(* An approval stands when the network upgrades: what was accepted at a     *)
(* protocol the network has, read or rightly asserted, is accepted on a     *)
(* live read of the current one, under every policy. *)
THEOREM ApprovalsOutliveUpgrades == Spec => []ApprovalOutlivesProtocolUpgrade
<1>1. TypeInv /\ Decided => ApprovalOutlivesProtocolUpgrade
  <2> SUFFICES ASSUME TypeInv, Decided, NEW i \in DOMAIN releases, i > 1, KnownProtocol(i)
               PROVE  LET context == LiveContext(protocol, {}) IN
                      Safe(CheckProtocolContext(context)
                             \cup CheckEnvironmentCompatibility(ArtifactOf(i), context)
                             \cup CheckCap0086(ArtifactOf(i), context)
                             \cup CompareInterfaces(ArtifactOf(i - 1), ArtifactOf(i),
                                                    Policy, context))
    BY DEF ApprovalOutlivesProtocolUpgrade
  <2>1. ArtifactOf(i).env_protocol \in Nat
    BY ReleaseFields DEF TypeInv, ArtifactOf
  <2>2. /\ HostProvides(ArtifactOf(i), protocol) /\ ~ArtifactOf(i).pre_release
        /\ SparseReached(ArtifactOf(i))
        /\ Protected(ArtifactOf(i - 1), ArtifactOf(i), Policy)
        /\ protocol # 0 /\ protocol \in Nat
    BY DecidedRuns DEF TypeInv
  <2> QED BY <2>1, <2>2, SafeAgain
<1> QED BY <1>1, AlwaysDecided, PTL

(* Only a live read is labelled FACT. *)
LEMMA FactIsRead ==
  ASSUME NEW context, NEW from, NEW to, NEW declared,
         EvidenceCoverage(context, from, to, declared).target_network_protocol = "FACT"
  PROVE  context.source = "live"
BY DEF EvidenceCoverage, ProtocolLabel

(* An accepted report calls the network protocol a FACT only where it comes *)
(* from a complete live read, and the release then runs on the network at   *)
(* every later moment: build_evidence_coverage looks at fewer fields than   *)
(* check_protocol_context, which stops the report for the others, and the   *)
(* host checks stop a release that asks for more than was read.  An         *)
(* assertion that passes, right or wrong, never carries the label. *)
THEOREM FactsStayBacked == Spec => []FactsAreBacked
<1>1. TypeInv /\ Decided => FactsAreBacked
  <2> SUFFICES ASSUME TypeInv, Decided, NEW i \in DOMAIN releases, i > 1,
                      EvidenceCoverage(releases[i].context, Some(SchemaOf(i)), Some(SchemaOf(i)),
                                       Some(history)).target_network_protocol = "FACT"
               PROVE  /\ releases[i].context.missing = {}
                      /\ HostProvides(ArtifactOf(i), protocol)
    BY DEF FactsAreBacked
  <2>1. releases[i].context.source = "live"
    BY FactIsRead
  <2> QED BY <2>1, DecidedRuns
<1> QED BY <1>1, AlwaysDecided, PTL

----------------------------------------------------------------------------
(* The field history.                                                       *)

LEMMA InitHistory == Init => HistoryInv
BY ReleaseChainAssumption DEF Init, HistoryInv

\* What an edit of a cumulative history keeps.
HistoryKept ==
  /\ \A t, f : Recorded(history, t, f) =>
       /\ Recorded(history, t, f)'
       /\ RecordOf(history, t, f)'.type = RecordOf(history, t, f).type
  /\ \A t, f : Reserved(history, t, f) => Reserved(history, t, f)'

(* An edit of one struct's history that still parses and keeps that struct's *)
(* records and reserved names keeps the history. *)
LEMMA SetKeeps ==
  ASSUME HistoryInv, NEW t, NEW new, SetTypeHistory(t, new), IsTypeHistory(new),
         \A f \in DOMAIN TypeHistory(t).fields :
           f \in DOMAIN new.fields /\ new.fields[f].type = TypeHistory(t).fields[f].type,
         TypeHistory(t).reserved \subseteq new.reserved
  PROVE  HistoryInv' /\ HistoryKept
<1> DEFINE types == [n \in DOMAIN history.types \cup {t} |->
                       IF n = t THEN new ELSE history.types[n]]
<1>1. history' = [history EXCEPT !.types = types]
  BY DEF SetTypeHistory
<1>2. history'.types = types
  <2> HIDE DEF types
  <2> QED BY <1>1 DEF HistoryInv
<1>3. /\ DOMAIN types = DOMAIN history.types \cup {t}
      /\ types[t] = new
      /\ \A n \in DOMAIN history.types : n # t => types[n] = history.types[n]
  OBVIOUS
<1>4. history' = [supported |-> history'.supported, complete |-> history'.complete,
                  types |-> history'.types]
  <2> HIDE DEF types
  <2> QED BY <1>1 DEF HistoryInv
<1> HIDE DEF types
<1>5. HistoryInv'
  BY <1>2, <1>3, <1>4 DEF HistoryInv
<1>6. t \in DOMAIN history.types => TypeHistory(t) = history.types[t]
  BY DEF TypeHistory
<1>7. HistoryKept
  BY <1>2, <1>3, <1>6 DEF HistoryKept, Recorded, RecordOf, Reserved
<1> QED BY <1>5, <1>7

(* Recording, retiring and reserving keep what is on record. *)
LEMMA EditKeeps ==
  ASSUME HistoryInv, EditHistory
  PROVE  HistoryInv' /\ HistoryKept
<1> PICK t \in HistoryTypes, f \in HistoryFields :
      \/ \E type \in FieldTypes, version \in Versions : RecordField(t, f, type, version)
      \/ \E version \in Versions : RetireField(t, f, version)
      \/ ReserveField(t, f)
  BY DEF EditHistory
<1> DEFINE old == TypeHistory(t)
           fields == old.fields
<1>1. IsTypeHistory(old)
  BY DEF TypeHistory, EmptyTypeHistory, IsTypeHistory, HistoryInv
<1>2. /\ old = [fields |-> fields, reserved |-> old.reserved]
      /\ fields = [g \in DOMAIN fields |-> fields[g]]
      /\ \A g \in DOMAIN fields : IsRecord(fields[g])
  BY <1>1 DEF IsTypeHistory
<1>3. t \in DOMAIN history.types => old = history.types[t]
  BY DEF TypeHistory
<1>4. ASSUME NEW type \in FieldTypes, NEW version \in Versions,
             RecordField(t, f, type, version)
      PROVE  HistoryInv' /\ HistoryKept
  <2> DEFINE record == [type |-> type, first_seen |-> version, retired_in |-> None]
             added == [g \in DOMAIN fields \cup {f} |-> IF g = f THEN record ELSE fields[g]]
             new == [old EXCEPT !.fields = added]
  <2>1. f \notin DOMAIN fields
    BY <1>3, <1>4 DEF RecordField, Recorded, TypeHistory, EmptyTypeHistory
  <2>2. SetTypeHistory(t, new)
    BY <1>4 DEF RecordField
  <2>3. IsRecord(record)
    BY DEF IsRecord
  <2>4. /\ DOMAIN added = DOMAIN fields \cup {f} /\ added[f] = record
        /\ \A g \in DOMAIN fields : added[g] = fields[g]
        /\ added = [g \in DOMAIN added |-> added[g]]
    BY <2>1
  <2> HIDE DEF old, fields, record, added
  <2>5. new = [fields |-> added, reserved |-> old.reserved]
    BY <1>2
  <2>6. IsTypeHistory(new)
    BY <1>2, <2>3, <2>4, <2>5 DEF IsTypeHistory
  <2> QED BY <2>2, <2>4, <2>5, <2>6, SetKeeps DEF old, fields
<1>5. ASSUME NEW version \in Versions, RetireField(t, f, version)
      PROVE  HistoryInv' /\ HistoryKept
  <2> DEFINE record == [fields[f] EXCEPT !.retired_in = Some(version)]
             retired == [fields EXCEPT ![f] = record]
             new == [old EXCEPT !.fields = retired]
  <2>1. f \in DOMAIN fields
    BY <1>3, <1>5 DEF RetireField, Recorded
  <2>2. SetTypeHistory(t, new)
    BY <1>5 DEF RetireField
  <2>3. IsRecord(record) /\ record.type = fields[f].type
    BY <1>2, <2>1 DEF IsRecord
  <2>4. /\ DOMAIN retired = DOMAIN fields /\ retired[f] = record
        /\ \A g \in DOMAIN fields : g # f => retired[g] = fields[g]
        /\ retired = [g \in DOMAIN retired |-> retired[g]]
    <3> HIDE DEF record
    <3> QED BY <1>2, <2>1
  <2> HIDE DEF old, fields, record, retired
  <2>5. new = [fields |-> retired, reserved |-> old.reserved]
    BY <1>2
  <2>6. IsTypeHistory(new)
    BY <1>2, <2>3, <2>4, <2>5 DEF IsTypeHistory
  <2> QED BY <2>2, <2>3, <2>4, <2>5, <2>6, SetKeeps DEF old, fields
<1>6. ASSUME ReserveField(t, f) PROVE HistoryInv' /\ HistoryKept
  <2> DEFINE new == [old EXCEPT !.reserved = old.reserved \cup {f}]
  <2>1. SetTypeHistory(t, new)
    BY <1>6 DEF ReserveField
  <2> HIDE DEF old
  <2>2. new = [fields |-> old.fields, reserved |-> old.reserved \cup {f}]
    BY <1>1 DEF IsTypeHistory
  <2>3. IsTypeHistory(new)
    BY <1>1, <2>2 DEF IsTypeHistory
  <2> QED BY <2>1, <2>2, <2>3, SetKeeps DEF old
<1> QED BY <1>4, <1>5, <1>6

(* The history stays readable, and its records only grow. *)
LEMMA HistoryStep == HistoryInv /\ [Next]_vars => HistoryInv' /\ HistoryKept
<1> SUFFICES ASSUME HistoryInv, [Next]_vars PROVE HistoryInv' /\ HistoryKept
  OBVIOUS
<1>1. CASE EditHistory
  BY <1>1, EditKeeps
<1>2. CASE ~EditHistory
  <2>1. history' = history
    BY <1>2 DEF Next, Publish, ReadNetwork, UpgradeNetwork, vars
  <2> QED BY <2>1 DEF HistoryInv, HistoryKept, Recorded, RecordOf, Reserved
<1> QED BY <1>1, <1>2

\* Once a release was decided on, the fields of every release are on record
\* with their types, and every removed name is reserved.
FieldsRecorded ==
  Len(releases) > 1 =>
    \A i \in DOMAIN releases : \A t \in DOMAIN StructFields(ArtifactOf(i)) :
      \A f \in Fields(i, t) : RecordedAs(ArtifactOf(i), history, t, f)
RemovedReserved ==
  \A i \in DOMAIN releases : \A j \in Later(i), t \in DOMAIN StructFields(ArtifactOf(i)) :
    \A f \in Fields(i, t) \ Fields(j, t) : Reserved(history, t, f)
FieldInv == TypeInv /\ HistoryInv /\ FieldsRecorded /\ RemovedReserved

(* The fields of every release stay on record. *)
LEMMA RecordedStep == FieldInv /\ [Next]_vars => FieldsRecorded'
<1> SUFFICES ASSUME FieldInv, [Next]_vars, Len(releases') > 1, NEW i \in DOMAIN releases',
                    NEW t, NEW f \in FieldsOf(releases'[i].artifact, t)
             PROVE  RecordedAs(releases'[i].artifact, history', t, f)
  BY DEF FieldsRecorded, ArtifactOf, Fields
<1> USE DEF FieldInv
<1>1. HistoryKept
  BY HistoryStep
<1>2. ASSUME NEW artifact, RecordedAs(artifact, history, t, f)
      PROVE  RecordedAs(artifact, history', t, f)
  BY <1>1, <1>2 DEF HistoryKept, RecordedAs, Recorded, RecordOf
<1>3. t \in DOMAIN StructFields(releases'[i].artifact)
  BY DEF FieldsOf
<1>4. CASE releases' = releases
  <2>1. RecordedAs(releases[i].artifact, history, t, f)
    BY <1>3, <1>4 DEF FieldsRecorded, ArtifactOf, Fields
  <2> QED BY <1>2, <1>4, <2>1
<1>5. ASSUME NEW new \in Releases, Grows(new)
      PROVE  RecordedAs(releases'[i].artifact, history, t, f)
  <2> DEFINE n == Len(releases)
  <2>1. CASE i = n + 1
    BY <1>5, <2>1 DEF Grows, HistoryAllows
  <2>2. CASE i = n
    <3>1. releases'[i] = releases[n]
      BY <1>5, <2>2 DEF Grows, TypeInv
    <3> QED BY <1>5, <3>1 DEF Grows, HistoryAllows
  <2>3. CASE i \in 1 .. n - 1
    <3>1. releases'[i] = releases[i] /\ i \in DOMAIN releases /\ n > 1
      BY <1>5, <2>3 DEF Grows, TypeInv
    <3> QED BY <1>3, <3>1 DEF FieldsRecorded, ArtifactOf, Fields
  <2>4. i \in 1 .. n + 1 /\ n \in Nat
    BY <1>5 DEF Grows, TypeInv
  <2> HIDE DEF n
  <2> QED BY <2>1, <2>2, <2>3, <2>4
<1> QED BY <1>2, <1>4, <1>5, ChainStep

(* Fields that a later release dropped stay reserved. *)
LEMMA ReservedStep == FieldInv /\ [Next]_vars => RemovedReserved'
<1> SUFFICES ASSUME FieldInv, [Next]_vars, NEW i \in DOMAIN releases', NEW j \in Later(i)',
                    NEW t, NEW f \in FieldsOf(releases'[i].artifact, t),
                    f \notin FieldsOf(releases'[j].artifact, t)
             PROVE  Reserved(history', t, f)
  BY DEF RemovedReserved, ArtifactOf, Fields
<1> USE DEF FieldInv
<1>1. HistoryKept
  BY HistoryStep
<1>2. Reserved(history, t, f) => Reserved(history', t, f)
  BY <1>1 DEF HistoryKept, Reserved
<1>3. t \in DOMAIN StructFields(releases'[i].artifact)
  BY DEF FieldsOf
<1>4. CASE releases' = releases
  BY <1>2, <1>3, <1>4 DEF RemovedReserved, ArtifactOf, Fields, Later
<1>5. ASSUME NEW new \in Releases, Grows(new)
      PROVE  Reserved(history, t, f)
  <2> DEFINE n == Len(releases)
  <2>1. i \in DOMAIN releases /\ releases'[i] = releases[i]
    BY <1>5, PairOf
  <2>2. CASE j \in Later(i) /\ releases'[j] = releases[j]
    BY <1>3, <2>1, <2>2 DEF RemovedReserved, ArtifactOf, Fields
  <2>3. CASE releases'[j] = new
    <3>1. i = n \/ n \in Later(i)
      BY <1>5, <2>3, PairOf DEF Later, TypeInv
    <3>2. CASE f \in FieldsOf(releases[n].artifact, t)
      BY <1>5, <2>3, <3>2 DEF Grows, HistoryAllows
    <3>3. CASE f \notin FieldsOf(releases[n].artifact, t)
      <4>1. n \in Later(i)
        BY <2>1, <3>1, <3>3
      <4> QED BY <1>3, <2>1, <3>3, <4>1 DEF RemovedReserved, ArtifactOf, Fields
    <3> QED BY <3>2, <3>3
  <2> QED BY <1>5, <2>2, <2>3, PairOf
<1> QED BY <1>2, <1>4, <1>5, ChainStep

(* Releases and history fit together at every moment. *)
LEMMA AlwaysFields == Spec => []FieldInv
<1>1. Init => FieldInv
  <2> SUFFICES ASSUME Init PROVE FieldInv
    OBVIOUS
  <2>1. Len(releases) = 1 /\ \A i \in DOMAIN releases : Later(i) = {}
    BY DEF Init, Later
  <2>2. FieldsRecorded
    BY <2>1 DEF FieldsRecorded
  <2>3. RemovedReserved
    BY <2>1 DEF RemovedReserved
  <2> QED BY <2>2, <2>3, InitTypes, InitHistory DEF FieldInv
<1>2. FieldInv /\ [Next]_vars => FieldInv'
  BY TypesStep, HistoryStep, RecordedStep, ReservedStep DEF FieldInv
<1> QED BY <1>1, <1>2, PTL DEF Spec

(* Through a cumulative history the check of neighbours reaches the whole   *)
(* chain: a field that comes back after any number of releases has its old  *)
(* type (validate_schema_history), under every policy.  The history is   *)
(* supplied with every check. *)
THEOREM TypesNeverConfused == Spec => []NoTypeConfusion
<1>1. FieldInv => NoTypeConfusion
  <2> SUFFICES ASSUME FieldInv, NEW i \in DOMAIN releases, NEW j \in Later(i), NEW t,
                      NEW f \in Fields(i, t) \cap Fields(j, t)
               PROVE  StructFields(ArtifactOf(i))[t][f] = StructFields(ArtifactOf(j))[t][f]
    BY DEF NoTypeConfusion
  <2>1. j \in DOMAIN releases /\ Len(releases) > 1
    BY DEF FieldInv, TypeInv, Later
  <2>2. t \in DOMAIN StructFields(ArtifactOf(i)) /\ t \in DOMAIN StructFields(ArtifactOf(j))
    BY DEF Fields, FieldsOf
  <2>3. RecordedAs(ArtifactOf(i), history, t, f) /\ RecordedAs(ArtifactOf(j), history, t, f)
    BY <2>1, <2>2 DEF FieldInv, FieldsRecorded
  <2> QED BY <2>3 DEF RecordedAs
<1> QED BY <1>1, AlwaysFields, PTL

(* A new release uses no reserved name, so no removed field comes back. *)
LEMMA NoReservedInUse ==
  TypeInv /\ HistoryInv /\ RemovedReserved /\ RemovedFieldsStayGone /\ [Next]_vars
    => RemovedFieldsStayGone'
<1> SUFFICES ASSUME TypeInv, RemovedReserved, RemovedFieldsStayGone, [Next]_vars
             PROVE  RemovedFieldsStayGone'
  OBVIOUS
<1>0. SUFFICES ASSUME NEW i \in DOMAIN releases', NEW j \in Later(i)', NEW k \in Later(j)',
                      NEW t \in HistoryTypes, NEW f \in FieldsOf(releases'[i].artifact, t),
                      f \in FieldsOf(releases'[k].artifact, t)
               PROVE  f \in FieldsOf(releases'[j].artifact, t)
  BY DEF RemovedFieldsStayGone, Fields, ArtifactOf
<1>1. CASE releases' = releases
  BY <1>0, <1>1 DEF RemovedFieldsStayGone, Fields, ArtifactOf, Later
<1>2. ASSUME NEW new \in Releases, Grows(new)
      PROVE  f \in FieldsOf(releases'[j].artifact, t)
  <2> DEFINE n == Len(releases)
  <2>1. j \in DOMAIN releases' /\ k \in Later(i)'
    BY <1>2 DEF Grows, TypeInv, Later
  <2>2. /\ i \in DOMAIN releases /\ releases'[i] = releases[i]
        /\ j \in DOMAIN releases /\ releases'[j] = releases[j]
        /\ j \in Later(i)
    <3>1. i \in DOMAIN releases /\ releases'[i] = releases[i]
      BY <1>2, PairOf
    <3>2. j \in DOMAIN releases /\ releases'[j] = releases[j]
      BY <1>2, <2>1, PairOf
    <3> QED BY <3>1, <3>2 DEF Later, TypeInv
  <2>3. CASE k \in Later(j) /\ releases'[k] = releases[k]
    BY <1>0, <2>2, <2>3 DEF RemovedFieldsStayGone, Fields, ArtifactOf
  <2>4. CASE releases'[k] = new
    <3>1. ~Reserved(history, t, f)
      BY <1>0, <1>2, <2>4 DEF Grows, HistoryAllows
    <3>2. t \in DOMAIN StructFields(releases[i].artifact)
      BY <2>2 DEF FieldsOf
    <3> QED BY <2>2, <3>1, <3>2 DEF RemovedReserved, Fields, ArtifactOf
  <2> QED BY <1>2, <2>1, <2>3, <2>4, PairOf
<1> QED BY <1>1, <1>2, ChainStep

(* A removed field stays gone: its name is reserved from then on, and a     *)
(* release that uses a reserved name is stopped (validate_schema_history),  *)
(* under every policy.  The history is supplied with every check. *)
THEOREM RemovedFieldsNeverReturn == Spec => []RemovedFieldsStayGone
<1>1. Init => RemovedFieldsStayGone
  <2>1. Init => \A i \in DOMAIN releases : Later(i) = {}
    BY DEF Init, Later
  <2> QED BY <2>1 DEF RemovedFieldsStayGone
<1>2. FieldInv /\ RemovedFieldsStayGone /\ [Next]_vars => RemovedFieldsStayGone'
  BY NoReservedInUse DEF FieldInv
<1> QED BY <1>1, <1>2, AlwaysFields, PTL DEF Spec
=============================================================================
