---------------------------- MODULE ReleaseChain ----------------------------
(***************************************************************************)
(* A contract over its whole life: releases that each passed the validator  *)
(* against the release before them, while the developers keep the           *)
(* cumulative field history and the network upgrades its protocol.          *)
(*                                                                         *)
(* The validator compares two artifacts at a time.  What it promises about  *)
(* releases further apart follows only from the chain of its decisions and  *)
(* from the history file, which docs/ADOPTION.md asks to keep cumulative:   *)
(* that is the assumption made here, a record is added or retired but never *)
(* rewritten or dropped.                                                    *)
(***************************************************************************)
EXTENDS Validator, Sequences

CONSTANTS
  Policy,           \* the policy of the project, fixed over its life
  Builds,           \* [artifact, schema] pairs a revision may build and commit
  Versions,         \* versions they carry
  HistoryTypes,     \* struct names the history may record
  HistoryFields,    \* field names the history may record
  FieldTypes,       \* types the history may record
  FirstTypes,       \* what the history records when the chain begins
  FirstProtocol, LastProtocol,  \* network protocol at the start, and its bound
  MaxReleases,      \* bound on the length of the chain
  Gaps,             \* sets of fields that a live network read may lack
  Assertions        \* what an operator may pass as --protocol-version (0: nothing)

\* A history that parses: a record per field and a list of reserved names.
IsRecord(record) ==
  record = [type |-> record.type, first_seen |-> record.first_seen,
            retired_in |-> record.retired_in]
IsTypeHistory(type_history) ==
  LET fields == type_history.fields
  IN  /\ type_history = [fields |-> fields, reserved |-> type_history.reserved]
      /\ fields = [f \in DOMAIN fields |-> fields[f]]
      /\ \A f \in DOMAIN fields : IsRecord(fields[f])

ASSUME ReleaseChainAssumption ==
  /\ FirstProtocol \in Nat /\ Assertions \subseteq Nat
  /\ \A build \in Builds :
       /\ build.artifact.version \in Nat /\ build.artifact.env_protocol \in Nat
       /\ build.schema.schema_version \in Nat
  /\ \A t \in DOMAIN FirstTypes : IsTypeHistory(FirstTypes[t])

VARIABLES
  releases,  \* sequence of [artifact, schema, context]: the approved releases,
             \* and the network evidence each was decided on; the last one is
             \* what the next one is compared with
  history,   \* the committed schema history
  protocol,  \* protocol version of the network
  observed   \* protocol in the last live network read

vars == <<releases, history, protocol, observed>>

LastOf(s) == s[Len(s)]
Current == LastOf(releases)

\* resolve_validation_context: a read of the network, the operator's word for
\* its protocol, or neither.
LiveContext(p, missing) == [source |-> "live", protocol |-> p, missing |-> missing]
AssertedContext(p) ==
  [source |-> IF p = 0 THEN "unpinned" ELSE "offline", protocol |-> p, missing |-> LiveFields]
Contexts ==
  {LiveContext(observed, missing) : missing \in Gaps} \cup {AssertedContext(p) : p \in Assertions}

Deployed(build, context) ==
  [artifact |-> build.artifact, schema |-> build.schema, context |-> context]

\* The public-impact search is within its limits (module PublicImpact).
Decision(build, context) ==
  Findings(Current.artifact, build.artifact, Some(Current.schema), Some(build.schema),
           Policy, context, Some(history), FALSE)

----------------------------------------------------------------------------
Publish(build, context) ==
  /\ Len(releases) < MaxReleases
  /\ Safe(Decision(build, context))
  /\ releases' = Append(releases, Deployed(build, context))
  /\ UNCHANGED <<history, protocol, observed>>

EmptyTypeHistory == [fields |-> [f \in {} |-> {}], reserved |-> {}]
TypeHistory(t) ==
  IF t \in DOMAIN history.types THEN history.types[t] ELSE EmptyTypeHistory
SetTypeHistory(t, type_history) ==
  history' = [history EXCEPT !.types =
                [n \in DOMAIN history.types \cup {t} |->
                   IF n = t THEN type_history ELSE history.types[n]]]

RecordField(t, f, type, version) ==
  /\ ~Recorded(history, t, f)
  /\ SetTypeHistory(t, [TypeHistory(t) EXCEPT !.fields =
       [g \in DOMAIN @ \cup {f} |->
          IF g = f THEN [type |-> type, first_seen |-> version, retired_in |-> None] ELSE @[g]]])
  /\ UNCHANGED <<releases, protocol, observed>>

RetireField(t, f, version) ==
  /\ Recorded(history, t, f) /\ ~IsRetired(RecordOf(history, t, f))
  /\ SetTypeHistory(t, [TypeHistory(t) EXCEPT !.fields[f].retired_in = Some(version)])
  /\ UNCHANGED <<releases, protocol, observed>>

ReserveField(t, f) ==
  /\ ~Reserved(history, t, f)
  /\ SetTypeHistory(t, [TypeHistory(t) EXCEPT !.reserved = @ \cup {f}])
  /\ UNCHANGED <<releases, protocol, observed>>

ReadNetwork ==
  /\ observed # protocol
  /\ observed' = protocol
  /\ UNCHANGED <<releases, history, protocol>>

UpgradeNetwork ==
  /\ protocol < LastProtocol
  /\ protocol' = protocol + 1
  /\ UNCHANGED <<releases, history, observed>>

Init ==
  /\ \E build \in Builds :
       /\ build.artifact.env_protocol <= FirstProtocol
       /\ releases = <<Deployed(build, LiveContext(FirstProtocol, {}))>>
  /\ history = [supported |-> TRUE, complete |-> TRUE, types |-> FirstTypes]
  /\ protocol = FirstProtocol
  /\ observed = FirstProtocol

EditHistory ==
  \E t \in HistoryTypes, f \in HistoryFields :
    \/ \E type \in FieldTypes, version \in Versions : RecordField(t, f, type, version)
    \/ \E version \in Versions : RetireField(t, f, version)
    \/ ReserveField(t, f)

Next ==
  \/ \E build \in Builds, context \in Contexts : Publish(build, context)
  \/ EditHistory
  \/ ReadNetwork
  \/ UpgradeNetwork

Spec == Init /\ [][Next]_vars

----------------------------------------------------------------------------
ArtifactOf(i) == releases[i].artifact
SchemaOf(i) == releases[i].schema
Later(i) == i + 1 .. Len(releases)
Fields(i, t) == FieldsOf(ArtifactOf(i), t)

(* A field name of a struct keeps one type over all releases, however far   *)
(* apart: stored or in-flight maps are never read with another meaning,     *)
(* although a policy lets types change and the field may come and go.       *)
NoTypeConfusion ==
  \A i \in DOMAIN releases : \A j \in Later(i), t \in HistoryTypes :
    \A f \in Fields(i, t) \cap Fields(j, t) :
      StructFields(ArtifactOf(i))[t][f] = StructFields(ArtifactOf(j))[t][f]

(* A field that a release removed never returns in a later one. *)
RemovedFieldsStayGone ==
  \A i \in DOMAIN releases : \A j \in Later(i) : \A k \in Later(j), t \in HistoryTypes :
    Fields(i, t) \cap Fields(k, t) \subseteq Fields(j, t)

(* Versions never repeat or decrease along the chain, so history, storage   *)
(* declarations and plans that name a version name one release.             *)
VersionsIncrease ==
  \A i \in DOMAIN releases : \A j \in Later(i) :
    ArtifactOf(i).version < ArtifactOf(j).version

(* Under the default policy every function, event and type of any earlier   *)
(* release is in every later one with the same canonical form.              *)
Extends(before, after) ==
  \A name \in DOMAIN before : name \in DOMAIN after /\ after[name] = before[name]
InterfaceKept ==
  \A i \in DOMAIN releases : \A j \in Later(i) :
    /\ Extends(ArtifactOf(i).functions, ArtifactOf(j).functions)
    /\ Extends(ArtifactOf(i).events, ArtifactOf(j).events)
    /\ Extends(ArtifactOf(i).user_types, ArtifactOf(j).user_types)

\* The network at protocol p has what the artifact asks of it.
HostProvides(artifact, p) ==
  /\ artifact.env_protocol <= p
  /\ {SparseRead, SparseWrite} \cap artifact.imports # {} => p >= SparseProtocol

\* The release was decided on a protocol the network has: it was read, or an
\* operator asserted it and the network has reached it.
KnownProtocol(i) == releases[i].context.protocol \in 1 .. protocol

(* What was approved runs on the network of the moment, and can be replaced: *)
(* although the decision used an older network read, or an assertion the     *)
(* network caught up with later, no release needs a protocol or host         *)
(* function the network lacks.  Each keeps an upgrade path to the host's     *)
(* WASM replacement, even when it was decided on no protocol at all.         *)
DeployedReleaseRuns ==
  \A i \in DOMAIN releases :
    i > 1 =>
      /\ KnownProtocol(i) => HostProvides(ArtifactOf(i), protocol)
      /\ HasFunction(ArtifactOf(i), "upgrade") /\ ReachesUpdate(ArtifactOf(i))

(* An approval given on older network evidence, or on an assertion that came *)
(* true, stays an approval after the network upgrades: re-checking on a live *)
(* read of the current protocol finds no new error.                          *)
ApprovalOutlivesProtocolUpgrade ==
  \A i \in DOMAIN releases :
    i > 1 /\ KnownProtocol(i) =>
      LET context == LiveContext(protocol, {}) target == ArtifactOf(i) IN
      Safe(CheckProtocolContext(context)
             \cup CheckEnvironmentCompatibility(target, context)
             \cup CheckCap0086(target, context)
             \cup CompareInterfaces(ArtifactOf(i - 1), target, Policy, context))

(* The labels of an accepted report claim no more than its evidence.  A      *)
(* report passes, with a warning, on an assertion nobody verified, and the   *)
(* release may then need a protocol the network does not have.  Where the    *)
(* report calls the protocol a FACT, it comes from a complete live read and  *)
(* the release does run, whatever the network upgraded to since: the label   *)
(* (build_evidence_coverage) looks at fewer fields than the check            *)
(* (check_protocol_context), and at none of the host requirements.           *)
FactsAreBacked ==
  \A i \in DOMAIN releases :
    LET context == releases[i].context
        coverage == EvidenceCoverage(context, Some(SchemaOf(i)), Some(SchemaOf(i)), Some(history))
    IN  i > 1 /\ coverage.target_network_protocol = "FACT" =>
          context.missing = {} /\ HostProvides(ArtifactOf(i), protocol)

(* A storage key of any release is still declared by every later one, and a *)
(* key whose layout differs from an earlier release went through a release  *)
(* that declared a migration for it with an exported entrypoint.            *)
KeysKeptOrMigrated ==
  \A i \in DOMAIN releases : \A j \in Later(i) : \A k \in DOMAIN SchemaOf(i).entries :
    /\ k \in DOMAIN SchemaOf(j).entries
    /\ SchemaOf(i).entries[k].layout # SchemaOf(j).entries[k].layout =>
         \E m \in i + 1 .. j :
           LET migration == SchemaOf(m).entries[k].migration IN
             /\ migration # None
             /\ Given(migration).entrypoint # None
             /\ HasFunction(ArtifactOf(m), Given(Given(migration).entrypoint))
=============================================================================
