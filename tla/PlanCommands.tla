---------------------------- MODULE PlanCommands ----------------------------
(***************************************************************************)
(* The `plan` and `verify-plan` commands of soroban-upgrades-cli as         *)
(* processes that share a release workspace and a live network.             *)
(*                                                                         *)
(* A command reads its evidence piece by piece: the network once, every     *)
(* input file once, the deployed executable once.  Files, network and       *)
(* contract may change between any two reads, several commands may run at   *)
(* the same time, and each may fail or be killed between any two steps.     *)
(*                                                                         *)
(* A file content stands for the parsed file and its SHA-256, an executable *)
(* for its WASM content.  What create_plan_with_paths adds to the           *)
(* validation report (steps, migration, identity) is a function of the      *)
(* report and the fixed command line, so a plan is its report, status and   *)
(* digest here.                                                             *)
(***************************************************************************)
EXTENDS Naturals, Sequences, FiniteSets

CONSTANTS
  Planners,      \* runs of `plan`; all write the same --out file
  Verifiers,     \* runs of `verify-plan` on that file
  Contents,      \* contents of input files and executables
  Editable,      \* the input files that developers edit
  Networks,      \* networks the Stellar CLI alias may stand for
  MaxProtocol,   \* bound on protocol versions
  SafeEvidence,  \* [files, protocol] for which validate_with_history is safe
  MaxEvents,     \* bound on changes of the environment, by runs of `plan` started
  Missing        \* what is not there: a part of a file, a network identity

\* The order in which load_report, and the checks of verify-plan, read files.
LoadOrder == <<"source_wasm", "target_wasm", "source_schema", "target_schema",
               "policy", "schema_history">>
VerifyOrder == <<"source_wasm", "target_wasm", "source_schema", "target_schema",
                 "schema_history", "policy">>
Inputs == {LoadOrder[i] : i \in DOMAIN LoadOrder}
Protocols == 1 .. MaxProtocol

ASSUME PlanCommandsAssumption ==
  /\ Editable \subseteq Inputs
  /\ MaxProtocol \in Nat \ {0}
  /\ MaxEvents \in [0 .. Cardinality(Planners) -> Nat]
  /\ SafeEvidence \subseteq [files : [Inputs -> Contents], protocol : Protocols]

VARIABLES
  files,     \* input file -> content
  alias,     \* the network the alias stands for
  protocol,  \* network -> active protocol
  deployed,  \* network -> executable of the contract
  events,    \* environment changes so far
  disk,      \* the --out file: written in two parts, each possibly missing
  planner,   \* state of each `plan` run
  verifier,  \* state of each `verify-plan` run
  created    \* plans that some run created (history variable)

environment == <<files, alias, protocol, deployed, events>>
vars == <<environment, disk, planner, verifier, created>>

Present(head, tail) == [exists |-> TRUE, head |-> head, tail |-> tail]
Absent == [exists |-> FALSE, head |-> Missing, tail |-> Missing]

\* Evidence of a network read, or of --protocol-version.  (Names ending in
\* _Slip are mistaken variants of the definition after them, see the README.)
Live_Slip == [source |-> "live", network |-> Missing, protocol |-> protocol[alias]]
Live == [source |-> "live", network |-> alias, protocol |-> protocol[alias]]
Offline(version) == [source |-> "offline", network |-> Missing, protocol |-> version]

Status(context) == IF context.source = "live" THEN "review_ready" ELSE "offline_draft"

IsSafe(validation) ==
  [files |-> validation.files, protocol |-> validation.context.protocol] \in SafeEvidence

\* calculate_plan_sha256 covers every field but planSha256 itself.
Digest(status, validation) == <<status, validation>>
CreatePlan(validation) ==
  LET status == Status(validation.context)
  IN  [plan_sha256 |-> Digest(status, validation), status |-> status, validation |-> validation]

----------------------------------------------------------------------------
(* plan: resolve the context, load and validate, fetch the contract, write. *)

Started == Cardinality({p \in Planners : planner[p].pc # "idle"})
SetPlanner(p, state) == planner' = [planner EXCEPT ![p] = state]

StartPlan(p, context, force) ==
  /\ planner[p].pc = "idle" /\ events <= MaxEvents[Started + 1]
  /\ SetPlanner(p, [pc |-> "load", force |-> force,
                    validation |-> [files |-> [f \in {} |-> Missing], context |-> context]])
  /\ UNCHANGED <<environment, disk, verifier, created>>

LoadInput(p) ==
  LET loaded == planner[p].validation.files
      next == Cardinality(DOMAIN loaded) + 1
  IN  /\ planner[p].pc = "load" /\ next <= Len(LoadOrder)
      /\ SetPlanner(p, [planner[p] EXCEPT !.validation.files =
           [f \in DOMAIN loaded \cup {LoadOrder[next]} |->
              IF f = LoadOrder[next] THEN files[f] ELSE loaded[f]]])
      /\ UNCHANGED <<environment, disk, verifier, created>>

Loaded(p) == planner[p].pc = "load" /\ DOMAIN planner[p].validation.files = Inputs

Validate(p) ==
  /\ Loaded(p)
  /\ LET context == planner[p].validation.context
         verdict == IF ~IsSafe(planner[p].validation) THEN "blocked"
                    ELSE IF context.source = "live" THEN "fetch" ELSE "open"
     IN  SetPlanner(p, [planner[p] EXCEPT !.pc = verdict])
  /\ UNCHANGED <<environment, disk, verifier, created>>

RunsSource(content) == deployed[alias] = content

\* make_sure_current_contract_matches
FetchContract(p) ==
  /\ planner[p].pc = "fetch"
  /\ SetPlanner(p, [planner[p] EXCEPT !.pc =
       IF RunsSource(planner[p].validation.files["source_wasm"]) THEN "open" ELSE "failed"])
  /\ UNCHANGED <<environment, disk, verifier, created>>

MayOpen_Slip(p) == planner[p].force \/ disk.head = Missing
\* create_new without --force, create and truncate with it.
MayOpen(p) == planner[p].force \/ ~disk.exists

OpenOutput(p) ==
  /\ planner[p].pc = "open"
  /\ created' = created \cup {CreatePlan(planner[p].validation)}
  /\ IF MayOpen(p)
     THEN /\ disk' = Present(Missing, Missing)
          /\ SetPlanner(p, [planner[p] EXCEPT !.pc = "head"])
     ELSE /\ SetPlanner(p, [planner[p] EXCEPT !.pc = "failed"])
          /\ UNCHANGED disk
  /\ UNCHANGED <<environment, verifier>>

\* write_all may take several writes, each at the offset of this file handle.
WriteHead(p) ==
  /\ planner[p].pc = "head"
  /\ LET plan == CreatePlan(planner[p].validation)
     IN  disk' = [disk EXCEPT !.head = [plan_sha256 |-> plan.plan_sha256, status |-> plan.status]]
  /\ SetPlanner(p, [planner[p] EXCEPT !.pc = "tail"])
  /\ UNCHANGED <<environment, verifier, created>>

WriteTail(p) ==
  /\ planner[p].pc = "tail"
  /\ disk' = [disk EXCEPT !.tail = planner[p].validation]
  /\ SetPlanner(p, [planner[p] EXCEPT !.pc = "done"])
  /\ UNCHANGED <<environment, verifier, created>>

Ended == {"idle", "done", "failed", "blocked", "verified"}

\* A read, write or Stellar CLI call fails, or the run is killed.
FailPlan(p) ==
  /\ planner[p].pc \notin Ended
  /\ SetPlanner(p, [planner[p] EXCEPT !.pc = "failed"])
  /\ UNCHANGED <<environment, disk, verifier, created>>

----------------------------------------------------------------------------
(* verify-plan.  `steady` (a history variable) says that the environment    *)
(* did not change since the run began.                                      *)

SetVerifier(v, state) == verifier' = [verifier EXCEPT ![v] = state]
FrameVerify == UNCHANGED <<environment, disk, planner, created>>
Go(v, condition, next) ==
  SetVerifier(v, [verifier[v] EXCEPT !.pc = IF condition THEN next ELSE "failed"])

StartVerify(v, offline) ==
  /\ verifier[v].pc = "idle"
  /\ SetVerifier(v, [pc |-> IF disk.exists THEN "tail" ELSE "failed", offline |-> offline,
                     head |-> disk.head, tail |-> Missing, checked |-> 0, steady |-> TRUE])
  /\ FrameVerify

ReadTail(v) ==
  /\ verifier[v].pc = "tail"
  /\ SetVerifier(v, [verifier[v] EXCEPT !.tail = disk.tail, !.pc = "digest"])
  /\ FrameVerify

Parsed(v) ==
  [plan_sha256 |-> verifier[v].head.plan_sha256, status |-> verifier[v].head.status,
   validation |-> verifier[v].tail]

DigestMatches_Slip(plan) == IsSafe(plan.validation) /\ plan.status = Status(plan.validation.context)
\* verify_plan_digest: the embedded evidence validates as safe again, the rest
\* is what create_plan makes of it, and the digest is right.
DigestMatches(plan) ==
  /\ IsSafe(plan.validation)
  /\ plan.status = CreatePlan(plan.validation).status
  /\ plan.plan_sha256 = Digest(plan.status, plan.validation)

CheckDigest(v) ==
  /\ verifier[v].pc = "digest"
  /\ Go(v, verifier[v].head # Missing /\ verifier[v].tail # Missing /\ DigestMatches(Parsed(v)),
        "files")
  /\ FrameVerify

InputMatches(v, f) == files[f] = verifier[v].tail.files[f]

\* make_sure_plan_artifacts_match, make_sure_plan_declarations_match
CheckInput(v) ==
  LET f == VerifyOrder[verifier[v].checked + 1] IN
  /\ verifier[v].pc = "files" /\ verifier[v].checked < Len(VerifyOrder)
  /\ SetVerifier(v, [verifier[v] EXCEPT !.checked = @ + 1,
                       !.pc = IF InputMatches(v, f) THEN "files" ELSE "failed"])
  /\ FrameVerify

CheckStatus(v) ==
  /\ verifier[v].pc = "files" /\ verifier[v].checked = Len(VerifyOrder)
  /\ IF verifier[v].offline
     THEN Go(v, TRUE, "verified")
     ELSE Go(v, verifier[v].head.status = "review_ready", "network")
  /\ FrameVerify

NetworkMatches_Slip(context) == context.network = alias
NetworkMatches(context) == context.network = alias /\ context.protocol = protocol[alias]

\* make_sure_plan_network_matches
CheckNetwork(v) ==
  /\ verifier[v].pc = "network"
  /\ Go(v, NetworkMatches(verifier[v].tail.context), "contract")
  /\ FrameVerify

CheckContract(v) ==
  /\ verifier[v].pc = "contract"
  /\ Go(v, RunsSource(verifier[v].tail.files["source_wasm"]), "verified")
  /\ FrameVerify

FailVerify(v) ==
  /\ verifier[v].pc \notin Ended
  /\ Go(v, FALSE, "verified")
  /\ FrameVerify

----------------------------------------------------------------------------
(* The environment: developers, the network, other signers.                 *)

Event ==
  /\ events < MaxEvents[Started]
  /\ events' = events + 1
  /\ verifier' = [v \in Verifiers |-> [verifier[v] EXCEPT !.steady = FALSE]]
  /\ UNCHANGED <<disk, planner, created>>

EditFile(f, content) ==
  /\ files[f] # content
  /\ files' = [files EXCEPT ![f] = content]
  /\ Event /\ UNCHANGED <<alias, protocol, deployed>>

UpgradeNetwork(n) ==
  /\ protocol[n] < MaxProtocol
  /\ protocol' = [protocol EXCEPT ![n] = @ + 1]
  /\ Event /\ UNCHANGED <<files, alias, deployed>>

RepointAlias(n) ==
  /\ alias # n
  /\ alias' = n
  /\ Event /\ UNCHANGED <<files, protocol, deployed>>

ReplaceExecutable(n, content) ==
  /\ deployed[n] # content
  /\ deployed' = [deployed EXCEPT ![n] = content]
  /\ Event /\ UNCHANGED <<files, alias, protocol>>

----------------------------------------------------------------------------
NoValidation == [files |-> [f \in {} |-> Missing], context |-> Offline(1)]

Init ==
  /\ files \in [Inputs -> Contents]
  /\ \A f \in Inputs \ Editable : files[f] = CHOOSE c \in Contents : TRUE
  /\ alias \in Networks
  /\ protocol = [n \in Networks |-> 1]
  /\ deployed \in [Networks -> Contents]
  /\ events = 0
  /\ disk = Absent
  /\ planner = [p \in Planners |-> [pc |-> "idle", force |-> FALSE, validation |-> NoValidation]]
  /\ verifier = [v \in Verifiers |-> [pc |-> "idle", offline |-> FALSE, head |-> Missing,
                                       tail |-> Missing, checked |-> 0, steady |-> TRUE]]
  /\ created = {}

PlanStep(p) ==
  \/ \E force \in BOOLEAN : StartPlan(p, Live, force)
  \/ \E force \in BOOLEAN, version \in Protocols : StartPlan(p, Offline(version), force)
  \/ LoadInput(p) \/ Validate(p) \/ FetchContract(p)
  \/ OpenOutput(p) \/ WriteHead(p) \/ WriteTail(p) \/ FailPlan(p)

VerifyStep(v) ==
  \/ \E offline \in BOOLEAN : StartVerify(v, offline)
  \/ ReadTail(v) \/ CheckDigest(v) \/ CheckInput(v)
  \/ CheckStatus(v) \/ CheckNetwork(v) \/ CheckContract(v) \/ FailVerify(v)

EnvironmentStep ==
  \/ \E f \in Editable, content \in Contents : EditFile(f, content)
  \/ \E n \in Networks : UpgradeNetwork(n) \/ RepointAlias(n)
  \/ \E n \in Networks, content \in Contents : ReplaceExecutable(n, content)

Next ==
  \/ \E p \in Planners : PlanStep(p)
  \/ \E v \in Verifiers : VerifyStep(v)
  \/ EnvironmentStep

Spec == Init /\ [][Next]_vars

----------------------------------------------------------------------------
Contexts ==
  {[source |-> "live", network |-> n, protocol |-> k] : n \in Networks, k \in Protocols}
    \cup {Offline(k) : k \in Protocols}
Validations == [files : [Inputs -> Contents], context : Contexts]
Plans == {CreatePlan(validation) : validation \in Validations}
Verified(v) == verifier[v].pc = "verified"

(* Types of the workspace, the network and the two commands. *)
TypeOK ==
  /\ files \in [Inputs -> Contents]
  /\ alias \in Networks
  /\ protocol \in [Networks -> Protocols]
  /\ deployed \in [Networks -> Contents]
  /\ \A p \in Planners :
       DOMAIN planner[p].validation.files \subseteq Inputs
         /\ (planner[p].pc \in {"fetch", "open", "head", "tail", "done"} =>
               planner[p].validation \in Validations)
  /\ disk.tail = Missing \/ disk.tail \in Validations
  /\ created \subseteq Plans

(* A verified plan is one that some planner created as a whole: neither a   *)
(* crash in the middle of a write nor two --force runs that write the same  *)
(* file at once leave bytes that verify-plan accepts under a digest.        *)
VerifiedPlanWhole == \A v \in Verifiers : Verified(v) => Parsed(v) \in created

(* A plan verified online while the environment stood still is current:     *)
(* `plan` on the same workspace would create the same plan again, so the    *)
(* release is still safe on today's network, files and executable.          *)
VerifiedPlanCurrent ==
  \A v \in Verifiers :
    Verified(v) /\ ~verifier[v].offline /\ verifier[v].steady =>
      /\ Parsed(v) = CreatePlan([files |-> files, context |-> Live])
      /\ [files |-> files, protocol |-> protocol[alias]] \in SafeEvidence
      /\ deployed[alias] = files["source_wasm"]

(* Of all runs without --force on one output file at most one ever writes   *)
(* to it, however their checks and opens interleave: `plan` refuses an      *)
(* existing file even when that file is still empty or was left half        *)
(* written by a crash.                                                      *)
Writers == {p \in Planners : planner[p].pc \in {"head", "tail", "done"} /\ ~planner[p].force}
OneWriterWithoutForce == Cardinality(Writers) <= 1
=============================================================================
