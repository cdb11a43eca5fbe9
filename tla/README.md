# A TLA+ model of soroban-upgrades

soroban-upgrades decides whether a new WASM build of a Soroban smart contract
may replace the deployed one, and writes a review plan for the replacement.
This directory holds TLA+ modules that model the decision, what it implies for
a whole chain of releases, the commands that make and verify plans, the
carrying out of plans, the example contracts under replacement, the runtime
witness, and the scripts and workflow that release the tool itself;
configurations that check them with TLC; and theorems proved with TLAPS. `core` below is `src/crates/soroban-upgrades-core/src/lib.rs`
and `cli` is `src/crates/soroban-upgrades-cli/src/main.rs`.

## The system

The tool keeps no state between two runs except files. State that lasts
lives in the release workspace (two WASM builds, two storage declarations, a
policy, a cumulative field history, the written plan), on the network (protocol
version, deployed executable, contract storage) and, within one run, in the
worklists of two graph walks.

| Component | State | Operations | Correct when |
|---|---|---|---|
| Static call graph (core 666-787) | worklist, visited bodies, evidence per export | walk each export | evidence equals graph reachability; always ends; dangling indices fail the analysis |
| Public-impact trace (core 1340-1462) | search stack, routes, three limits | search each boundary/changed type, in source and target | reported impacts are real; nothing is missed without `RES001`; `RES001` is justified; work is bounded |
| Validator (core 1046-2371) | none: inputs to findings | `validate_with_history` and the `check_*`, `compare_*`, `validate_*` functions | pairwise decisions imply that a chain of releases keeps interface, field types, storage keys and versions |
| Evidence labels (core `build_evidence_coverage`) | none | derive labels beside the findings | labels agree with the findings |
| Review plan (core 2540-2812) | none | `create_plan_with_paths` | a plan exists only for a safe release that can be upgraded again and migrated |
| Plan verification (core 2814-2986) | none | `verify_plan_digest`, `validate_plan_structure` | only a plan the tool itself would make is accepted |
| `plan` / `verify-plan` (cli 214-539) | what a run has read so far; the output file | read network, files, executable; write the plan | verified means whole and, in a quiet environment, current |
| Carrying out a plan (steps of core 2644-2778) | executable, uploaded builds, storage layouts, position in the plan | one action per plan step; stop, resume, start over, abandon | executable and storage stay in step |
| `validate`, `inspect`, `schema` (cli) | none | print a report, exit status 0, 1 or 2 | status tells accepted, failed, blocked apart |
| Artifact and JSON parsing (core) | none | decode contract specification and strict JSON | refuses duplicates, unknown keys, excess depth |
| Counter examples (`src/examples/counter-*`) | instance storage in one of two layouts, the installed build | calls, lazy and eager migration, replacement, rollback | they implement an abstract counter: no increment lost, repeated or wrapped |
| CAP-0086 examples (`src/examples/cap86-*`) | one stored map, the installed build | deposit, replacement; dense and sparse readers and writers | accepted replacements leave the map readable; no deposit or field is dropped |
| Runtime witness (`src/experiments/cap0086-runtime`) | the next expectation, the verdict | inspect the guest, run six cases on a host | `PASS` and failure are both evidence |
| Scripts (`src/scripts`) | steps passed so far | judge the command by its exit status | a failure is not taken for a verdict |
| Release workflow (`src/.github/workflows/release.yml`) | job results, draft release, uploaded crates and what the registry shows of them | build, draft, smoke-test, publish, announce, re-run | nothing untested or incomplete is public, no partial publication is a dead end |
| Witness script and action (`src/scripts/verify-cap0086-runtime.sh`, `src/action.yml`) | none | build twice and compare; download and run | straight-line shell |

How they interact. The CLI resolves the protocol context (from the network, or
from `--protocol-version`), loads six files one after the other and calls the
validator. The validator calls the call-graph walk while parsing an artifact and
the public-impact trace while comparing two. `plan` feeds the report to
`create_plan_with_paths`, fetches the deployed executable and writes a file;
`verify-plan` reads this file, validates the evidence embedded in it once more
and compares it with the workspace, the network and the contract. The tool never
executes a plan: a signer does, one command at a time, on a ledger that other
signers use too. The examples are the contracts that such plans replace; the
witness executes the map functions that the CAP-0086 checks reason about; the
scripts and the workflow run the tool and believe its exit status.

What is hard to test in this:

- *order of reads*: network, files and executable are read at different moments,
  and each of them may change in between;
- *files written in place*: a crash or a second `--force` run in the middle of
  the plan file;
- *chains*: each release is compared only with the one before it;
- *time between check and use*: the protocol read, and the plan's own first
  step, are older than the upgrade they justify;
- *stopping and starting over* a plan at any step, and two signers at once;
- *mixed layouts*: storage written by one build and read by another, in either
  order, and callers that are replaced earlier or later;
- *partial publication*: jobs that fail after they took effect, a registry that
  shows uploads late, and re-runs;
- *graphs with cycles* in code and in types, and limits that cut a search short.

PROJECT.json lists each of these at the line where it bites, with the properties
that cover it.

## The modules

Definitions carry the names of the code where TLA+ allows it. PROJECT.json maps
every definition to the lines it stands for.

**CallGraph** (`inspect_export_call_evidence`, `collect_export_call_evidence`).
A code section is a function from bodies to lists of called indices; the state
is the worklist (its top at the end), the visited set and the evidence of the
walk. One action per outcome of a pop: an import, a visited body, a new body, an
index past the code section (the analysis fails). The reference definition is
the least set that contains the root and is closed under calls.

**CallGraphProofs**. The theorems about CallGraph.

**PublicImpact** (`trace_public_impacts`, `routes_to_type`). Two artifacts with
arbitrary type graphs over a given list of references; the pairs of boundary and
changed type in any order; for each pair a depth-first search in the source and
one in the target. The three limits are a variable that keeps its initial value,
so that one run covers tight and ample ones. An item on the stack has its type, its route and the types
active on the route, as in the code. The reference definition enumerates chains
of references without a repeated type. `Edges` is a recursive function over the
references: it gives the fields of a type in the order in which the code pushes
them.

**PublicImpactProofs**. The theorems about PublicImpact.

**Validator** (`validate_with_history` and everything it calls but the trace).
One operator per function of the code, from artifacts, declarations, policy,
context and history to a set of findings; a finding is a code and a severity.
`EvidenceCoverage` gives the labels of the report.

**ReleaseChain** is a state machine over Validator: developers publish builds
that pass, edit the history, and read the network while its protocol upgrades.
Each release remembers the context it was decided on: a live read, a protocol that
the operator asserted (`Assertions`), or none. The validator lets the last two pass
with a warning (`NET003`, `NET001`), so a chain may hold a release that the network
does not run yet; it is the baseline of the next check all the same. Reads that lack
a field (`Gaps`) come from callers of the library only; the command's own are complete.

**ReleaseChainProofs**. The theorems about ReleaseChain. Its first part says what the
absence of errors means, check by check (`SafeVersions`, `SafeStorage`,
`SafeInterfaces`, `SafeHistory`, ...); the rest reasons about a decision only through
these lemmas.

**Plan** (`create_plan_with_paths`): `CanPlan` says which reports become a plan,
`Steps` which steps it lists.

**UpgradeRun** extends Plan: signers carry out plans on a contract. Each plan
step is an action; signers may stop, take up, start over or abandon a run.
`raced` and `dropped` are history variables: they record that two runs were ever
under way at once, and that a run past the replacement was abandoned or started
over. Some properties hold only without these, and say so.

**ReviewedUpgrades** is the abstract contract that plans promise: the executable is
replaced only by one approved after it, only over a ledger that it fits and whose keys
the new one declares; what the new one cannot read is then rewritten in one step. It
knows nothing of plans, steps, signers, entrypoints or findings.

**UpgradeRunProofs**. The theorems about UpgradeRun.

**PlanCommands** (`plan`, `verify-plan`): every read of a file, the network or
the contract is a step of its own, the plan file is written in two parts, runs
may fail or be killed between any two steps, and the environment changes under
them. A plan is its report, its status and its digest here. Which evidence is
safe is a constant: the property concerns *when* evidence is read, and Validator
what is done with it.

**PlanCommandsProofs**. The theorems about PlanCommands.

**Counter** is the abstract counter: `count` rises by one with each accepted
increment and never past `MaxCount`, calls answer with its value, the
administrator alone pauses it, and migration and replacement change nothing.

**CounterContract** (counter-v1, counter-v2, counter-unsafe). The storage is a
function from the keys present, and a struct in it a record of exactly the fields
of its type; decoding another layout traps, and a call that traps changes nothing
(`Trap`, possible at any time). `Loads` and `Loaded` are `load_v2`: what it needs
and what it leaves behind. The administrator installs any build at any time.

**CounterContractProofs**. The theorems about CounterContract.

**MapCodec**: what the dense and the sparse map functions of a host do, for every
host that differs where the witness has an expectation; `Claimed` is the host the
witness reports.

**RuntimeWitness** (guest and runner of `cap0086-runtime`). Host and guest are
arbitrary and fixed, the runner's inspection and its six cases are its steps. A
guest may take the shortcuts that the runner's tests try, and one more: make all
its calls and then return what the runner wants to see.

**AccountRollout** (cap86-v1, cap86-v2, cap86-unsafe) runs Validator against a
ledger: a build replaces the installed one when the validator finds it safe and
the network runs it. Its builds are those of the three sources and the ones a
CAP-0086 SDK may make of them: sparse reader, sparse writer, or a sparse reader
that serves another type. The team passes every replacement by the validator; the
entrypoint `upgrade` itself does not check. Policies do not require storage
declarations or history here; these are the subject of ReleaseChain.

**AccountRolloutProofs**. The theorems about AccountRollout, on lemmas about what
the two kinds of readers and writers do to a map (`ConvertsWhen`, `Encoded`).

**ReleaseWorkflow** (`release.yml`). The result of every job, the draft, what the
registry holds and what its two views show of it. A step that fails may have taken
effect. When all jobs have ended, the failed ones with all that need them, or all
jobs, are run again.

**ReleaseWorkflowProofs**. The theorems about ReleaseWorkflow.

**Scripts** (`verify-release.sh`, `showcase.sh`): the validate steps, with the
options each passes, against arbitrary verdicts of the checker.

**MCCallGraph, MCPublicImpact, MCReleaseChain, MCPlanCommands, MCUpgradeRun,
MCAccountRollout** give the constants small values; the other modules need none.

Operators whose name ends in `_Slip` are mistaken variants (an off-by-one, a
dropped check, a swapped operation) of the definition that follows them. No
specification uses them. Put in place of that definition, each one makes TLC
report the property that PROJECT.json names with it: this shows that the property
depends on that line of code.

## What is checked

| Run | Shows | Bounds |
|---|---|---|
| `call_graph` | evidence is exactly reachability; dangling indices, and only they, fail the analysis; the worklist stays linear and the walk ends | 1 import, 2 bodies of up to 2 calls, 1 dangling index, 2 exports: all code sections of this size, so self-calls, mutual recursion, shared and repeated callees |
| `public_impact` | reports sound, incomplete only with `RES001`, `RES001` never raised without cause, work within the limits | 3 mutually recursive types, 4 references; limits 3 steps, depth 1, 1 path, each of which cuts searches short, and 12, 3, 3, which no search reaches |
| `impact_report_limit` | the finding below | same graphs, 1 path |
| `field_history` | over three releases a field keeps one type, a removed field stays gone, versions increase | 2 fields, 2 types, any history records with 3 versions; the struct may vanish, or become an enum in the second version; a policy that allows changed types |
| `release_surface` | functions, events and types of any earlier release stay; optional struct fields are refused with and without a sparse reader; a release decided on a protocol the network has runs on it, and every release can be replaced; approvals outlive a protocol upgrade; the label `FACT` is given to complete live reads only, never to an assertion, which may be wrong; storage keys are kept or migrated | 3 releases, 2 protocols, default policy; reads with and without the RPC version, protocol 2 asserted before and after the network has it, no protocol at all; per version 17 interfaces, one of them (with the migration entrypoint) with 7 declarations, one with 2 |
| `plan_commands` | a plan verified online in a quiet environment is the plan one would make now; only a plan created as a whole verifies; without `--force` one run at most writes | 2 `plan` runs with and without `--force`, one `verify-plan`, 2 networks, 3 protocols; up to 3 changes of files, alias, protocol, executable around one `plan`; a second one starts only when nothing has changed, and nothing changes then |
| `upgrade_run` | plans carried out in turns implement ReviewedUpgrades: the executable replaced is the one reviewed, no key is dropped, one migration makes the ledger fit; a settled contract fits; a migration runs once; the contract can always be upgraded again (in any interleaving) | 9 builds, 2 signers, 3 reviewed plans, calls with right and wrong entrypoints and arguments |
| `counter_contract` | CounterContract implements Counter; a build meets storage it can decode but for v1 after a rollback; the administrator can always install another build | 2 callers, counter up to 7, 3 builds, of which the unsafe one answers 0 where it replaced another; no bound on calls or replacements |
| `runtime_witness` | `PASS` only for the repository's guest, or one that answers instead of reading, and, unless it does so, only for a host with all claimed facts; no failure of the right guest on such a host | 48 hosts, 31 export tables, 5 import lists |
| `account_rollout` | accepted replacements keep the map readable; no deposit and no present field is dropped under any policy; which callers decode which answers | 33 builds, 2 policies, protocols 27 and 28, balances -2 to 3 |
| `release_workflow` | nothing public before the smoke test passed; the CLI after the library; an announced release is complete; a good tag is announced at last | 8 jobs, 2 crates, 2 views, 3 spontaneous failures, 2 attempts to see a package |
| `showcase` | the second finding below | 4 fixture pairs, all verdicts |

Why the bounds are enough. A wrong chain needs three releases: a removal, then a
return. A wrong walk needs a body met twice and an index past it; two bodies give
both. A missed route needs a cycle and a type reached on two ways, which the four
references have. Mixing two plans takes two
writers and nothing else, so nothing else changes in those behaviours; a stale read takes one
change between two reads, and three changes allow a value to come and go. A race
of signers takes two runs, and a third plan lets a later release follow both.
Storage has two layouts and three builds meet them in any order without a bound.
Three failures let a publication fail after each upload and once more; two
attempts let a package be missed and then seen, or missed for good.
The `_Slip` variants show that the bounds let these cases happen.

Fairness. Two runs have a liveness property. In `call_graph` the analysis is one
sequential call that the operating system keeps running, so weak fairness of its
step is what the code has. In `release_workflow` GitHub starts and runs jobs whose
conditions hold (a job that hangs is ended by its `timeout-minutes`, a failure
like any other), uploads and drafts show at last, and an operator repeats a run
that failed; `MaxFaults` bounds spontaneous failures, while failures that follow
from what was published before are not bounded. Under this, `ReleasedAtLast` says
that no partial publication is a dead end. Everything else is a command that may be
killed at any moment or a person who may stop, so nothing must happen; their
properties are safety properties. The public-impact search needs no liveness
property: each pop consumes the step limit (`WorkBounded`).

`CHECK_DEADLOCK FALSE` stands where the modelled world really stops: the chain at
`MaxReleases`, the commands when all have ended, the signers when no plan is left
to review, the runner and the scripts at their end, the workflow after the
announcement, the account when no call succeeds any more. CallGraph, PublicImpact
and CounterContract check for deadlock.

The refinements. `KeepsCounting` is `Abstract!Spec` with one exception. `Abstract` is Counter with
`count` the field of the stored configuration in either layout (0 where there is no
configuration), `paused` the field where the layout has it and FALSE where it has
not, and `answer` itself. Replacement and migration map to steps of `Manage`, which
leave `count` and `paused` alone. The exception is `Misplaced`: the unsafe build in
place of another one looks for `Count`, finds none and answers 0 whatever was counted.
This is the release the checker refuses, and no promise of the counter holds of its
answers; that it leaves the storage alone is still required. The unsafe build
constructed as such has its own `Count` and keeps the promise.

`ImplementsReviewedUpgrades` says that UpgradeRun implements ReviewedUpgrades for as
long as signers take turns and finish what they replaced. `deployed` and `ledger` are
the abstract variables; a pair of builds is approved when `create_plan` makes a plan of
it with some migration call, and the layout of a build is what its declaration says.
The upgrade step of a plan maps to `Replace`, its migration to `Migrate` (or to nothing
where the ledger fits already), a contract's own first write to `FirstWrite`; all other
steps, stops, failures and repetitions are invisible.

Assumptions, each visible in a module:

- the history file is kept cumulative (docs/ADOPTION.md, section 3): records are
  added, retired and reserved but never rewritten;
- `KnownProtocol`: that a release runs, and that its approval stands, is said of releases
  decided on a protocol the network has. One decided on a wrong assertion, or on none,
  may need more; the report warns of it and `FactsAreBacked` says how it is labelled;
- storage declarations and a history are supplied with every decision of a chain. "Under
  every policy" below means this: where a policy does not require them, a team may
  leave them out, and then nothing is claimed of keys and fields;
- `~raced`, `~dropped`: signers take turns and finish a run that has replaced the
  executable. The plan checks the executable in its first step only, so a second
  signer can replace it before the fourth; and the next validation does not know
  of a migration that was never run. `UpgradeStaysPossible` needs neither;
- `~reader_lost`: a build that reads Account sparsely is not followed by one that
  reads it densely. Neither the types nor the imports of the artifact say which
  type a sparse reader serves, so the validator cannot see this; docs/CHECKS.md
  calls the binding of readers to types unknown;
- the witness inspects the calls an export can reach, not what it does with their
  results; hence `WitnessSound` speaks of the host's facts for guests that return
  what they read (`HonestGuest`);
- a version is never yanked, and one run of the workflow per tag is under way (its
  concurrency group);
- digests are injective: a content stands for its SHA-256;
- semantic versions are numbers ordered like the versions.

### Findings

`impact_report_limit`: docs/CHECKS.md lists "256 public-impact paths" and "10,000
traversal steps" as limits at which the *analysis* stops, with `RES001` when one
does. `routes_to_type` counts both per search, one for each boundary, changed type
and side, so an analysis may report more paths in total without `RES001`. TLC
shows this with the path limit set to 1.

`showcase`: examples/README.md says that each result of the showcase "comes from
compiled WASM" and that the checker "must return status `2`". The three validate
steps of `showcase.sh` that must be blocked pass `--network` and
`--protocol-version`; the command takes exactly one of them, so it ends with a
usage error (status 2 as well) before it validates anything, and
`run_expected_block` takes any nonzero status for a block. TLC shows a showcase
that goes on although the checker would let the release pass. `verify-release.sh`
passes one option, and asks for status 2 and a line that begins with `BLOCKED`:
it satisfies the property. With `--offline` the safe step of the showcase has
both options too, so the script stops there.

## What is proved

### CallGraph

For every code section, number of imports and set of exports (assuming only
`CallGraphAssumption`: the counts are natural numbers and call lists are
sequences of indices):

- `TypeCorrect`: `Spec => []TypeOK`. Sequence lemmas first: what popping and
  pushing the reversed call list do to the elements of the worklist.
- `WalkInvariant`: `Spec => []IInv`. EvidenceExact is not inductive: it speaks of
  finished exports only. `IInv` adds, for the walk under way: everything pending,
  visited or found is reachable from the root; each visited body's callees are
  visited, found or pending, and the root is one of these; the evidence found so
  far agrees with the visited set. One lemma per action, and under each one step
  per part of the invariant that the action disturbs.
- `EvidenceIsExact`: when the worklist is empty, visited and found together are
  closed under calls, hence contain what is reachable
  (`EmptyWorklistExact`); with soundness this is equality.
- `DanglingIsRejected`: an empty worklist leaves no reachable dangling index; the
  failing pop is reachable because all pending indices are.
- `WorklistIsBounded`: a body pushes its call list once, when it is first visited, so
  the worklist holds at most the root and the calls of visited bodies. `CallsIn`, which
  counts these, is a recursive function over the bodies; that a body adds its own list
  and no other (`CallsInAdd`) is an induction along them. It goes through `LeastNat`,
  a fact about sets of numbers got from the library's theorem that `<` is well-founded.

### CounterContract

For every set of callers, administrator and width of the counter (assuming
`CounterAssumption`: the administrator is an address, `MaxCount` a natural number):

- `LayoutInvariant`: `Spec => []IInv`. The storage is in the old layout with schema
  version 1, or in the new one with version 2, or the unsafe build's own; v1 meets
  the new layout only after a rollback. The properties are not inductive without
  the tie between version and layout: `load_v2` decides by the version alone.
- `CountingIsKept`: `Spec => KeepsCounting`, the refinement but for the answers of a
  misplaced unsafe build, of which it is shown that it never changes the storage
  (`MisplacedStays`). One lemma per action
  shows that it keeps `IInv` and is a step of the abstract counter; they rest on
  `LoadEither` (whatever `load_v2` reads, it returns the counter and the flag that
  the storage stands for) and `LoadV1`.
- `ReadersAlwaysFit`, `AdminAlwaysInControl`, `TypeCorrect` follow from `IInv`.

### Public-impact trace

For every finite set of types, list of references, pair of artifacts and choice of
limits (assuming `PublicImpactAssumption`: references connect types of the model and
are listed once each; at least one step and one path are allowed):

- `TraceTypeCorrect` and `SearchBounded`: the check before each push and after each
  pop keeps `WorkBounded`, however types fan out.
- `ImpactsAreReal` and `NothingMissedSilently` say what is reported and what is not.
  They speak of finished traces, so the invariant `IInv` describes a search under
  way: every item on the stack is a chain from the root that ends at the item's
  type, its active set is the set of types that own a field of the chain, and every
  route of the reference definition is found already or begins with an item on the
  stack, unless the search was cut (`SearchedTo`). Around it: a pair is to be
  traced, being traced, or in the report (`CompleteInv`).
- The lemmas behind a pop: a chain that arrived begins no longer route, a chain at a
  type it was at before begins no route at all (`RouteBegins`), and a type's pushed
  items begin whatever the type's own item began (`SearchGoesOn`). That the reference
  definition may stop at chains as long as there are types is `WalkIsShort`: owners
  of a chain do not repeat, so a chain is an injection into the types.
- `Edges` is a recursive function. That it exists and holds exactly the fields of a
  type (`EdgesOf`) needs induction on the naturals, again through `LeastNat`.
- `LimitsAreJustified`: RES001 is reported for a limit only if the reference definition
  exceeds that limit too. The invariant (`LimitInv`) counts: popped and queued walks
  are distinct, they number the steps taken plus the length of the stack, and stack and
  found routes follow the order in which references are listed, so that a search that
  ran out of steps, of room on its stack or of paths has come upon more walks or routes
  than the limit allows (`PopLimitJustified`, `PushLimitJustified`). Walks are finitely
  many (`WalksFinite`), otherwise counting them would say nothing.

### Releases

For every set of builds and of histories, every policy, every first protocol and
chains of every length (assuming `ValidatorAssumption`, the sparse functions come
with some protocol, and `ReleaseChainAssumption`: versions and protocols are
natural numbers, and a history record that parses is one):

- The validator compares a release with its predecessor. `Accepted` is what its
  decision leaves of two neighbours, and `Decided` says that all neighbours of the
  chain are in that relation (`ChainTypeCorrect` and `AlwaysDecided`).
- What holds of releases further apart is carried: from an earlier release to the last
  one by the invariant, from the last one to the new one by `Accepted`. This gives
  `VersionsKeepIncreasing` (if the policy requires increasing versions),
  `InterfaceNeverLost` (if it has the five interface protections, `deny_*`), and, under
  every policy, `KeysNeverLost` (declarations supplied). `DeployedReleasesRun` (if the policy
  requires an upgrade function) and `ApprovalsOutliveUpgrades` follow from `Decided` and
  from a network protocol that only grows (`HostKeeps`), for every release decided on a
  protocol the network has, whoever said so. The default policy has all of these
  switches on.
- `FactsStayBacked`: only a live read is labelled `FACT` (`FactIsRead`), and what was
  read, the network has; the assertion of an operator may be wrong, so nothing like
  this is true of it, and the label does not say it.
- `TypesNeverConfused` and `RemovedFieldsNeverReturn` hold under every policy, also one
  that permits changed and removed types: they come from the history alone. Neighbours
  say nothing about a field that is absent for a while; `FieldsRecorded` (every field
  of every release is on record with its type) and `RemovedReserved` (a field that a
  later release lacks is reserved) do, and they survive an edit because a cumulative
  history keeps its records (`HistoryKept`).

### Carrying out plans

For every number of signers and reviews, every set of builds and every policy
(assuming `UpgradeRunAssumption`: versions are natural numbers, `None` is no call):

- `RunTypeCorrect`, and `Reviewed`: the plan of every run passed the validator and
  `CanPlan`. Hence `UpgradesStayPossible`, in any interleaving.
- `ReplacementsReviewed`: the first step of a plan compares the executable with the
  plan's source three steps before the upgrade. `Turns` ties the executable to the
  position of the one run under way.
- `RunsMigrateOnce`, if the policy requires increasing versions: once a migration ran,
  the executable is newer than the source that the first step of its plan asks for
  and stays so (`OneMigration`); a run that starts over ends there.
- `SettledContractsFit`: the ledger fits the executable, or one run is between the
  replacement and the migration that makes it fit (`FitsOrAwaits`).
- `RunsImplementUpgrades`: `Spec => ImplementsReviewedUpgrades`, step by step on the four
  invariants above (`UpgradeReplaces`, `MigrationMigrates`, `UpgradesStep`). That an
  upgrade finds a ledger that fits and drops no key is what the validator's comparison
  of declarations says of a ledger in the layout of the source (`PlannedLayout`); that
  one call migrates all that is unfit is the planner's rule that the target declares
  that one entrypoint only. `TurnsImplementUpgrades` states it as an implementation of
  specifications, `TurnsSpec => Upgrades!Spec`, where `TurnsSpec` lets no step race or
  drop a run; `KeysStayDeclared` is then a property of the abstract contract, proved
  there and inherited.

### plan and verify-plan

For every number of runs, every set of file contents and any environment (assuming
`PlanCommandsAssumption`):

- `CommandsTypeCorrect`; `VerifiedPlansAreWhole`: heads on disk and in memory are heads
  of created plans (`HeadsCreated`), and past its digest check a run holds the tail
  that belongs to its head (`DigestsChecked`).
- `OneWriterAtMost`: `create_new` needs an absent file, and a file never goes.
- `VerifiedPlansAreCurrent`: `ChecksHold` says that what a run has checked is still
  true while nothing changed around it; the last check completes the plan.

### Release workflow

For every number of failures and attempts (assuming `WorkflowAssumption`):

- `WorkflowInvariant`: `IInv`. A job that ran or was skipped was decided on results that
  still stand (`AllDecided`), because a repetition sends all jobs that need a repeated
  one back to waiting; a passed smoke test means a tested archive (`SmokeMeans`); the
  script comes to the CLI, and to its end, only with crates that both views show
  (`ScriptMeans`); and what is public was tested and, once announced, is complete
  (`PublicMeans`).
- `OnlyTestedIsPublic`, `CoreGoesFirst`, `AnnouncedIsComplete` follow.

### Account examples

For every set of builds of the three layouts, all amounts, bounds of the balance and
policies (assuming `AccountAssumption`: readers and writers are dense or sparse, the
old build reads densely, and of the fields' types only `Option<u32>` is optional; the
workspace pins an SDK from before the sparse functions):

- `RecordInvariant`: `Spec => []IInv`. The record is an account with its balance and,
  if not Void, its status (`AccountStored`), or what only the unsafe build reads
  (`UnsafeStored`); no call leads from one to the other, because neither kind of
  reader finds the other's required fields.
- `NothingIsLost` follows for every policy. `AccountStaysReadable` needs `OwnRecord`:
  while changed types are denied, a release that passes has its predecessor's layout
  (`LayoutKept`), and a status can be missing from the record only where a build is or
  was sparse. A dense v2 that would find it missing cannot load, hence cannot be
  followed by an upgrade either.
- `CallersAreServed`: `Answers` says which fields an answer has, and `ConvertsWhen`
  who accepts them.

### Only model-checked

- Liveness: `Terminates` and `ReleasedAtLast`.
- The properties of RuntimeWitness and Scripts. These modules have no constants: their
  runs go through all hosts, guests and verdicts of the models, and a proof could not
  say more.
- The two findings, which are counterexamples.

`TypeCorrect` of CounterContract, `ChainTypeCorrect`, `ReplacementsReviewed` (which
speaks of runs that are dropped, too, where the refinement does not), `KeysStayDeclared`
and the inductive invariants named above are proved only: they are not properties of a
run.

## What is not modelled

- Decoding of WASM and JSON, and printing: pure functions without interaction.
- Spelling checks of paths, identities and arguments, shell quoting and the
  private-key scan in `create_plan_with_paths`; `plan` without `--out`.
- `inspect` and `schema`: they print.
- The steps of the scripts that build, test and audit; the plan steps at their end;
  `verify-cap0086-runtime.sh` and `action.yml`, straight-line shell that stops at
  the first failure.
- What GitHub does with a second draft of the same tag, which a repeated `host` job
  creates; yanked versions; the contents of archives beyond "they work".
- Expiry of ledger entries, and who pays: a failed call is a trap like any other.
- Fuzz targets: a harness without logic of its own.

- That a schema number stands for one layout. The validator compares the numbers only
  when a layout changes (`STO005`), so layout A numbered 2, A numbered 1 and B numbered 2
  pass one after the other, and no document forbids to lower a number.

## What could come next

- An abstract specification of `plan` and `verify-plan` (a plan is whole and of one
  moment, or it does not verify) that PlanCommands implements in quiet runs; today
  `VerifiedPlanWhole` and `VerifiedPlanCurrent` say this of the last step only.
- The spelling rules of plan inputs, as operators over small alphabets.
