----------------------------- MODULE UpgradeRun -----------------------------
(***************************************************************************)
(* Signers carry out review plans on a live contract, step by step.         *)
(*                                                                         *)
(* A plan is reviewed and verified online before its first step, so its     *)
(* source is the executable that runs at that moment (module PlanCommands). *)
(* The tool does not execute plans: a signer does, may stop between any two *)
(* steps, take the run up again or start it over, while other signers carry *)
(* out plans of their own.  The ledger keeps every key in the layout it was *)
(* last written in; only a migration rewrites it.                           *)
(***************************************************************************)
EXTENDS Plan

CONSTANTS
  Builds,      \* [artifact, schema] of the releases
  Calls,       \* migration calls an operator may select, and None
  Policy,
  Network,
  Protocol,    \* protocol of the network
  Signers,
  MaxReviews   \* bound on the number of reviewed plans

ASSUME UpgradeRunAssumption ==
  /\ None \in Calls
  /\ MaxReviews \in Nat
  /\ \A build \in Builds : build.artifact.version \in Nat

VARIABLES
  deployed,  \* the build that runs
  uploaded,  \* builds whose WASM is on the ledger
  ledger,    \* storage key -> layout its value has
  run,       \* signer -> its run of a plan
  reviews,   \* plans reviewed so far
  raced,     \* two runs were under way at once (history variable)
  dropped    \* a run that had replaced the executable was abandoned or
             \* started over (history variable)

vars == <<deployed, uploaded, ledger, run, reviews, raced, dropped>>

Context == [source |-> "live", protocol |-> Protocol, missing |-> {}]
History == [supported |-> TRUE, complete |-> TRUE, types |-> [t \in {} |-> {}]]

PlanReport(source, target) ==
  Report(source.artifact, target.artifact, Some(source.schema), Some(target.schema),
         Policy, Context, Some(Network), Some(History))

Underway(s) == run[s].state \in {"running", "stopped"}
Others(s) == \E other \in Signers \ {s} : Underway(other)
NextStep(s) == Steps(run[s].migration)[run[s].at]

Review(s, target, migration) ==
  /\ reviews < MaxReviews /\ ~Underway(s)
  /\ LET report == PlanReport(deployed, target)
     IN  CanPlan(report, Network, migration) /\ Status(report) = "review_ready"
  /\ run' = [run EXCEPT ![s] = [state |-> "running", source |-> deployed, target |-> target,
                                migration |-> migration, at |-> 1, migrations |-> 0]]
  /\ reviews' = reviews + 1
  /\ raced' = (raced \/ Others(s))
  /\ UNCHANGED <<deployed, uploaded, ledger, dropped>>

----------------------------------------------------------------------------
(* What the network does with an invocation.                                *)

\* The export exists and takes arguments of these names.
Invocable(artifact, entrypoint, arguments) ==
  entrypoint \in DOMAIN artifact.functions
    /\ DOMAIN artifact.functions[entrypoint] = arguments

\* The plan's `upgrade` call replaces the executable.
Replaceable(artifact) ==
  /\ Invocable(artifact, "upgrade", {"new_wasm_hash", "operator"})
  /\ UpdateWasm \in artifact.evidence["upgrade"].host_imports

----------------------------------------------------------------------------
(* The steps.  A step whose expected result does not come ends the run.     *)

AtStep(s, kind) == run[s].state = "running" /\ NextStep(s) = kind

LastStep_Slip(s) == run[s].at > Len(Steps(run[s].migration))
LastStep(s) == run[s].at = Len(Steps(run[s].migration))

\* The run goes on if the step gave its expected result.
Proceed(s, as_expected, migrations) ==
  run' = [run EXCEPT
    ![s].state = IF ~as_expected THEN "failed"
                 ELSE IF LastStep(s) THEN "completed" ELSE "running",
    ![s].at = IF as_expected THEN @ + 1 ELSE @,
    ![s].migrations = @ + migrations]

VerifyCurrentExecutable(s) ==
  /\ AtStep(s, "verify_current_executable")
  /\ Proceed(s, deployed = run[s].source, 0)
  /\ UNCHANGED <<deployed, uploaded, ledger, reviews, raced, dropped>>

UploadTargetWasm(s) ==
  /\ AtStep(s, "upload_target_wasm")
  /\ uploaded' = uploaded \cup {run[s].target}
  /\ Proceed(s, TRUE, 0)
  /\ UNCHANGED <<deployed, ledger, reviews, raced, dropped>>

\* Invoking `upgrade` with the plan's two arguments on the running executable.
UpgradeSucceeds(target) ==
  Replaceable(deployed.artifact) /\ target \in uploaded

SimulateUpgrade(s) ==
  /\ AtStep(s, "simulate_upgrade")
  /\ Proceed(s, UpgradeSucceeds(run[s].target), 0)
  /\ UNCHANGED <<deployed, uploaded, ledger, reviews, raced, dropped>>

ExecuteUpgrade(s) ==
  /\ AtStep(s, "execute_upgrade")
  /\ deployed' = IF UpgradeSucceeds(run[s].target) THEN run[s].target ELSE deployed
  /\ Proceed(s, UpgradeSucceeds(run[s].target), 0)
  /\ UNCHANGED <<uploaded, ledger, reviews, raced, dropped>>

\* Keys that the declaration of a build migrates with the entrypoint.
MigratedBy(schema, entrypoint) ==
  {k \in DOMAIN schema.entries :
     LET migration == schema.entries[k].migration
     IN  /\ migration # None /\ Given(migration).entrypoint # None
         /\ Given(Given(migration).entrypoint) = entrypoint}

ExecuteMigration(s) ==
  LET call == Given(run[s].migration)
      schema == deployed.schema
      succeeds == Invocable(deployed.artifact, call.entrypoint, call.arguments)
  IN  /\ AtStep(s, "execute_migration")
      /\ ledger' = IF ~succeeds THEN ledger
                   ELSE [k \in DOMAIN ledger |->
                           IF k \in MigratedBy(schema, call.entrypoint)
                           THEN schema.entries[k].layout ELSE ledger[k]]
      /\ Proceed(s, succeeds, IF succeeds THEN 1 ELSE 0)
      /\ UNCHANGED <<deployed, uploaded, reviews, raced, dropped>>

VerifyExecutable(s) ==
  /\ AtStep(s, "verify_executable")
  /\ Proceed(s, deployed = run[s].target, 0)
  /\ UNCHANGED <<deployed, uploaded, ledger, reviews, raced, dropped>>

\* The operator's own program: it may find anything.
VerifyInvariants(s) ==
  /\ AtStep(s, "verify_invariants")
  /\ \E pass \in BOOLEAN : Proceed(s, pass, 0)
  /\ UNCHANGED <<deployed, uploaded, ledger, reviews, raced, dropped>>

----------------------------------------------------------------------------
Stop(s) ==
  /\ run[s].state = "running"
  /\ run' = [run EXCEPT ![s].state = "stopped"]
  /\ UNCHANGED <<deployed, uploaded, ledger, reviews, raced, dropped>>

Resume(s) ==
  /\ run[s].state = "stopped"
  /\ run' = [run EXCEPT ![s].state = "running"]
  /\ UNCHANGED <<deployed, uploaded, ledger, reviews, raced, dropped>>

\* The executable is already the plan's target.
Replaced(s) ==
  \E i \in 1 .. run[s].at - 1 : Steps(run[s].migration)[i] = "execute_upgrade"

\* Starts over with the same plan, after a stop or a failed step.
StartOver(s) ==
  /\ run[s].state \in {"stopped", "failed"} /\ run[s].at > 1
  /\ run' = [run EXCEPT ![s].state = "running", ![s].at = 1]
  /\ raced' = (raced \/ Others(s))
  /\ dropped' = (dropped \/ Replaced(s))
  /\ UNCHANGED <<deployed, uploaded, ledger, reviews>>

Abandon(s) ==
  /\ run[s].state = "stopped"
  /\ run' = [run EXCEPT ![s].state = "failed"]
  /\ dropped' = (dropped \/ Replaced(s))
  /\ UNCHANGED <<deployed, uploaded, ledger, reviews, raced>>

\* The contract writes a key it declares for the first time.
FirstWrite(k) ==
  /\ k \in DOMAIN deployed.schema.entries \ DOMAIN ledger
  /\ ledger' = [key \in DOMAIN ledger \cup {k} |->
                  IF key = k THEN deployed.schema.entries[k].layout ELSE ledger[key]]
  /\ UNCHANGED <<deployed, uploaded, run, reviews, raced, dropped>>

Init ==
  /\ deployed \in Builds
  /\ uploaded = {deployed}
  /\ ledger = [k \in DOMAIN deployed.schema.entries |-> deployed.schema.entries[k].layout]
  /\ run = [s \in Signers |-> [state |-> "idle", source |-> deployed, target |-> deployed,
                               migration |-> None, at |-> 1, migrations |-> 0]]
  /\ reviews = 0
  /\ raced = FALSE /\ dropped = FALSE

RunStep(s) ==
  \/ VerifyCurrentExecutable(s) \/ UploadTargetWasm(s) \/ SimulateUpgrade(s)
  \/ ExecuteUpgrade(s) \/ ExecuteMigration(s) \/ VerifyExecutable(s) \/ VerifyInvariants(s)

Keys == UNION {DOMAIN b.schema.entries : b \in Builds}

Next ==
  \/ \E s \in Signers, target \in Builds, migration \in Calls : Review(s, target, migration)
  \/ \E s \in Signers : RunStep(s) \/ Stop(s) \/ Resume(s) \/ StartOver(s) \/ Abandon(s)
  \/ \E k \in Keys : FirstWrite(k)

Spec == Init /\ [][Next]_vars

----------------------------------------------------------------------------
Runs == [state : {"idle", "running", "stopped", "failed", "completed"}, source : Builds,
         target : Builds, migration : Calls, at : Nat, migrations : Nat]

(* Types of the contract and of the runs. *)
TypeOK ==
  /\ deployed \in Builds /\ deployed \in uploaded /\ uploaded \subseteq Builds
  /\ run \in [Signers -> Runs]
  /\ \A s \in Signers : run[s].state = "running" => run[s].at \in DOMAIN Steps(run[s].migration)
  /\ reviews \in 0 .. MaxReviews
  /\ raced \in BOOLEAN /\ dropped \in BOOLEAN

(* As long as signers take turns, an executable is replaced only by the one *)
(* that was validated against it.  Without turns this fails: the plan       *)
(* checks the executable in its first step, and nothing on the ledger       *)
(* repeats that check when the upgrade runs.                                *)
ReplacesReviewedSource ==
  [][deployed' # deployed /\ ~raced =>
       \E s \in Signers : run[s].source = deployed /\ run[s].target = deployed']_vars

(* When no run is under way the ledger is in the layout that the running    *)
(* executable reads: the validator found each relaid key declared with a    *)
(* migration, the planner took no plan without that migration, and the plan *)
(* has it run before the last checks.  This needs turns, and that a run is  *)
(* taken up again once it replaced the executable: the next validation does *)
(* not see a migration that never ran.                                      *)
Fits ==
  \A k \in DOMAIN ledger :
    k \in DOMAIN deployed.schema.entries /\ ledger[k] = deployed.schema.entries[k].layout
SettledContractFits ==
  ~raced /\ ~dropped /\ (\A s \in Signers : ~Underway(s)) => Fits

(* Whatever policy is used, and however the runs of several signers         *)
(* interleave, no replacement leaves a contract that the tool can no longer *)
(* upgrade.                                                                 *)
UpgradeStaysPossible ==
  [][deployed' # deployed => Replaceable(deployed'.artifact)]_vars

(* As long as signers take turns, a run that is started over, wherever it   *)
(* stopped, migrates at most once: its first step fails once the executable *)
(* is replaced, and no later release brings the old one back.               *)
MigratesOnce == ~raced => \A s \in Signers : run[s].migrations <= 1

(* The abstract upgrades: the pairs some plan can be made for, and the       *)
(* layout each build declares for its keys.                                  *)
ApprovedPairs ==
  {pair \in Builds \X Builds :
     \E migration \in Calls : CanPlan(PlanReport(pair[1], pair[2]), Network, migration)}
DeclaredLayout ==
  [b \in Builds |-> [k \in DOMAIN b.schema.entries |-> b.schema.entries[k].layout]]
Upgrades == INSTANCE ReviewedUpgrades WITH Approved <- ApprovedPairs, LayoutOf <- DeclaredLayout

(* With signers that take turns and finish what they began, the steps of    *)
(* plans add up to the upgrades of module ReviewedUpgrades: each replaces   *)
(* the executable by one approved after it, over a ledger that fits, drops  *)
(* no key, and what the new executable cannot read is migrated at once, by  *)
(* the one call of the plan, before anything is replaced again.             *)
ImplementsReviewedUpgrades ==
  Upgrades!Init /\ [][~raced' /\ ~dropped' => Upgrades!Next]_<<deployed, ledger>>
=============================================================================
