-------------------------- MODULE UpgradeRunProofs --------------------------
(***************************************************************************)
(* Carrying out review plans: what holds for every set of builds, whatever  *)
(* policy and number of signers, however their runs interleave, stop, fail  *)
(* and start over.                                                          *)
(***************************************************************************)
EXTENDS UpgradeRun, TLAPS

----------------------------------------------------------------------------
(* The steps of a plan.                                                     *)

(* A plan has seven steps with a migration and six without. *)
LEMMA StepCount ==
  ASSUME NEW migration
  PROVE  /\ Len(Steps(migration)) = IF migration = None THEN 6 ELSE 7
         /\ DOMAIN Steps(migration) = IF migration = None THEN 1 .. 6 ELSE 1 .. 7
BY DEF Steps

(* Where each step stands, with and without a migration. *)
LEMMA StepPlace ==
  ASSUME NEW migration, NEW at \in DOMAIN Steps(migration)
  PROVE  LET step == Steps(migration)[at]
         IN  /\ step = "verify_current_executable" <=> at = 1
             /\ step = "upload_target_wasm" <=> at = 2
             /\ step = "simulate_upgrade" <=> at = 3
             /\ step = "execute_upgrade" <=> at = 4
             /\ step = "execute_migration" <=> at = 5 /\ migration # None
             /\ step = "verify_executable" <=> at = (IF migration = None THEN 5 ELSE 6)
             /\ step = "verify_invariants" <=> at = (IF migration = None THEN 6 ELSE 7)
<1>1. CASE migration = None
  <2>1. at = 1 \/ at = 2 \/ at = 3 \/ at = 4 \/ at = 5 \/ at = 6
    BY <1>1, StepCount
  <2> QED BY <1>1, <2>1 DEF Steps
<1>2. CASE migration # None
  <2>1. at = 1 \/ at = 2 \/ at = 3 \/ at = 4 \/ at = 5 \/ at = 6 \/ at = 7
    BY <1>2, StepCount
  <2> QED BY <1>2, <2>1 DEF Steps
<1> QED BY <1>1, <1>2

----------------------------------------------------------------------------
(* Types.                                                                   *)

\* A run that goes on stands at a step of its plan.
TypeInv ==
  /\ deployed \in Builds /\ deployed \in uploaded /\ uploaded \subseteq Builds
  /\ run \in [Signers -> Runs]
  /\ \A s \in Signers : Underway(s) => run[s].at \in DOMAIN Steps(run[s].migration)
  /\ reviews \in 0 .. MaxReviews
  /\ raced \in BOOLEAN /\ dropped \in BOOLEAN

(* The steps by their place in the run. *)
LEMMA Position ==
  ASSUME TypeInv, NEW s \in Signers, NEW step, AtStep(s, step)
  PROVE  /\ Underway(s)
         /\ run[s].at \in DOMAIN Steps(run[s].migration)
         /\ step = Steps(run[s].migration)[run[s].at]
BY DEF TypeInv, AtStep, Underway, NextStep

\* What a step does to the run of its signer, and to no other.
StepOutcome(s, ok, migrations) ==
  /\ run' \in [Signers -> Runs]
  /\ \A t \in Signers \ {s} : run'[t] = run[t]
  /\ run'[s].source = run[s].source /\ run'[s].target = run[s].target
  /\ run'[s].migration = run[s].migration
  /\ run'[s].migrations = run[s].migrations + migrations
  /\ ok => run'[s].at = run[s].at + 1 /\ run'[s].state \in {"running", "completed"}
  /\ ok /\ run'[s].state = "running" => run'[s].at \in DOMAIN Steps(run[s].migration)
  /\ ok /\ run'[s].state = "completed" => run[s].at = Len(Steps(run[s].migration))
  /\ ~ok => run'[s].at = run[s].at /\ run'[s].state = "failed"

(* What Proceed does: the run ends, fails or stands at the next step. *)
LEMMA ProceedOutcome ==
  ASSUME TypeInv, NEW s \in Signers, run[s].state = "running",
         NEW ok \in BOOLEAN, NEW migrations \in Nat, Proceed(s, ok, migrations)
  PROVE  StepOutcome(s, ok, migrations)
<1>1. run[s] \in Runs /\ run \in [Signers -> Runs]
  BY DEF TypeInv
<1> DEFINE state == IF ~ok THEN "failed" ELSE IF LastStep(s) THEN "completed" ELSE "running"
           at == IF ok THEN run[s].at + 1 ELSE run[s].at
           next == [state |-> state, source |-> run[s].source, target |-> run[s].target,
                    migration |-> run[s].migration, at |-> at,
                    migrations |-> run[s].migrations + migrations]
<1>2. run' = [run EXCEPT ![s] = next]
  <2>1. run' = [run EXCEPT ![s] = [run[s] EXCEPT !.state = state, !.at = at,
                                     !.migrations = @ + migrations]]
    BY <1>1 DEF Proceed
  <2>2. [run[s] EXCEPT !.state = state, !.at = at, !.migrations = @ + migrations] = next
    <3> DEFINE moved == [run[s] EXCEPT !.state = state]
               placed == [moved EXCEPT !.at = at]
    <3> HIDE DEF state, at
    <3>1. moved = [state |-> state, source |-> run[s].source, target |-> run[s].target,
                   migration |-> run[s].migration, at |-> run[s].at,
                   migrations |-> run[s].migrations]
      BY <1>1 DEF Runs
    <3> HIDE DEF moved
    <3>2. placed = [state |-> state, source |-> run[s].source, target |-> run[s].target,
                    migration |-> run[s].migration, at |-> at,
                    migrations |-> run[s].migrations]
      BY <3>1
    <3> HIDE DEF placed
    <3>3. [placed EXCEPT !.migrations = run[s].migrations + migrations] = next
      BY <3>2
    <3> QED BY <3>3 DEF placed, moved
  <2> QED BY <2>1, <2>2
<1>3. next \in Runs
  BY <1>1 DEF Runs
<1>4. run'[s] = next /\ run' \in [Signers -> Runs] /\ \A t \in Signers \ {s} : run'[t] = run[t]
  BY <1>1, <1>2, <1>3
<1>5. ok /\ state = "running" => at \in DOMAIN Steps(run[s].migration)
  <2>1. run[s].at \in 1 .. Len(Steps(run[s].migration)) /\ run[s].at \in Nat
    BY <1>1, StepCount DEF TypeInv, Underway, Runs
  <2>2. Len(Steps(run[s].migration)) \in Nat
    BY StepCount
  <2>3. ok /\ state = "running" => run[s].at # Len(Steps(run[s].migration))
    BY DEF LastStep
  <2> QED BY <2>1, <2>2, <2>3, StepCount
<1>6. ok /\ state = "completed" => run[s].at = Len(Steps(run[s].migration))
  BY DEF LastStep
<1> QED BY <1>4, <1>5, <1>6 DEF StepOutcome

\* What a signer's decision does to its run: it keeps its plan.
Decided(s, state, at) ==
  /\ run' \in [Signers -> Runs]
  /\ \A t \in Signers \ {s} : run'[t] = run[t]
  /\ run'[s].source = run[s].source /\ run'[s].target = run[s].target
  /\ run'[s].migration = run[s].migration
  /\ run'[s].migrations = run[s].migrations
  /\ run'[s].state = state /\ run'[s].at = at

(* What the decisions of a signer do to the run. *)
LEMMA DecisionOutcome ==
  ASSUME TypeInv, NEW s \in Signers
  PROVE  /\ Stop(s) => Decided(s, "stopped", run[s].at)
         /\ Resume(s) => Decided(s, "running", run[s].at)
         /\ StartOver(s) => Decided(s, "running", 1)
         /\ Abandon(s) => Decided(s, "failed", run[s].at)
<1>1. run[s] \in Runs /\ run \in [Signers -> Runs]
  BY DEF TypeInv
<1>2. ASSUME NEW state \in {"idle", "running", "stopped", "failed", "completed"},
             run' = [run EXCEPT ![s].state = state]
      PROVE  Decided(s, state, run[s].at)
  <2>1. run' \in [Signers -> Runs]
    BY <1>1, <1>2 DEF Runs
  <2> QED BY <1>1, <1>2, <2>1 DEF Decided, Runs
<1>3. ASSUME run' = [run EXCEPT ![s].state = "running", ![s].at = 1]
      PROVE  Decided(s, "running", 1)
  <2> DEFINE moved == [run EXCEPT ![s].state = "running"]
  <2>1. moved \in [Signers -> Runs] /\ run' = [moved EXCEPT ![s].at = 1]
    BY <1>1, <1>3 DEF Runs
  <2>2. /\ \A t \in Signers \ {s} : moved[t] = run[t]
        /\ moved[s].source = run[s].source /\ moved[s].target = run[s].target
        /\ moved[s].migration = run[s].migration
        /\ moved[s].migrations = run[s].migrations /\ moved[s].state = "running"
    BY <1>1 DEF Runs
  <2> HIDE DEF moved
  <2>3. run' \in [Signers -> Runs]
    BY <2>1 DEF Runs
  <2> QED BY <2>1, <2>2, <2>3 DEF Decided, Runs
<1> QED BY <1>2, <1>3 DEF Stop, Resume, StartOver, Abandon

(* Reviewing a plan starts a run of it.                                     *)
LEMMA ReviewOutcome ==
  ASSUME TypeInv, NEW s \in Signers, NEW target \in Builds, NEW migration \in Calls,
         Review(s, target, migration)
  PROVE  /\ run' \in [Signers -> Runs]
         /\ \A t \in Signers \ {s} : run'[t] = run[t]
         /\ run'[s].source = deployed /\ run'[s].target = target
         /\ run'[s].migration = migration /\ run'[s].migrations = 0
         /\ run'[s].state = "running" /\ run'[s].at = 1
<1> DEFINE new == [state |-> "running", source |-> deployed, target |-> target,
                   migration |-> migration, at |-> 1, migrations |-> 0]
<1>1. new \in Runs
  BY DEF Runs, TypeInv
<1>2. run' = [run EXCEPT ![s] = new] /\ run \in [Signers -> Runs]
  BY DEF Review, TypeInv
<1> QED BY <1>1, <1>2

----------------------------------------------------------------------------
(* A plan step keeps the types. *)
LEMMA StepTyped ==
  ASSUME TypeInv, NEW s \in Signers, Underway(s), NEW ok, NEW migrations,
         StepOutcome(s, ok, migrations), ok \in BOOLEAN,
         UNCHANGED <<reviews, raced, dropped>>,
         deployed' \in Builds, deployed' \in uploaded', uploaded' \subseteq Builds
  PROVE  TypeInv'
<1>1. ASSUME NEW t \in Signers, Underway(t)'
      PROVE  run'[t].at \in DOMAIN Steps(run'[t].migration)
  <2>1. CASE t # s
    BY <1>1, <2>1 DEF StepOutcome, TypeInv, Underway
  <2>2. CASE t = s
    BY <1>1, <2>2 DEF StepOutcome, Underway
  <2> QED BY <2>1, <2>2
<1> QED BY <1>1 DEF TypeInv, StepOutcome

(* A decision of a signer keeps the types. *)
LEMMA DecisionTyped ==
  ASSUME TypeInv, NEW s \in Signers, NEW state, NEW at, Decided(s, state, at),
         state \in {"running", "stopped"} => at \in DOMAIN Steps(run[s].migration),
         UNCHANGED <<deployed, uploaded, reviews>>, raced' \in BOOLEAN, dropped' \in BOOLEAN
  PROVE  TypeInv'
<1>1. ASSUME NEW t \in Signers, Underway(t)'
      PROVE  run'[t].at \in DOMAIN Steps(run'[t].migration)
  <2>1. CASE t # s
    BY <1>1, <2>1 DEF Decided, TypeInv, Underway
  <2>2. CASE t = s
    BY <1>1, <2>2 DEF Decided, Underway
  <2> QED BY <2>1, <2>2
<1> QED BY <1>1 DEF TypeInv, Decided

\* What a step that goes as expected (ok) or not does to the contract, by its
\* place in the run.
StepEffect(s, ok, migrations) ==
  LET at == run[s].at
      target == run[s].target
      call == Given(run[s].migration)
      migrates == at = 5 /\ run[s].migration # None
  IN  /\ at = 1 /\ ok => deployed = run[s].source
      /\ IF at = 4 /\ ok THEN deployed' = target /\ target \in uploaded
                        ELSE deployed' = deployed
      /\ migrates => (ok <=> Invocable(deployed.artifact, call.entrypoint, call.arguments))
      /\ migrations = IF migrates /\ ok THEN 1 ELSE 0
      /\ ledger' = IF ~(migrates /\ ok) THEN ledger
                   ELSE [k \in DOMAIN ledger |->
                           IF k \in MigratedBy(deployed.schema, call.entrypoint)
                           THEN deployed.schema.entries[k].layout ELSE ledger[k]]
      /\ uploaded' = IF at = 2 THEN uploaded \cup {target} ELSE uploaded
      /\ UNCHANGED <<reviews, raced, dropped>>

(* Every step of a run, in one form. *)
LEMMA RunStepOutcome ==
  ASSUME TypeInv, NEW s \in Signers, RunStep(s)
  PROVE  /\ Underway(s)
         /\ \E ok \in BOOLEAN, migrations \in Nat :
              StepOutcome(s, ok, migrations) /\ StepEffect(s, ok, migrations)
<1>1. ASSUME NEW step, AtStep(s, step), NEW ok \in BOOLEAN, NEW migrations \in Nat,
             Proceed(s, ok, migrations)
      PROVE  Underway(s) /\ StepOutcome(s, ok, migrations)
  BY <1>1, ProceedOutcome DEF AtStep, Underway
<1> DEFINE place == IF run[s].migration = None THEN 5 ELSE 6
<1>2. ASSUME NEW step, AtStep(s, step)
      PROVE  /\ step = "verify_current_executable" <=> run[s].at = 1
             /\ step = "upload_target_wasm" <=> run[s].at = 2
             /\ step = "simulate_upgrade" <=> run[s].at = 3
             /\ step = "execute_upgrade" <=> run[s].at = 4
             /\ step = "execute_migration" <=> run[s].at = 5 /\ run[s].migration # None
             /\ step = "verify_executable" <=> run[s].at = place
             /\ step = "verify_invariants" <=> run[s].at = place + 1
  BY <1>2, Position, StepPlace
<1>3. CASE VerifyCurrentExecutable(s)
  <2>1. AtStep(s, "verify_current_executable") /\ run[s].at = 1
    BY <1>2, <1>3 DEF VerifyCurrentExecutable
  <2>2. StepEffect(s, deployed = run[s].source, 0)
    BY <1>3, <2>1 DEF VerifyCurrentExecutable, StepEffect
  <2> QED BY <1>1, <1>3, <2>1, <2>2 DEF VerifyCurrentExecutable
<1>4. CASE UploadTargetWasm(s)
  <2>1. AtStep(s, "upload_target_wasm") /\ run[s].at = 2
    BY <1>2, <1>4 DEF UploadTargetWasm
  <2>2. StepEffect(s, TRUE, 0)
    BY <1>4, <2>1 DEF UploadTargetWasm, StepEffect
  <2> QED BY <1>1, <1>4, <2>1, <2>2 DEF UploadTargetWasm
<1>5. CASE SimulateUpgrade(s)
  <2>1. AtStep(s, "simulate_upgrade") /\ run[s].at = 3
    BY <1>2, <1>5 DEF SimulateUpgrade
  <2> DEFINE ok == UpgradeSucceeds(run[s].target)
  <2>2. ok \in BOOLEAN
    BY DEF UpgradeSucceeds, Replaceable, Invocable
  <2>3. StepEffect(s, ok, 0)
    BY <1>5, <2>1 DEF SimulateUpgrade, StepEffect
  <2> QED BY <1>1, <1>5, <2>1, <2>2, <2>3 DEF SimulateUpgrade
<1>6. CASE ExecuteUpgrade(s)
  <2>1. AtStep(s, "execute_upgrade") /\ run[s].at = 4
    BY <1>2, <1>6 DEF ExecuteUpgrade
  <2> DEFINE ok == UpgradeSucceeds(run[s].target)
  <2>2. ok \in BOOLEAN /\ (ok => run[s].target \in uploaded)
    BY DEF UpgradeSucceeds, Replaceable, Invocable
  <2>3. StepEffect(s, ok, 0)
    BY <1>6, <2>1, <2>2 DEF ExecuteUpgrade, StepEffect
  <2> QED BY <1>1, <1>6, <2>1, <2>2, <2>3 DEF ExecuteUpgrade
<1>7. CASE ExecuteMigration(s)
  <2> DEFINE call == Given(run[s].migration)
             ok == Invocable(deployed.artifact, call.entrypoint, call.arguments)
             once == IF ok THEN 1 ELSE 0
  <2>1. AtStep(s, "execute_migration") /\ run[s].at = 5 /\ run[s].migration # None
    BY <1>2, <1>7 DEF ExecuteMigration
  <2>2. ok \in BOOLEAN /\ once \in Nat
    BY DEF Invocable
  <2>3. StepEffect(s, ok, once)
    BY <1>7, <2>1 DEF ExecuteMigration, StepEffect
  <2>4. Proceed(s, ok, once)
    BY <1>7 DEF ExecuteMigration
  <2> HIDE DEF ok, once
  <2> QED BY <1>1, <2>1, <2>2, <2>3, <2>4
<1>8. CASE VerifyExecutable(s)
  <2>1. AtStep(s, "verify_executable") /\ run[s].at = place
    BY <1>2, <1>8 DEF VerifyExecutable
  <2>2. ~(run[s].at = 5 /\ run[s].migration # None) /\ run[s].at \notin {1, 2, 4}
    BY <2>1
  <2>3. StepEffect(s, deployed = run[s].target, 0)
    BY <1>8, <2>2 DEF VerifyExecutable, StepEffect
  <2> QED BY <1>1, <1>8, <2>1, <2>3 DEF VerifyExecutable
<1>9. CASE VerifyInvariants(s)
  <2>1. AtStep(s, "verify_invariants") /\ run[s].at = place + 1
    BY <1>2, <1>9 DEF VerifyInvariants
  <2>2. ~(run[s].at = 5 /\ run[s].migration # None) /\ run[s].at \notin {1, 2, 4}
    BY <2>1
  <2>3. PICK pass \in BOOLEAN : Proceed(s, pass, 0)
    BY <1>9 DEF VerifyInvariants
  <2>4. StepEffect(s, pass, 0)
    BY <1>9, <2>2 DEF VerifyInvariants, StepEffect
  <2> QED BY <1>1, <2>1, <2>3, <2>4
<1> QED BY <1>3, <1>4, <1>5, <1>6, <1>7, <1>8, <1>9 DEF RunStep

(* Type correctness is inductive. *)
LEMMA TypeStep ==
  ASSUME TypeInv, [Next]_vars
  PROVE  TypeInv'
<1>1. ASSUME NEW s \in Signers, NEW target \in Builds, NEW migration \in Calls,
             Review(s, target, migration)
      PROVE  TypeInv'
  <2>1. ASSUME NEW t \in Signers, Underway(t)'
        PROVE  run'[t].at \in DOMAIN Steps(run'[t].migration)
    <3>1. CASE t # s
      BY <1>1, <2>1, <3>1, ReviewOutcome DEF TypeInv, Underway
    <3>2. CASE t = s
      BY <1>1, <3>2, ReviewOutcome, StepCount
    <3> QED BY <3>1, <3>2
  <2>2. /\ UNCHANGED <<deployed, uploaded, dropped>> /\ reviews < MaxReviews
        /\ reviews' = reviews + 1 /\ raced' = (raced \/ Others(s))
    BY <1>1 DEF Review
  <2>3. reviews' \in 0 .. MaxReviews
    BY <2>2, UpgradeRunAssumption DEF TypeInv
  <2>4. raced' \in BOOLEAN
    BY <2>2 DEF TypeInv, Others
  <2> QED BY <1>1, <2>1, <2>2, <2>3, <2>4, ReviewOutcome DEF TypeInv
<1>2. ASSUME NEW s \in Signers, RunStep(s)
      PROVE  TypeInv'
  <2>1. PICK ok \in BOOLEAN, migrations \in Nat :
          StepOutcome(s, ok, migrations) /\ StepEffect(s, ok, migrations)
    BY <1>2, RunStepOutcome
  <2>2. run[s].target \in Builds
    BY DEF TypeInv, Runs
  <2>3. deployed' \in Builds /\ deployed' \in uploaded' /\ uploaded' \subseteq Builds
    BY <2>1, <2>2 DEF StepEffect, TypeInv
  <2>4. UNCHANGED <<reviews, raced, dropped>>
    BY <2>1 DEF StepEffect
  <2> QED BY <1>2, <2>1, <2>3, <2>4, RunStepOutcome, StepTyped
<1>3. ASSUME NEW s \in Signers, Stop(s) \/ Resume(s) \/ StartOver(s) \/ Abandon(s)
      PROVE  TypeInv'
  <2>1. /\ UNCHANGED <<deployed, uploaded, reviews>>
        /\ raced' \in BOOLEAN /\ dropped' \in BOOLEAN
    BY <1>3 DEF Stop, Resume, StartOver, Abandon, TypeInv, Others, Replaced
  <2>2. 1 \in DOMAIN Steps(run[s].migration)
    BY StepCount
  <2>3. Stop(s) \/ Resume(s) => run[s].at \in DOMAIN Steps(run[s].migration)
    BY DEF Stop, Resume, TypeInv, Underway
  <2> QED BY <1>3, <2>1, <2>2, <2>3, DecisionOutcome, DecisionTyped
<1>4. ASSUME NEW k \in Keys, FirstWrite(k)
      PROVE  TypeInv'
  BY <1>4 DEF FirstWrite, TypeInv, Underway
<1>5. CASE UNCHANGED vars
  BY <1>5 DEF vars, TypeInv, Underway
<1> QED BY <1>1, <1>2, <1>3, <1>4, <1>5 DEF Next

(* The contract starts with one build and no run. *)
LEMMA InitTyped == Init => TypeInv
<1> SUFFICES ASSUME Init PROVE TypeInv
  OBVIOUS
<1> DEFINE idle == [state |-> "idle", source |-> deployed, target |-> deployed,
                    migration |-> None, at |-> 1, migrations |-> 0]
<1>1. idle \in Runs
  BY UpgradeRunAssumption DEF Init, Runs
<1>2. run = [s \in Signers |-> idle]
  BY DEF Init
<1>3. run \in [Signers -> Runs] /\ \A s \in Signers : run[s].state = "idle"
  BY <1>1, <1>2
<1>4. 0 \in 0 .. MaxReviews
  BY UpgradeRunAssumption
<1> QED BY <1>3, <1>4 DEF Init, TypeInv, Underway

(* The contract runs one of the builds and a run stands at a step of its    *)
(* plan, however runs interleave, stop, fail and start over.                *)
THEOREM RunTypeCorrect == Spec => []TypeOK
<1>1. Init => TypeInv
  BY InitTyped
<1>2. TypeInv /\ [Next]_vars => TypeInv'
  BY TypeStep
<1>3. TypeInv => TypeOK
  BY DEF TypeInv, TypeOK, Underway
<1> QED BY <1>1, <1>2, <1>3, PTL DEF Spec

----------------------------------------------------------------------------
(* The inductive invariant.                                                 *)

\* A run carries out a plan that the tool made of its source and its target.
Reviewed ==
  \A s \in Signers : run[s].state # "idle" =>
    CanPlan(PlanReport(run[s].source, run[s].target), Network, run[s].migration)

\* Signers that take turns: the executable is the source of the run under
\* way until the upgrade, and its target from then on.
Turns ==
  ~raced =>
    \A s \in Signers : Underway(s) =>
      /\ \A t \in Signers : Underway(t) => t = s
      /\ run[s].at \in 2 .. 4 => deployed = run[s].source
      /\ run[s].at > 4 => deployed = run[s].target

\* A run migrates only after the upgrade, and never gets there twice.
OneMigration ==
  ~raced =>
    \A s \in Signers :
      /\ run[s].migrations <= 1
      /\ run[s].migrations = 1 => run[s].source.artifact.version < deployed.artifact.version
      /\ Underway(s) /\ run[s].at \in 2 .. 5 => run[s].migrations = 0

\* Between the upgrade and its migration, what the migration rewrites is still
\* in its old layout.
AwaitsMigration(s) ==
  /\ Underway(s) /\ run[s].at = 5 /\ run[s].migration # None
  /\ \A k \in DOMAIN ledger :
       /\ k \in DOMAIN deployed.schema.entries
       /\ \/ ledger[k] = deployed.schema.entries[k].layout
          \/ k \in MigratedBy(deployed.schema, Given(run[s].migration).entrypoint)
FitsOrAwaits == ~raced /\ ~dropped => Fits \/ \E s \in Signers : AwaitsMigration(s)

----------------------------------------------------------------------------
(* What a plan says of its two builds.                                      *)

(* A supplied value is not None, and is what was supplied. *)
LEMMA SomeGiven ==
  ASSUME NEW x
  PROVE  Some(x) # None /\ Given(Some(x)) = x
BY DEF Some, None, Given

(* The checks of a safe report that a run relies on are safe. *)
LEMMA SafeChecks ==
  ASSUME NEW source, NEW target, NEW from, NEW to, NEW policy, NEW context, NEW history,
         NEW limited,
         Safe(Findings(source, target, from, to, policy, context, history, limited))
  PROVE  /\ Safe(CheckVersions(source, target, policy))
         /\ Safe(CheckStorage(source, target, policy, from, to))
BY DEF Findings, Safe

(* Under require_semver_increase a release that passes is newer. *)
LEMMA SafeVersions ==
  ASSUME NEW source, NEW target, NEW policy,
         source.version \in Nat, target.version \in Nat,
         "require_semver_increase" \in policy.on,
         Safe(CheckVersions(source, target, policy))
  PROVE  source.version < target.version
<1>1. /\ Safe({Error("VER001")}) => FALSE
      /\ Safe({Error("VER003")}) => FALSE
  BY DEF Safe, Error
<1>2. Safe(When(target.version <= source.version, Error("VER002")))
  BY <1>1 DEF CheckVersions
<1>3. ~(target.version <= source.version)
  BY <1>2 DEF Safe, When, Error
<1> QED BY <1>3

(* Two declarations that pass: no key is dropped, a key with a new layout   *)
(* has a migration, and every declared migration names an entrypoint. *)
LEMMA SafeStorage ==
  ASSUME NEW source, NEW target, NEW policy, NEW from, NEW to,
         Safe(CheckStorage(source, target, policy, Some(from), Some(to)))
  PROVE  /\ DOMAIN from.entries \subseteq DOMAIN to.entries
         /\ \A k \in Relaid(from, to) : to.entries[k].migration # None
         /\ \A m \in DeclaredMigrations(to) : Given(m).entrypoint # None
<1> DEFINE removed == Removed(from.entries, to.entries)
           answers == {IF to.entries[k].migration # None THEN Warning("STO002")
                       ELSE Error("STO003") : k \in Relaid(from, to)}
<1>1. /\ Safe(When(removed # {}, Error("STO001")))
      /\ Safe(answers)
      /\ \A m \in DeclaredMigrations(to) : Safe(MigrationFindings(target, Given(m)))
  <2>1. /\ Safe(ValidateSchemaManifests(source, target, from, to))
        /\ Safe(CompareStorageSchemas(from, to))
    BY SomeGiven DEF CheckStorage, Safe
  <2> QED BY <2>1 DEF CompareStorageSchemas, ValidateSchemaManifests, Safe
<1>2. DOMAIN from.entries \subseteq DOMAIN to.entries
  BY <1>1 DEF Removed, When, Error, Safe
<1>3. ASSUME NEW k \in Relaid(from, to), to.entries[k].migration = None PROVE FALSE
  <2>1. Error("STO003") \in answers
    BY <1>3
  <2> QED BY <1>1, <2>1 DEF Safe, Error
<1>4. ASSUME NEW m \in DeclaredMigrations(to), Given(m).entrypoint = None PROVE FALSE
  <2>1. Error("STO014") \in MigrationFindings(target, Given(m))
    BY <1>4 DEF MigrationFindings
  <2> QED BY <1>1, <1>4, <2>1 DEF Safe, Error
<1> QED BY <1>2, <1>3, <1>4

(* A plan is made of a safe report, and both builds have the upgrade that   *)
(* the plan calls. *)
LEMMA PlanMade ==
  ASSUME NEW source, NEW target, NEW migration,
         CanPlan(PlanReport(source, target), Network, migration)
  PROVE  /\ Safe(Findings(source.artifact, target.artifact, Some(source.schema),
                          Some(target.schema), Policy, Context, Some(History), FALSE))
         /\ MigrationFits(PlanReport(source, target), migration)
         /\ HasStandardUpgrade(target.artifact)
         /\ migration # None => AcceptsCall(target.artifact, Given(migration))
BY DEF CanPlan, PlanReport, Report

(* The target of a plan can be upgraded the way the plan upgrades. *)
LEMMA PlannedReplaceable ==
  ASSUME NEW source, NEW target, NEW migration,
         CanPlan(PlanReport(source, target), Network, migration)
  PROVE  Replaceable(target.artifact)
<1>1. HasStandardUpgrade(target.artifact)
  BY PlanMade
<1>2. DOMAIN StandardUpgrade = {"new_wasm_hash", "operator"}
  BY DEF StandardUpgrade
<1> QED BY <1>1, <1>2 DEF HasStandardUpgrade, HasFunction, ReachesUpdate, ReachedFrom,
                          Replaceable, Invocable

(* Under require_semver_increase a plan leads to a newer version. *)
LEMMA PlannedNewer ==
  ASSUME NEW source \in Builds, NEW target \in Builds, NEW migration,
         "require_semver_increase" \in Policy.on,
         CanPlan(PlanReport(source, target), Network, migration)
  PROVE  source.artifact.version < target.artifact.version
<1>1. Safe(CheckVersions(source.artifact, target.artifact, Policy))
  BY PlanMade, SafeChecks
<1> QED BY <1>1, SafeVersions, UpgradeRunAssumption

(* A ledger in the layout of a plan's source has every key declared by the  *)
(* target, in the layout it has or with the migration of the plan. *)
LEMMA PlannedLayout ==
  ASSUME NEW source, NEW target, NEW migration,
         CanPlan(PlanReport(source, target), Network, migration),
         NEW k \in DOMAIN source.schema.entries
  PROVE  /\ k \in DOMAIN target.schema.entries
         /\ \/ source.schema.entries[k].layout = target.schema.entries[k].layout
            \/ /\ migration # None
               /\ k \in MigratedBy(target.schema, Given(migration).entrypoint)
<1> DEFINE from == source.schema
           to == target.schema
           m == to.entries[k].migration
           findings == Findings(source.artifact, target.artifact, Some(from), Some(to),
                                Policy, Context, Some(History), FALSE)
<1>1. Safe(CheckStorage(source.artifact, target.artifact, Policy, Some(from), Some(to)))
  BY PlanMade, SafeChecks
<1>2. /\ DOMAIN from.entries \subseteq DOMAIN to.entries
      /\ \A j \in Relaid(from, to) : to.entries[j].migration # None
      /\ \A d \in DeclaredMigrations(to) : Given(d).entrypoint # None
  BY <1>1, SafeStorage
<1>3. ASSUME from.entries[k].layout # to.entries[k].layout
      PROVE  migration # None /\ k \in MigratedBy(to, Given(migration).entrypoint)
  <2>1. k \in Relaid(from, to) /\ m # None
    BY <1>2, <1>3 DEF Relaid
  <2>2. Warning("STO002") \in findings
    <3> DEFINE answers == {IF to.entries[j].migration # None THEN Warning("STO002")
                           ELSE Error("STO003") : j \in Relaid(from, to)}
    <3>1. Warning("STO002") \in answers
      BY <2>1
    <3>2. answers \subseteq CompareStorageSchemas(from, to)
      BY DEF CompareStorageSchemas
    <3> HIDE DEF answers
    <3>3. Warning("STO002") \in CheckStorage(source.artifact, target.artifact, Policy,
                                             Some(from), Some(to))
      BY <3>1, <3>2, SomeGiven DEF CheckStorage
    <3> QED BY <3>3 DEF Findings
  <2>3. MigrationRequired(PlanReport(source, target))
    BY <2>2 DEF MigrationRequired, PlanReport, Report
  <2>4. migration # None /\ DeclaredEntrypoints(to) = {Given(migration).entrypoint}
    <3>1. Given(PlanReport(source, target).target_schema) = to
      BY SomeGiven DEF PlanReport, Report
    <3> QED BY <2>3, <3>1, PlanMade DEF MigrationFits
  <2>5. m \in DeclaredMigrations(to) /\ Given(m).entrypoint # None
    BY <1>2, <2>1 DEF DeclaredMigrations, Relaid
  <2>6. Given(Given(m).entrypoint) \in DeclaredEntrypoints(to)
    BY <2>5 DEF DeclaredEntrypoints
  <2>7. Given(Given(m).entrypoint) = Given(migration).entrypoint
    BY <2>4, <2>6
  <2> QED BY <1>2, <2>1, <2>4, <2>5, <2>7 DEF MigratedBy
<1> QED BY <1>2, <1>3

----------------------------------------------------------------------------
(* A run's plan, and upgrades that keep the contract upgradeable.           *)

LEMMA ReviewedStep ==
  ASSUME TypeInv, Reviewed, [Next]_vars
  PROVE  Reviewed'
<1> SUFFICES ASSUME NEW t \in Signers, run'[t].state # "idle"
             PROVE  CanPlan(PlanReport(run'[t].source, run'[t].target), Network,
                            run'[t].migration)
  BY DEF Reviewed
<1>1. ASSUME run'[t].source = run[t].source, run'[t].target = run[t].target,
             run'[t].migration = run[t].migration, run[t].state # "idle"
      PROVE  CanPlan(PlanReport(run'[t].source, run'[t].target), Network, run'[t].migration)
  BY <1>1 DEF Reviewed
<1>2. ASSUME run'[t] = run[t]
      PROVE  CanPlan(PlanReport(run'[t].source, run'[t].target), Network, run'[t].migration)
  BY <1>1, <1>2
<1>3. ASSUME NEW s \in Signers, NEW target \in Builds, NEW migration \in Calls,
             Review(s, target, migration)
      PROVE  CanPlan(PlanReport(run'[t].source, run'[t].target), Network, run'[t].migration)
  <2>1. CanPlan(PlanReport(deployed, target), Network, migration)
    BY <1>3 DEF Review
  <2>2. CASE t = s
    BY <1>3, <2>1, <2>2, ReviewOutcome
  <2>3. CASE t # s
    BY <1>2, <1>3, <2>3, ReviewOutcome
  <2> QED BY <2>2, <2>3
<1>4. ASSUME NEW s \in Signers, RunStep(s)
      PROVE  CanPlan(PlanReport(run'[t].source, run'[t].target), Network, run'[t].migration)
  <2>1. PICK ok \in BOOLEAN, migrations \in Nat : StepOutcome(s, ok, migrations)
    BY <1>4, RunStepOutcome
  <2>2. run[s].state # "idle"
    BY <1>4, RunStepOutcome DEF Underway
  <2> QED BY <1>1, <1>2, <2>1, <2>2 DEF StepOutcome
<1>5. ASSUME NEW s \in Signers, Stop(s) \/ Resume(s) \/ StartOver(s) \/ Abandon(s)
      PROVE  CanPlan(PlanReport(run'[t].source, run'[t].target), Network, run'[t].migration)
  <2>1. PICK state, at : Decided(s, state, at)
    BY <1>5, DecisionOutcome
  <2>2. run[s].state # "idle"
    BY <1>5 DEF Stop, Resume, StartOver, Abandon
  <2> QED BY <1>1, <1>2, <2>1, <2>2 DEF Decided
<1>6. CASE (\E k \in Keys : FirstWrite(k)) \/ UNCHANGED vars
  BY <1>2, <1>6 DEF FirstWrite, vars
<1> QED BY <1>3, <1>4, <1>5, <1>6 DEF Next

(* Plans under way passed the validator, at every moment. *)
LEMMA ReviewedCorrect == Spec => [](TypeInv /\ Reviewed)
<1>1. Init => TypeInv /\ Reviewed
  BY InitTyped DEF Init, Reviewed
<1>2. TypeInv /\ Reviewed /\ [Next]_vars => (TypeInv /\ Reviewed)'
  BY TypeStep, ReviewedStep
<1> QED BY <1>1, <1>2, PTL DEF Spec

(* Only the upgrade step of a run replaces the executable, by its target.   *)
LEMMA ReplacedByRun ==
  ASSUME TypeInv, [Next]_vars, deployed' # deployed
  PROVE  \E s \in Signers : Underway(s) /\ run[s].at = 4 /\ deployed' = run[s].target
<1>1. PICK s \in Signers : RunStep(s)
  BY DEF Next, Review, Stop, Resume, StartOver, Abandon, FirstWrite, vars
<1>2. PICK ok \in BOOLEAN, migrations \in Nat : StepEffect(s, ok, migrations)
  BY <1>1, RunStepOutcome
<1> QED BY <1>1, <1>2, RunStepOutcome DEF StepEffect

(* No upgrade leaves a contract that the plans cannot upgrade any more:     *)
(* whatever the policy leaves out, create_plan asks both builds for the     *)
(* standard upgrade, and an executable is only replaced through a plan.     *)
THEOREM UpgradesStayPossible == Spec => UpgradeStaysPossible
<1>1. TypeInv /\ Reviewed /\ [Next]_vars
        => [deployed' # deployed => Replaceable(deployed'.artifact)]_vars
  <2> SUFFICES ASSUME TypeInv, Reviewed, [Next]_vars, deployed' # deployed
               PROVE  Replaceable(deployed'.artifact)
    OBVIOUS
  <2>1. PICK s \in Signers : Underway(s) /\ deployed' = run[s].target
    BY ReplacedByRun
  <2>2. CanPlan(PlanReport(run[s].source, run[s].target), Network, run[s].migration)
    BY <2>1 DEF Reviewed, Underway
  <2> QED BY <2>1, <2>2, PlannedReplaceable
<1> QED BY <1>1, ReviewedCorrect, PTL DEF Spec, UpgradeStaysPossible

----------------------------------------------------------------------------
(* Turns.                                                                   *)

(* A race, once recorded, stays recorded. *)
LEMMA RaceRemembered ==
  ASSUME [Next]_vars, ~raced'
  PROVE  ~raced
BY DEF Next, Review, RunStep, VerifyCurrentExecutable, UploadTargetWasm, SimulateUpgrade,
   ExecuteUpgrade, ExecuteMigration, VerifyExecutable, VerifyInvariants, Stop, Resume,
   StartOver, Abandon, FirstWrite, vars

(* Every step keeps the turns of the signers. *)
LEMMA TurnsStep ==
  ASSUME TypeInv, Turns, [Next]_vars
  PROVE  Turns'
<1> SUFFICES ASSUME ~raced', NEW t \in Signers, Underway(t)'
             PROVE  /\ \A u \in Signers : Underway(u)' => u = t
                    /\ run'[t].at \in 2 .. 4 => deployed' = run'[t].source
                    /\ run'[t].at > 4 => deployed' = run'[t].target
  BY DEF Turns
<1>1. ~raced
  BY RaceRemembered
<1>2. /\ \A u \in Signers : Underway(u) /\ Underway(t) => u = t
      /\ Underway(t) /\ run[t].at \in 2 .. 4 => deployed = run[t].source
      /\ Underway(t) /\ run[t].at > 4 => deployed = run[t].target
  BY <1>1 DEF Turns
<1>3. ASSUME NEW s \in Signers, \A u \in Signers \ {s} : ~Underway(u)' PROVE t = s
  BY <1>3
<1>4. ASSUME NEW s \in Signers, NEW target \in Builds, NEW migration \in Calls,
             Review(s, target, migration)
      PROVE  t = s /\ run'[t].at = 1 /\ \A u \in Signers \ {s} : ~Underway(u)'
  <2>1. \A u \in Signers \ {s} : ~Underway(u)
    BY <1>4 DEF Review, Others
  <2> QED BY <1>4, <2>1, ReviewOutcome DEF Underway
<1>5. ASSUME NEW s \in Signers, RunStep(s)
      PROVE  /\ \A u \in Signers : Underway(u)' => u = t
             /\ run'[t].at \in 2 .. 4 => deployed' = run'[t].source
             /\ run'[t].at > 4 => deployed' = run'[t].target
  <2>1. PICK ok \in BOOLEAN, migrations \in Nat :
          StepOutcome(s, ok, migrations) /\ StepEffect(s, ok, migrations)
    BY <1>5, RunStepOutcome
  <2>2. Underway(s) /\ run[s].at \in Nat
    BY <1>5, RunStepOutcome DEF TypeInv, Runs
  <2>3. \A u \in Signers \ {s} : ~Underway(u)
    BY <1>1, <2>2 DEF Turns
  <2>4. t = s /\ \A u \in Signers \ {s} : ~Underway(u)'
    BY <2>1, <2>3 DEF StepOutcome, Underway
  <2>5. ok /\ run'[s].at = run[s].at + 1
    BY <2>1, <2>4 DEF StepOutcome, Underway
  <2>6. CASE run[s].at = 1
    BY <2>1, <2>4, <2>5, <2>6 DEF StepOutcome, StepEffect
  <2>7. CASE run[s].at \in 2 .. 3
    BY <1>2, <2>1, <2>2, <2>4, <2>5, <2>7 DEF StepOutcome, StepEffect
  <2>8. CASE run[s].at = 4
    BY <2>1, <2>4, <2>5, <2>8 DEF StepOutcome, StepEffect
  <2>9. CASE run[s].at > 4
    BY <1>2, <2>1, <2>2, <2>4, <2>5, <2>9 DEF StepOutcome, StepEffect
  <2>10. run[s].at # 0
    BY <2>2, StepCount DEF TypeInv
  <2> QED BY <2>2, <2>6, <2>7, <2>8, <2>9, <2>10
<1>6. ASSUME NEW s \in Signers, Stop(s) \/ Resume(s)
      PROVE  /\ \A u \in Signers : Underway(u)' => u = t
             /\ run'[t].at \in 2 .. 4 => deployed' = run'[t].source
             /\ run'[t].at > 4 => deployed' = run'[t].target
  <2>1. PICK state : Decided(s, state, run[s].at)
    BY <1>6, DecisionOutcome
  <2>2. Underway(s) /\ deployed' = deployed
    BY <1>6 DEF Stop, Resume, Underway
  <2>3. \A u \in Signers \ {s} : ~Underway(u)
    BY <1>1, <2>2 DEF Turns
  <2>4. t = s /\ \A u \in Signers \ {s} : ~Underway(u)'
    BY <2>1, <2>3 DEF Decided, Underway
  <2> QED BY <1>2, <2>1, <2>2, <2>4 DEF Decided
<1>7. ASSUME NEW s \in Signers, StartOver(s)
      PROVE  t = s /\ run'[t].at = 1 /\ \A u \in Signers \ {s} : ~Underway(u)'
  <2>1. \A u \in Signers \ {s} : ~Underway(u)
    BY <1>7 DEF StartOver, Others
  <2>2. Decided(s, "running", 1)
    BY <1>7, DecisionOutcome
  <2> QED BY <2>1, <2>2 DEF Decided, Underway
<1>8. ASSUME NEW s \in Signers, Abandon(s) PROVE FALSE
  <2>1. \A u \in Signers \ {s} : ~Underway(u)
    BY <1>1, <1>8 DEF Abandon, Underway, Turns
  <2>2. Decided(s, "failed", run[s].at)
    BY <1>8, DecisionOutcome
  <2> QED BY <2>1, <2>2 DEF Decided, Underway
<1>9. CASE (\E k \in Keys : FirstWrite(k)) \/ UNCHANGED vars
  BY <1>2, <1>9 DEF FirstWrite, vars, Underway
<1> QED BY <1>4, <1>5, <1>6, <1>7, <1>8, <1>9 DEF Next

(* The same, at every moment. *)
LEMMA TurnsCorrect == Spec => [](TypeInv /\ Turns)
<1>1. Init => TypeInv /\ Turns
  BY InitTyped DEF Init, Turns, Underway
<1>2. TypeInv /\ Turns /\ [Next]_vars => (TypeInv /\ Turns)'
  BY TypeStep, TurnsStep
<1> QED BY <1>1, <1>2, PTL DEF Spec

(* Signers that take turns install a build only over the one it was         *)
(* validated against: the first step of a plan compares the executable with *)
(* the plan's source, and while no other run is under way nothing replaces  *)
(* it before the upgrade. *)
THEOREM ReplacementsReviewed == Spec => ReplacesReviewedSource
<1>1. TypeInv /\ Turns /\ [Next]_vars
        => [deployed' # deployed /\ ~raced =>
              \E s \in Signers : run[s].source = deployed /\ run[s].target = deployed']_vars
  BY ReplacedByRun DEF Turns
<1> QED BY <1>1, TurnsCorrect, PTL DEF Spec, ReplacesReviewedSource

----------------------------------------------------------------------------
(* At most one migration.                                                   *)

\* What OneMigration says of one run.
MigratesAtMostOnce(t) ==
  /\ run[t].migrations <= 1
  /\ run[t].migrations = 1 => run[t].source.artifact.version < deployed.artifact.version
  /\ Underway(t) /\ run[t].at \in 2 .. 5 => run[t].migrations = 0

(* Every step keeps a migration from running twice. *)
LEMMA OneMigrationStep ==
  ASSUME "require_semver_increase" \in Policy.on,
         TypeInv, Reviewed, Turns, OneMigration, [Next]_vars
  PROVE  OneMigration'
<1> SUFFICES ASSUME ~raced', NEW t \in Signers
             PROVE  MigratesAtMostOnce(t)'
  BY DEF OneMigration, MigratesAtMostOnce
<1>1. ~raced /\ MigratesAtMostOnce(t) /\ run[t] \in Runs /\ deployed \in Builds
  BY RaceRemembered DEF OneMigration, MigratesAtMostOnce, TypeInv
<1>2. \A build \in Builds : build.artifact.version \in Nat
  BY UpgradeRunAssumption
<1>3. ASSUME run'[t] = run[t], deployed' = deployed
      PROVE  MigratesAtMostOnce(t)'
  BY <1>1, <1>3 DEF MigratesAtMostOnce, Underway
<1>4. ASSUME NEW s \in Signers, NEW target \in Builds, NEW migration \in Calls,
             Review(s, target, migration)
      PROVE  MigratesAtMostOnce(t)'
  <2>1. CASE t = s
    BY <1>4, <2>1, ReviewOutcome DEF MigratesAtMostOnce
  <2>2. CASE t # s
    BY <1>3, <1>4, <2>2, ReviewOutcome DEF Review
  <2> QED BY <2>1, <2>2
<1>5. ASSUME NEW s \in Signers, RunStep(s)
      PROVE  MigratesAtMostOnce(t)'
  <2>1. PICK ok \in BOOLEAN, migrations \in Nat :
          StepOutcome(s, ok, migrations) /\ StepEffect(s, ok, migrations)
    BY <1>5, RunStepOutcome
  <2>2. Underway(s) /\ run[s] \in Runs
    BY <1>5, RunStepOutcome DEF TypeInv
  <2>3. run[s].source.artifact.version < run[s].target.artifact.version
    BY <2>2, PlannedNewer DEF Reviewed, Underway, Runs
  <2>4. /\ run[s].at \in 2 .. 4 => deployed = run[s].source
        /\ run[s].at > 4 => deployed = run[s].target
    BY <1>1, <2>2 DEF Turns
  <2>5. CASE t # s
    <3>1. run'[t] = run[t]
      BY <2>1, <2>5 DEF StepOutcome
    <3>2. deployed' = deployed \/ (run[s].at = 4 /\ deployed' = run[s].target)
      BY <2>1 DEF StepEffect
    <3>3. CASE run[s].at = 4 /\ deployed' = run[s].target
      <4>1. deployed = run[s].source
        BY <2>4, <3>3
      <4>2. run[t].migrations = 1 => run[t].source.artifact.version < deployed'.artifact.version
        BY <1>1, <1>2, <2>2, <2>3, <3>3, <4>1 DEF MigratesAtMostOnce, Runs
      <4> QED BY <1>1, <3>1, <4>2 DEF MigratesAtMostOnce, Underway
    <3> QED BY <1>3, <3>1, <3>2, <3>3
  <2>6. CASE t = s /\ run[s].at = 5 /\ run[s].migration # None /\ ok
    <3>1. run[s].migrations = 0 /\ migrations = 1 /\ deployed' = run[s].target
      BY <1>1, <2>1, <2>2, <2>4, <2>6 DEF MigratesAtMostOnce, StepEffect
    <3>2. run'[s].migrations = 1 /\ run'[s].at = 6 /\ run'[s].source = run[s].source
      BY <2>1, <2>6, <3>1 DEF StepOutcome
    <3> QED BY <2>3, <2>6, <3>1, <3>2 DEF MigratesAtMostOnce
  <2>7. CASE t = s /\ ~(run[s].at = 5 /\ run[s].migration # None /\ ok)
    <3>1. run'[s].migrations = run[s].migrations /\ run'[s].source = run[s].source
      BY <2>1, <2>2, <2>7 DEF StepOutcome, StepEffect, Runs
    <3>2. run[s].migrations = 1 => deployed' = deployed
      BY <1>1, <2>1, <2>2, <2>7 DEF StepEffect, MigratesAtMostOnce
    <3>3. ASSUME Underway(s)', run'[s].at \in 2 .. 5
          PROVE  run[s].migrations = 0
      <4>1. ok /\ run'[s].at = run[s].at + 1
        BY <2>1, <3>3 DEF StepOutcome, Underway
      <4>2. run[s].at \in 1 .. 4
        BY <2>2, <3>3, <4>1 DEF Runs
      <4>3. CASE run[s].at \in 2 .. 4
        BY <1>1, <2>2, <2>7, <4>3 DEF MigratesAtMostOnce
      <4>4. CASE run[s].at = 1
        <5>1. deployed = run[s].source
          BY <2>1, <4>1, <4>4 DEF StepEffect
        <5>2. run[s].migrations # 1
          BY <1>1, <1>2, <2>7, <5>1 DEF MigratesAtMostOnce
        <5> QED BY <1>1, <2>2, <2>7, <5>2 DEF MigratesAtMostOnce, Runs
      <4> QED BY <4>2, <4>3, <4>4
    <3> QED BY <1>1, <2>7, <3>1, <3>2, <3>3 DEF MigratesAtMostOnce
  <2> QED BY <2>5, <2>6, <2>7
<1>6. ASSUME NEW s \in Signers, Stop(s) \/ Resume(s) \/ StartOver(s) \/ Abandon(s)
      PROVE  MigratesAtMostOnce(t)'
  <2>1. deployed' = deployed
    BY <1>6 DEF Stop, Resume, StartOver, Abandon
  <2>2. CASE t # s
    BY <1>3, <1>6, <2>1, <2>2, DecisionOutcome DEF Decided
  <2>3. CASE t = s /\ (Stop(s) \/ Resume(s))
    <3>1. PICK state : Decided(s, state, run[s].at)
      BY <2>3, DecisionOutcome
    <3>2. Underway(s)
      BY <2>3 DEF Stop, Resume, Underway
    <3> QED BY <1>1, <2>1, <2>3, <3>1, <3>2 DEF Decided, MigratesAtMostOnce
  <2>4. CASE t = s /\ StartOver(s)
    BY <1>1, <2>1, <2>4, DecisionOutcome DEF Decided, MigratesAtMostOnce
  <2>5. CASE t = s /\ Abandon(s)
    BY <1>1, <2>1, <2>5, DecisionOutcome DEF Decided, MigratesAtMostOnce, Underway
  <2> QED BY <1>6, <2>2, <2>3, <2>4, <2>5
<1>7. CASE (\E k \in Keys : FirstWrite(k)) \/ UNCHANGED vars
  BY <1>3, <1>7 DEF FirstWrite, vars
<1> QED BY <1>4, <1>5, <1>6, <1>7 DEF Next

(* Signers that take turns never run the migration of a plan twice, however *)
(* often they stop and start over, under a policy that asks for increasing  *)
(* versions: once the migration ran, the executable is newer than the       *)
(* source that the plan's first step asks for, and stays newer. *)
THEOREM RunsMigrateOnce ==
  ASSUME "require_semver_increase" \in Policy.on
  PROVE  Spec => []MigratesOnce
<1>1. Init => TypeInv /\ Reviewed /\ Turns /\ OneMigration
  BY InitTyped DEF Init, Reviewed, Turns, OneMigration, Underway
<1>2. TypeInv /\ Reviewed /\ Turns /\ OneMigration /\ [Next]_vars
        => (TypeInv /\ Reviewed /\ Turns /\ OneMigration)'
  BY TypeStep, ReviewedStep, TurnsStep, OneMigrationStep
<1>3. OneMigration => MigratesOnce
  BY DEF OneMigration, MigratesOnce
<1> QED BY <1>1, <1>2, <1>3, PTL DEF Spec

----------------------------------------------------------------------------
(* The ledger's layout.                                                     *)

LEMMA DropRemembered ==
  ASSUME [Next]_vars, ~dropped'
  PROVE  ~dropped
BY DEF Next, Review, RunStep, VerifyCurrentExecutable, UploadTargetWasm, SimulateUpgrade,
   ExecuteUpgrade, ExecuteMigration, VerifyExecutable, VerifyInvariants, Stop, Resume,
   StartOver, Abandon, FirstWrite, vars

(* A run that waits for its migration has replaced the executable. *)
LEMMA AwaitingReplaced ==
  ASSUME NEW s \in Signers, AwaitsMigration(s)
  PROVE  Replaced(s)
<1>1. run[s].at = 5 /\ run[s].migration # None
  BY DEF AwaitsMigration
<1>2. 4 \in 1 .. run[s].at - 1 /\ 4 \in DOMAIN Steps(run[s].migration)
  BY <1>1, StepCount
<1>3. Steps(run[s].migration)[4] = "execute_upgrade"
  BY <1>2, StepPlace
<1> QED BY <1>2, <1>3 DEF Replaced

(* The upgrade leaves a ledger that fits, or waits for the plan's migration.*)
LEMMA UpgradeFits ==
  ASSUME TypeInv, Reviewed, Fits, NEW s \in Signers, Underway(s),
         deployed = run[s].source, run[s].at = 4, deployed' = run[s].target, ledger' = ledger,
         StepOutcome(s, TRUE, 0)
  PROVE  Fits' \/ AwaitsMigration(s)'
<1> DEFINE migration == run[s].migration
           target == run[s].target
<1>1. CanPlan(PlanReport(deployed, target), Network, migration)
  BY DEF Reviewed, Underway
<1>2. \A k \in DOMAIN ledger :
        /\ k \in DOMAIN deployed.schema.entries
        /\ ledger[k] = deployed.schema.entries[k].layout
  BY DEF Fits
<1>3. ASSUME NEW k \in DOMAIN ledger
      PROVE  /\ k \in DOMAIN target.schema.entries
             /\ \/ ledger[k] = target.schema.entries[k].layout
                \/ /\ migration # None
                   /\ k \in MigratedBy(target.schema, Given(migration).entrypoint)
  BY <1>1, <1>2, PlannedLayout
<1>4. CASE migration = None
  BY <1>3, <1>4 DEF Fits
<1>5. CASE migration # None
  <2>1. run'[s].at = 5 /\ run'[s].migration = migration
    BY DEF StepOutcome
  <2>2. run[s].at # Len(Steps(migration))
    BY StepCount
  <2>3. Underway(s)'
    BY <2>2 DEF StepOutcome, Underway
  <2> QED BY <1>3, <1>5, <2>1, <2>3 DEF AwaitsMigration
<1> QED BY <1>4, <1>5

(* The migration of a plan succeeds, and the ledger fits when it is done. *)
LEMMA MigrationDone ==
  ASSUME TypeInv, Reviewed, NEW s \in Signers, AwaitsMigration(s) \/ (Fits /\ Underway(s)),
         deployed = run[s].target, run[s].at = 5, run[s].migration # None,
         NEW ok \in BOOLEAN, NEW migrations, StepEffect(s, ok, migrations)
  PROVE  Fits'
<1> DEFINE call == Given(run[s].migration)
           moved == MigratedBy(deployed.schema, call.entrypoint)
<1>1. AcceptsCall(deployed.artifact, call)
  BY PlanMade DEF Reviewed, AwaitsMigration, Underway
<1>2. ok
  BY <1>1 DEF AcceptsCall, HasFunction, Invocable, StepEffect
<1>3. /\ deployed' = deployed
      /\ ledger' = [k \in DOMAIN ledger |->
                      IF k \in moved THEN deployed.schema.entries[k].layout ELSE ledger[k]]
  BY <1>2 DEF StepEffect
<1>4. \A k \in DOMAIN ledger :
        /\ k \in DOMAIN deployed.schema.entries
        /\ ledger[k] = deployed.schema.entries[k].layout \/ k \in moved
  BY DEF Fits, AwaitsMigration
<1> HIDE DEF moved
<1> QED BY <1>3, <1>4 DEF Fits

(* Every step keeps the ledger readable, or a migration pending. *)
LEMMA FitsStep ==
  ASSUME TypeInv, Reviewed, Turns, FitsOrAwaits, [Next]_vars
  PROVE  FitsOrAwaits'
<1> SUFFICES ASSUME ~raced', ~dropped'
             PROVE  Fits' \/ \E s \in Signers : AwaitsMigration(s)'
  BY DEF FitsOrAwaits
<1>1. ~raced /\ ~dropped
  BY RaceRemembered, DropRemembered
<1>2. Fits \/ \E s \in Signers : AwaitsMigration(s)
  BY <1>1 DEF FitsOrAwaits
<1>3. \A s \in Signers : AwaitsMigration(s) => Underway(s)
  BY DEF AwaitsMigration
<1>4. \A s, t \in Signers : Underway(s) /\ Underway(t) => s = t
  BY <1>1 DEF Turns
<1>5. ASSUME NEW s \in Signers, NEW target \in Builds, NEW migration \in Calls,
             Review(s, target, migration)
      PROVE  Fits'
  <2>1. \A t \in Signers : ~Underway(t)
    BY <1>5 DEF Review, Others
  <2> QED BY <1>2, <1>3, <1>5, <2>1 DEF Review, Fits
<1>6. ASSUME NEW s \in Signers, RunStep(s)
      PROVE  Fits' \/ AwaitsMigration(s)'
  <2>1. PICK ok \in BOOLEAN, migrations \in Nat :
          StepOutcome(s, ok, migrations) /\ StepEffect(s, ok, migrations)
    BY <1>6, RunStepOutcome
  <2>2. Underway(s) /\ (Fits \/ AwaitsMigration(s))
    BY <1>2, <1>3, <1>4, <1>6, RunStepOutcome
  <2>3. /\ run[s].at = 4 => deployed = run[s].source
        /\ run[s].at = 5 => deployed = run[s].target
    BY <1>1, <2>2 DEF Turns
  <2>4. CASE run[s].at = 4 /\ ok
    <3>1. Fits /\ deployed' = run[s].target /\ ledger' = ledger /\ migrations = 0
      BY <2>1, <2>2, <2>4 DEF AwaitsMigration, StepEffect
    <3> QED BY <2>1, <2>2, <2>3, <2>4, <3>1, UpgradeFits DEF StepOutcome
  <2>5. CASE run[s].at = 5 /\ run[s].migration # None
    BY <2>1, <2>2, <2>3, <2>5, MigrationDone
  <2>6. CASE ~(run[s].at = 4 /\ ok) /\ ~(run[s].at = 5 /\ run[s].migration # None)
    <3>1. Fits /\ deployed' = deployed /\ ledger' = ledger
      BY <2>1, <2>2, <2>6 DEF AwaitsMigration, StepEffect
    <3> QED BY <3>1 DEF Fits
  <2> QED BY <2>4, <2>5, <2>6
<1>7. ASSUME NEW s \in Signers, Stop(s) \/ Resume(s)
      PROVE  Fits' \/ AwaitsMigration(s)'
  <2>1. PICK state \in {"running", "stopped"} : Decided(s, state, run[s].at)
    BY <1>7, DecisionOutcome
  <2>2. Underway(s) /\ deployed' = deployed /\ ledger' = ledger
    BY <1>7 DEF Stop, Resume, Underway
  <2>3. CASE Fits
    BY <2>2, <2>3 DEF Fits
  <2>4. CASE AwaitsMigration(s)
    BY <2>1, <2>2, <2>4 DEF AwaitsMigration, Decided, Underway
  <2> QED BY <1>2, <1>3, <1>4, <2>2, <2>3, <2>4
<1>8. ASSUME NEW s \in Signers, StartOver(s) \/ Abandon(s)
      PROVE  Fits'
  <2>1. deployed' = deployed /\ ledger' = ledger /\ ~Replaced(s)
    BY <1>8 DEF StartOver, Abandon
  <2>2. \A t \in Signers : Underway(t) => t = s
    BY <1>4, <1>8 DEF StartOver, Abandon, Others, Underway
  <2>3. \A t \in Signers : ~AwaitsMigration(t)
    BY <1>3, <2>1, <2>2, AwaitingReplaced
  <2> QED BY <1>2, <2>1, <2>3 DEF Fits
<1>9. ASSUME NEW k \in Keys, FirstWrite(k)
      PROVE  Fits' \/ \E s \in Signers : AwaitsMigration(s)'
  <2>1. /\ deployed' = deployed /\ run' = run /\ k \in DOMAIN deployed.schema.entries
        /\ DOMAIN ledger' = DOMAIN ledger \cup {k}
        /\ \A key \in DOMAIN ledger' :
             ledger'[key] = IF key = k THEN deployed.schema.entries[k].layout ELSE ledger[key]
    BY <1>9 DEF FirstWrite
  <2>2. CASE Fits
    BY <2>1, <2>2 DEF Fits
  <2>3. ASSUME NEW s \in Signers, AwaitsMigration(s)
        PROVE  AwaitsMigration(s)'
    BY <2>1, <2>3 DEF AwaitsMigration, Underway
  <2> QED BY <1>2, <2>2, <2>3
<1>10. CASE UNCHANGED vars
  BY <1>2, <1>10 DEF vars, Fits, AwaitsMigration, Underway
<1> QED BY <1>5, <1>6, <1>7, <1>8, <1>9, <1>10 DEF Next

(* Signers that take turns, and take a run up again once it replaced the    *)
(* executable, leave a ledger that the running executable reads: whatever   *)
(* the policy leaves out, the validator always compares the declarations,   *)
(* create_plan insists on the one migration that the target declares, and   *)
(* the migration of a plan cannot be turned down. *)
THEOREM SettledContractsFit == Spec => []SettledContractFits
<1>1. Init => TypeInv /\ Reviewed /\ Turns /\ FitsOrAwaits
  BY InitTyped DEF Init, Reviewed, Turns, FitsOrAwaits, Fits, Underway
<1>2. TypeInv /\ Reviewed /\ Turns /\ FitsOrAwaits /\ [Next]_vars
        => (TypeInv /\ Reviewed /\ Turns /\ FitsOrAwaits)'
  BY TypeStep, ReviewedStep, TurnsStep, FitsStep
<1>3. FitsOrAwaits => SettledContractFits
  BY DEF FitsOrAwaits, SettledContractFits, AwaitsMigration
<1> QED BY <1>1, <1>2, <1>3, PTL DEF Spec
----------------------------------------------------------------------------
(* Plans add up to reviewed upgrades (module ReviewedUpgrades).             *)

\* Values on the ledger have a layout each, and nothing else is on it.
LedgerMaps == ledger = [k \in DOMAIN ledger |-> ledger[k]]

(* A migration and a first write leave a map of keys; nothing else writes.  *)
LEMMA LedgerMapsStep ==
  ASSUME TypeInv, LedgerMaps, [Next]_vars
  PROVE  LedgerMaps'
<1>1. ASSUME NEW s \in Signers, RunStep(s)
      PROVE  LedgerMaps'
  <2>1. PICK ok \in BOOLEAN, migrations \in Nat : StepEffect(s, ok, migrations)
    BY <1>1, RunStepOutcome
  <2> QED BY <2>1 DEF StepEffect, LedgerMaps
<1>2. ASSUME NEW k \in Keys, FirstWrite(k)
      PROVE  LedgerMaps'
  BY <1>2 DEF FirstWrite, LedgerMaps
<1>3. ASSUME UNCHANGED ledger
      PROVE  LedgerMaps'
  BY <1>3 DEF LedgerMaps
<1> QED BY <1>1, <1>2, <1>3 DEF Next, Review, Stop, Resume, StartOver, Abandon, vars

(* What the abstract contract declares is what the running build declares,  *)
(* and it has nothing unfit when the ledger fits. *)
LEMMA DeclaredByBuild ==
  ASSUME deployed \in Builds
  PROVE  /\ DOMAIN Upgrades!Declared = DOMAIN deployed.schema.entries
         /\ \A k \in DOMAIN deployed.schema.entries :
              Upgrades!Declared[k] = deployed.schema.entries[k].layout
         /\ Fits <=> Upgrades!Unfit = {}
<1>1. Upgrades!Declared = [k \in DOMAIN deployed.schema.entries |->
                             deployed.schema.entries[k].layout]
  BY DEF Upgrades!Declared, DeclaredLayout
<1>2. /\ DOMAIN Upgrades!Declared = DOMAIN deployed.schema.entries
      /\ \A k \in DOMAIN deployed.schema.entries :
           Upgrades!Declared[k] = deployed.schema.entries[k].layout
  BY <1>1
<1>3. Fits <=> Upgrades!Unfit = {}
  BY <1>2 DEF Fits, Upgrades!Unfit
<1> QED BY <1>2, <1>3

(* The upgrade step of a run replaces the executable the reviewed way.      *)
LEMMA UpgradeReplaces ==
  ASSUME TypeInv, Reviewed, Fits, NEW s \in Signers, Underway(s),
         deployed = run[s].source, deployed' = run[s].target, ledger' = ledger
  PROVE  Upgrades!Replace(run[s].target)
<1> DEFINE target == run[s].target
<1>1. /\ CanPlan(PlanReport(deployed, target), Network, run[s].migration)
      /\ deployed \in Builds /\ target \in Builds /\ run[s].migration \in Calls
  BY DEF Reviewed, Underway, TypeInv, Runs
<1>2. <<deployed, target>> \in ApprovedPairs
  BY <1>1 DEF ApprovedPairs
<1>3. \A k \in DOMAIN ledger : k \in DOMAIN target.schema.entries
  BY <1>1, PlannedLayout DEF Fits
<1>4. DOMAIN ledger \subseteq DOMAIN DeclaredLayout[target]
  BY <1>1, <1>3 DEF DeclaredLayout
<1>5. Upgrades!Unfit = {}
  BY <1>1, DeclaredByBuild
<1> QED BY <1>2, <1>4, <1>5 DEF Upgrades!Replace

(* The migration of a run rewrites whatever is unfit, at once, or nothing.  *)
LEMMA MigrationMigrates ==
  ASSUME TypeInv, LedgerMaps, NEW s \in Signers, NEW ok \in BOOLEAN, NEW migrations,
         StepEffect(s, ok, migrations), run[s].at = 5, Fits'
  PROVE  Upgrades!Migrate \/ UNCHANGED <<deployed, ledger>>
<1>1. deployed' = deployed /\ deployed \in Builds
  BY DEF StepEffect, TypeInv
<1>2. /\ ledger' = [k \in DOMAIN ledger |-> ledger'[k]]
  BY DEF StepEffect, LedgerMaps
<1>3. /\ DOMAIN Upgrades!Declared = DOMAIN deployed.schema.entries
      /\ \A k \in DOMAIN deployed.schema.entries :
           Upgrades!Declared[k] = deployed.schema.entries[k].layout
      /\ Fits <=> Upgrades!Unfit = {}
  BY <1>1, DeclaredByBuild
<1>4. \A k \in DOMAIN ledger : ledger'[k] = deployed.schema.entries[k].layout
                                 /\ k \in DOMAIN deployed.schema.entries
  BY <1>1, <1>2 DEF Fits
<1>5. CASE Fits
  <2>1. \A k \in DOMAIN ledger : ledger'[k] = ledger[k]
    BY <1>4, <1>5 DEF Fits
  <2>2. ledger' = ledger
    BY <1>2, <2>1 DEF LedgerMaps
  <2> QED BY <1>1, <2>2
<1>6. CASE ~Fits
  <2>1. \A k \in DOMAIN ledger : ledger'[k] = Upgrades!Declared[k]
    BY <1>3, <1>4
  <2>2. ledger' = [k \in DOMAIN ledger |-> Upgrades!Declared[k]]
    BY <1>2, <2>1
  <2> QED BY <1>1, <1>3, <1>6, <2>2 DEF Upgrades!Migrate
<1> QED BY <1>5, <1>6

(* While signers take turns and finish what they began, each step is a      *)
(* reviewed upgrade's step or invisible to the contract. *)
LEMMA UpgradesStep ==
  ASSUME TypeInv, Reviewed, Turns, FitsOrAwaits, LedgerMaps, [Next]_vars, ~raced', ~dropped'
  PROVE  Upgrades!Next \/ UNCHANGED <<deployed, ledger>>
<1>1. ~raced /\ ~dropped /\ deployed \in Builds
  BY RaceRemembered, DropRemembered DEF TypeInv
<1>2. ASSUME NEW s \in Signers, RunStep(s)
      PROVE  Upgrades!Next \/ UNCHANGED <<deployed, ledger>>
  <2>1. PICK ok \in BOOLEAN, migrations \in Nat :
          StepOutcome(s, ok, migrations) /\ StepEffect(s, ok, migrations)
    BY <1>2, RunStepOutcome
  <2>2. Underway(s) /\ run[s].target \in Builds
    BY <1>2, RunStepOutcome DEF TypeInv, Runs
  <2>3. /\ run[s].at \in 2 .. 4 => deployed = run[s].source
        /\ run[s].at > 4 => deployed = run[s].target
        /\ \A t \in Signers : Underway(t) => t = s
    BY <1>1, <2>2 DEF Turns
  <2>4. Fits \/ AwaitsMigration(s)
    BY <1>1, <2>3 DEF FitsOrAwaits, AwaitsMigration
  <2>5. CASE run[s].at = 4 /\ ok
    <3>1. Fits /\ deployed = run[s].source
      BY <2>3, <2>4, <2>5 DEF AwaitsMigration
    <3>2. deployed' = run[s].target /\ ledger' = ledger
      BY <2>1, <2>5 DEF StepEffect
    <3>3. Upgrades!Replace(run[s].target)
      BY <2>2, <3>1, <3>2, UpgradeReplaces
    <3> QED BY <2>2, <3>3 DEF Upgrades!Next
  <2>6. CASE run[s].at = 5 /\ run[s].migration # None
    <3>1. Fits'
      BY <2>1, <2>2, <2>3, <2>4, <2>6, MigrationDone
    <3>2. Upgrades!Migrate \/ UNCHANGED <<deployed, ledger>>
      BY <2>1, <2>6, <3>1, MigrationMigrates
    <3> QED BY <3>2 DEF Upgrades!Next
  <2>7. CASE ~(run[s].at = 4 /\ ok) /\ ~(run[s].at = 5 /\ run[s].migration # None)
    BY <2>1, <2>7 DEF StepEffect
  <2> QED BY <2>5, <2>6, <2>7
<1>3. ASSUME NEW k \in Keys, FirstWrite(k)
      PROVE  Upgrades!Next
  <2>1. k \in DOMAIN Upgrades!Declared \ DOMAIN ledger
    BY <1>1, <1>3, DeclaredByBuild DEF FirstWrite
  <2>2. Upgrades!Declared[k] = deployed.schema.entries[k].layout
    BY <1>1, <1>3, DeclaredByBuild DEF FirstWrite
  <2>3. Upgrades!FirstWrite(k)
    BY <1>3, <2>1, <2>2 DEF FirstWrite, Upgrades!FirstWrite
  <2> QED BY <2>1, <2>3 DEF Upgrades!Next
<1>4. CASE \/ \E s \in Signers, target \in Builds, migration \in Calls : Review(s, target, migration)
           \/ \E s \in Signers : Stop(s) \/ Resume(s) \/ StartOver(s) \/ Abandon(s)
           \/ UNCHANGED vars
  BY <1>4 DEF Review, Stop, Resume, StartOver, Abandon, vars
<1> QED BY <1>2, <1>3, <1>4 DEF Next

(* A contract begins in the layout of its first build.                      *)
LEMMA InitUpgrades ==
  ASSUME Init
  PROVE  Upgrades!Init /\ LedgerMaps
<1>1. ledger = [k \in DOMAIN deployed.schema.entries |-> deployed.schema.entries[k].layout]
  BY DEF Init
<1>2. deployed \in Builds
  BY DEF Init
<1>3. Upgrades!Declared = [k \in DOMAIN deployed.schema.entries |->
                             deployed.schema.entries[k].layout]
  BY <1>2 DEF Upgrades!Declared, DeclaredLayout
<1> QED BY <1>1, <1>2, <1>3 DEF Upgrades!Init, LedgerMaps

\* What carrying out plans in turns keeps.
RunInv == TypeInv /\ Reviewed /\ Turns /\ FitsOrAwaits /\ LedgerMaps

(* It holds at the start, and every step keeps it. *)
LEMMA RunInvInit == Init => RunInv
<1>1. Init => TypeInv /\ Reviewed /\ Turns /\ FitsOrAwaits
  BY InitTyped DEF Init, Reviewed, Turns, FitsOrAwaits, Fits, Underway
<1> QED BY <1>1, InitUpgrades DEF RunInv

LEMMA RunInvStep == RunInv /\ [Next]_vars => RunInv'
BY TypeStep, ReviewedStep, TurnsStep, FitsStep, LedgerMapsStep DEF RunInv

(* Up to the first race or dropped run, carrying out plans implements       *)
(* reviewed upgrades: the seven steps of a plan, the stops between them and *)
(* the runs that fail are invisible, except for one replacement, which the  *)
(* validator approved for this executable and over a ledger that fits it,   *)
(* and one migration, which leaves nothing the new executable cannot read.  *)
THEOREM RunsImplementUpgrades == Spec => ImplementsReviewedUpgrades
<1>1. Init => Upgrades!Init
  BY InitUpgrades
<1>2. RunInv /\ [Next]_vars => [~raced' /\ ~dropped' => Upgrades!Next]_<<deployed, ledger>>
  BY UpgradesStep DEF RunInv
<1> QED BY <1>1, <1>2, RunInvInit, RunInvStep, PTL DEF Spec, ImplementsReviewedUpgrades

\* Signers that take turns and finish every run that replaced the executable.
TurnsSpec == Init /\ [][Next /\ ~raced' /\ ~dropped']_vars

(* Signers of that kind implement reviewed upgrades altogether.             *)
THEOREM TurnsImplementUpgrades == TurnsSpec => Upgrades!Spec
<1>1. Init => Upgrades!Init
  BY InitUpgrades
<1>2. [Next /\ ~raced' /\ ~dropped']_vars => [Next]_vars
  OBVIOUS
<1>3. RunInv /\ [Next /\ ~raced' /\ ~dropped']_vars => [Upgrades!Next]_(Upgrades!vars)
  BY UpgradesStep DEF RunInv, Upgrades!vars, vars
<1> QED BY <1>1, <1>2, <1>3, RunInvInit, RunInvStep, PTL DEF TurnsSpec, Upgrades!Spec
\* Whatever is on the ledger is declared by the build that runs.
KeysDeclared == DOMAIN ledger \subseteq DOMAIN Upgrades!Declared

(* Reviewed upgrades never strand a key of the ledger: through any number   *)
(* of them, also between a replacement and its migration, the build that    *)
(* runs declares every key that was ever written.                           *)
THEOREM KeysStayDeclared == TurnsSpec => []KeysDeclared
<1>1. Upgrades!Init => KeysDeclared
  BY DEF Upgrades!Init, KeysDeclared
<1>2. KeysDeclared /\ [Upgrades!Next]_(Upgrades!vars) => KeysDeclared'
  <2> SUFFICES ASSUME KeysDeclared, [Upgrades!Next]_(Upgrades!vars) PROVE KeysDeclared'
    OBVIOUS
  <2>1. CASE \E target \in Builds : Upgrades!Replace(target)
    BY <2>1 DEF Upgrades!Replace, Upgrades!Declared, KeysDeclared
  <2>2. CASE Upgrades!Migrate
    BY <2>2 DEF Upgrades!Migrate, Upgrades!Declared, KeysDeclared
  <2>3. ASSUME NEW k \in DOMAIN Upgrades!Declared, Upgrades!FirstWrite(k)
        PROVE  KeysDeclared'
    BY <2>3 DEF Upgrades!FirstWrite, Upgrades!Declared, KeysDeclared
  <2>4. CASE UNCHANGED Upgrades!vars
    BY <2>4 DEF Upgrades!vars, Upgrades!Declared, KeysDeclared
  <2> QED BY <2>1, <2>2, <2>3, <2>4 DEF Upgrades!Next
<1> QED BY <1>1, <1>2, TurnsImplementUpgrades, PTL DEF Upgrades!Spec
=============================================================================
