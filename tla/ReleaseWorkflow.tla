-------------------------- MODULE ReleaseWorkflow --------------------------
(***************************************************************************)
(* The release workflow (src/.github/workflows/release.yml): the graph of   *)
(* jobs with their conditions, the script that publishes two crates, and    *)
(* the registry whose two views (API and index) show an upload some time    *)
(* after it.  Any step may fail or run into its time limit, before or after *)
(* it took effect, and the workflow is run again: its failed jobs with all  *)
(* that need them, or everything.                                           *)
(*                                                                         *)
(* There is one run at a time (the concurrency group is the tag).  A draft  *)
(* is its visibility; what happens when GitHub holds two drafts of one tag  *)
(* is not modelled.                                                         *)
(***************************************************************************)
EXTENDS Naturals, FiniteSets

CONSTANTS
  Attempts,   \* of wait_for_package (30 in the script)
  MaxFaults   \* bound on spontaneous failures

ASSUME WorkflowAssumption == Attempts \in Nat \ {0} /\ MaxFaults \in Nat

VARIABLES
  release,    \* what is released; constant
  result,     \* of every job
  draft,      \* the GitHub release: "none", "hidden", "visible" or "public"
  script,     \* where publish-crates is: the crate, its stage, attempts left
  uploaded,   \* crates whose version the registry holds
  shown,      \* view -> crates that it shows
  tested,     \* release-smoke passed at some time (history variable)
  faults      \* spontaneous failures so far

vars == <<release, result, draft, script, uploaded, shown, tested, faults>>

Jobs == {"plan", "local", "global", "host", "stage", "smoke", "publish", "announce"}
Needs ==
  [plan |-> {}, local |-> {"plan"}, global |-> {"plan", "local"},
   host |-> {"plan", "local", "global"}, stage |-> {"plan", "host"},
   smoke |-> {"plan", "stage"}, publish |-> {"plan", "host", "smoke"},
   announce |-> {"plan", "host", "smoke", "publish"}]
Upstream[job \in Jobs] == Needs[job] \cup UNION {Upstream[n] : n \in Needs[job]}

Crates == {"core", "cli"}
Views == {"api", "index"}
Ended == {"success", "failure", "skipped"}
Fate == {"success", "failure"}

\* event: a tag or a pull request.  local: dist planned platform builds.
\* good: the archive in the draft works.
Releases ==
  [prerelease : BOOLEAN, tag : BOOLEAN, local : BOOLEAN, good : BOOLEAN]

Idle == [crate |-> "core", stage |-> "check", left |-> Attempts]

Init ==
  /\ release \in Releases
  /\ result = [job \in Jobs |-> "waiting"]
  /\ draft = "none" /\ script = Idle
  /\ uploaded = {} /\ shown = [view \in Views |-> {}]
  /\ tested = FALSE /\ faults = 0

----------------------------------------------------------------------------
(* Starting jobs.                                                           *)

Succeeded(jobs) == \A job \in jobs : result[job] = "success"
NotFailed(jobs) == \A job \in jobs : result[job] \in {"success", "skipped"}

UntestedAnnounce_Slip == Succeeded({"host"}) /\ NotFailed({"publish"})
UnpublishedAnnounce_Slip == Succeeded({"host", "smoke"})
\* publish-crates is skipped for a prerelease, and when the smoke test failed.
MayAnnounce == Succeeded({"host", "smoke"}) /\ NotFailed({"publish"})

\* The `if` of a job; without always() it also needs that nothing upstream
\* failed or was skipped.
Condition(job) ==
  CASE job = "announce" -> MayAnnounce
    [] job = "publish" -> Succeeded({"host", "smoke"}) /\ ~release.prerelease
    [] job = "smoke" -> Succeeded({"stage"})
    [] job = "stage" -> Succeeded({"host"})
    [] job = "host" -> Succeeded({"plan"}) /\ release.tag /\ NotFailed({"local", "global"})
    [] OTHER -> Succeeded(Needs[job]) /\ (job = "local" => release.local)

Begin(job) ==
  /\ result[job] = "waiting"
  /\ \A n \in Needs[job] : result[n] \in Ended
  /\ result' = [result EXCEPT ![job] = IF Condition(job) THEN "running" ELSE "skipped"]
  /\ script' = IF job = "publish" THEN Idle ELSE script
  /\ UNCHANGED <<release, draft, uploaded, shown, tested, faults>>

End(job, how) == result' = [result EXCEPT ![job] = how]

\* A step fails by itself, or loses its answer after it took effect.
Fault(fate) == faults' = faults + IF fate = "failure" THEN 1 ELSE 0
MayFail(fate) == (fate = "failure" => faults < MaxFaults) /\ Fault(fate)

----------------------------------------------------------------------------
(* The steps of the jobs.                                                   *)

Build(job, fate) ==
  /\ job \in {"plan", "local", "global"} /\ result[job] = "running"
  /\ MayFail(fate) /\ End(job, fate)
  /\ UNCHANGED <<release, draft, script, uploaded, shown, tested>>

CreateDraft(fate) ==
  /\ result["host"] = "running"
  /\ MayFail(fate) /\ End("host", fate)
  /\ draft' = IF draft = "none" THEN "hidden" ELSE draft
  /\ UNCHANGED <<release, script, uploaded, shown, tested>>

\* 24 attempts; they may all come too early.
StageDraft ==
  /\ result["stage"] = "running"
  /\ End("stage", IF draft = "visible" THEN "success" ELSE "failure")
  /\ UNCHANGED <<release, draft, script, uploaded, shown, tested, faults>>

Smoke(fate) ==
  /\ result["smoke"] = "running"
  /\ MayFail(fate)
  /\ End("smoke", IF release.good THEN fate ELSE "failure")
  /\ tested' = (tested \/ result'["smoke"] = "success")
  /\ UNCHANGED <<release, draft, script, uploaded, shown>>

Announce(fate) ==
  /\ result["announce"] = "running"
  /\ MayFail(fate) /\ End("announce", fate)
  /\ draft' = "public"
  /\ UNCHANGED <<release, script, uploaded, shown, tested>>

\* A job is cut off before its next effect.
Abort(job) ==
  /\ result[job] = "running"
  /\ MayFail("failure") /\ End(job, "failure")
  /\ UNCHANGED <<release, draft, script, uploaded, shown, tested>>

----------------------------------------------------------------------------
(* publish-crates.                                                          *)

Publishing(stage) == result["publish"] = "running" /\ script.stage = stage
GoTo(crate, stage) == script' = [crate |-> crate, stage |-> stage, left |-> Attempts]

IsPublished(crate) == crate \in shown["api"]
IsAvailable(crate) == IsPublished(crate) /\ crate \in shown["index"]

Skips_Slip(fate) == FALSE
Skips(fate) == IsPublished(script.crate) /\ fate = "success"

\* is_published of publish_if_missing; a request that fails counts as missing.
CheckPublished(fate) ==
  /\ Publishing("check") /\ MayFail(fate)
  /\ GoTo(script.crate, IF Skips(fate) THEN "wait" ELSE "publish")
  /\ UNCHANGED <<release, result, draft, uploaded, shown, tested>>

\* cargo publish fails for a version that the registry holds, and for the
\* CLI before the index shows the library it depends on.
CargoPublish(fate) ==
  /\ Publishing("publish") /\ MayFail(fate)
  /\ LET refused == \/ script.crate \in uploaded
                    \/ script.crate = "cli" /\ "core" \notin shown["index"]
     IN  /\ uploaded' = IF refused THEN uploaded ELSE uploaded \cup {script.crate}
         /\ IF refused \/ fate = "failure"
            THEN End("publish", "failure") /\ UNCHANGED script
            ELSE GoTo(script.crate, "wait") /\ UNCHANGED result
  /\ UNCHANGED <<release, draft, shown, tested>>

GoOn ==
  IF script.crate = "core"
  THEN GoTo("cli", "check") /\ UNCHANGED result
  ELSE End("publish", "success") /\ UNCHANGED script

PackageFound ==
  /\ Publishing("wait") /\ IsAvailable(script.crate) /\ GoOn
  /\ UNCHANGED <<release, draft, uploaded, shown, tested, faults>>

LastAttempt(left) == left = 1
GiveUp_Slip == GoOn
GiveUp == End("publish", "failure") /\ UNCHANGED script

\* Also when only the requests fail.
PackageMissed(fate) ==
  /\ Publishing("wait") /\ MayFail(fate)
  /\ fate = "success" => ~IsAvailable(script.crate)
  /\ IF LastAttempt(script.left)
     THEN GiveUp
     ELSE script' = [script EXCEPT !.left = @ - 1] /\ UNCHANGED result
  /\ UNCHANGED <<release, draft, uploaded, shown, tested>>

----------------------------------------------------------------------------
(* GitHub, the registry and the person who runs the workflow again.         *)

ShowDraft ==
  /\ draft = "hidden" /\ draft' = "visible"
  /\ UNCHANGED <<release, result, script, uploaded, shown, tested, faults>>

Show(view, crate) ==
  /\ crate \in uploaded \ shown[view]
  /\ shown' = [shown EXCEPT ![view] = @ \cup {crate}]
  /\ UNCHANGED <<release, result, draft, script, uploaded, tested, faults>>

Over == \A job \in Jobs : result[job] \in Ended
Failed == {job \in Jobs : result[job] = "failure"}
ToRepeat(all) ==
  IF all THEN Jobs
  ELSE {job \in Jobs : ({job} \cup Upstream[job]) \cap Failed # {}}

Rerun(all) ==
  /\ Over /\ Failed # {} /\ (all => draft # "public")
  /\ result' = [job \in Jobs |-> IF job \in ToRepeat(all) THEN "waiting" ELSE result[job]]
  /\ UNCHANGED <<release, draft, script, uploaded, shown, tested, faults>>

Job(job) ==
  \/ Begin(job)
  \/ \E fate \in Fate :
       \/ Build(job, fate)
       \/ job = "host" /\ CreateDraft(fate)
       \/ job = "smoke" /\ Smoke(fate)
       \/ job = "announce" /\ Announce(fate)
       \/ job = "publish" /\ (CheckPublished(fate) \/ CargoPublish(fate) \/ PackageMissed(fate))
  \/ job = "stage" /\ StageDraft
  \/ job = "publish" /\ PackageFound

Next ==
  \/ \E job \in Jobs : Job(job) \/ Abort(job)
  \/ ShowDraft
  \/ \E view \in Views, crate \in Crates : Show(view, crate)
  \/ \E all \in BOOLEAN : Rerun(all)

Spec == Init /\ [][Next]_vars

\* Jobs make progress, what is stored shows at last, and a failed run is run
\* again.
Fairness ==
  /\ \A job \in Jobs : WF_vars(Job(job))
  /\ WF_vars(ShowDraft)
  /\ \A view \in Views, crate \in Crates : WF_vars(Show(view, crate))
  /\ WF_vars(Rerun(FALSE))

FairSpec == Spec /\ Fairness

----------------------------------------------------------------------------
(* "It publishes the release only after that test passes": nothing of a     *)
(* release becomes public, on GitHub or in the registry, before the smoke   *)
(* test passed on its archive, whatever failed and was repeated; a pull     *)
(* request releases nothing and a prerelease uploads nothing.               *)
PublicOnlyTested ==
  /\ draft = "public" \/ uploaded # {} => tested /\ release.tag /\ release.good
  /\ release.prerelease => uploaded = {}

(* "It waits for the registry index before it publishes the CLI": the       *)
(* script comes to the CLI only when both views show the library, also when *)
(* an earlier run uploaded it and failed.                                   *)
CoreBeforeCli ==
  /\ result["publish"] = "running" /\ script.crate = "cli" => IsAvailable("core")
  /\ "cli" \in uploaded => IsAvailable("core")

(* "Announces the GitHub release only after both packages are available":   *)
(* a publish-crates job that was skipped never stands for one that failed.  *)
AnnouncedComplete ==
  draft = "public" /\ ~release.prerelease => \A crate \in Crates : IsAvailable(crate)

(* "A workflow retry skips a version that already exists": no partial       *)
(* publication is a dead end.  However a run failed, running it again       *)
(* releases a good tag at last.                                             *)
ReleasedAtLast == release.tag /\ release.good ~> draft = "public"
=============================================================================
