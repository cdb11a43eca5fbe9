------------------------ MODULE ReleaseWorkflowProofs ------------------------
(***************************************************************************)
(* The release workflow, for any number of failures and of attempts to see  *)
(* a package: what is public was tested, in the right order, and complete.  *)
(***************************************************************************)
EXTENDS ReleaseWorkflow, TLAPS

----------------------------------------------------------------------------
(* The inductive invariant.                                                 *)

Stages == {"check", "publish", "wait"}
TypeInv ==
  /\ release \in Releases
  /\ result \in [Jobs -> {"waiting", "running"} \cup Ended]
  /\ draft \in {"none", "hidden", "visible", "public"}
  /\ script \in [crate : Crates, stage : Stages, left : 1 .. Attempts]
  /\ uploaded \subseteq Crates /\ shown \in [Views -> SUBSET Crates]
  /\ tested \in BOOLEAN

\* A job that is not waiting was decided on results that did not change since.
Decided(job) ==
  result[job] # "waiting" =>
    /\ \A n \in Needs[job] : result[n] \in Ended
    /\ result[job] = "skipped" <=> ~Condition(job)
AllDecided == \A job \in Jobs : Decided(job)

\* The smoke test passes only on a good archive, of a tag.
SmokeMeans ==
  /\ result["smoke"] = "success" => tested
  /\ tested => release.tag /\ release.good

\* The script comes to the CLI when both views show the library, and to its
\* end when they show both crates.
ScriptMeans ==
  /\ script.crate = "cli" \/ "cli" \in uploaded => IsAvailable("core")
  /\ result["publish"] = "success" => \A crate \in Crates : IsAvailable(crate)

\* What went public.
PublicMeans ==
  /\ draft = "public" \/ uploaded # {} => tested
  /\ release.prerelease => uploaded = {}
  /\ draft = "public" /\ ~release.prerelease => \A crate \in Crates : IsAvailable(crate)

IInv == TypeInv /\ AllDecided /\ SmokeMeans /\ ScriptMeans /\ PublicMeans

----------------------------------------------------------------------------
(* The graph of jobs.                                                       *)

(* What each job needs. *)
LEMMA NeedsOf ==
  /\ Needs["plan"] = {} /\ Needs["local"] = {"plan"} /\ Needs["global"] = {"plan", "local"}
  /\ Needs["host"] = {"plan", "local", "global"} /\ Needs["stage"] = {"plan", "host"}
  /\ Needs["smoke"] = {"plan", "stage"} /\ Needs["publish"] = {"plan", "host", "smoke"}
  /\ Needs["announce"] = {"plan", "host", "smoke", "publish"}
BY DEF Needs

(* A job waits for other jobs of the workflow. *)
LEMMA NeedsJobs ==
  ASSUME NEW job \in Jobs
  PROVE  Needs[job] \subseteq Jobs /\ job \notin Needs[job]
BY NeedsOf DEF Jobs

(* Needs has no cycle, so Upstream is the function its definition says. *)
LEMMA UpstreamOf ==
  ASSUME NEW job \in Jobs
  PROVE  Upstream[job] = Needs[job] \cup UNION {Upstream[n] : n \in Needs[job]}
<1> DEFINE first == [plan |-> {}, local |-> {"plan"}, global |-> {"plan", "local"},
                     host |-> {"plan", "local", "global"},
                     stage |-> {"plan", "local", "global", "host"},
                     smoke |-> {"plan", "local", "global", "host", "stage"},
                     publish |-> {"plan", "local", "global", "host", "stage", "smoke"},
                     announce |-> {"plan", "local", "global", "host", "stage", "smoke",
                                   "publish"}]
           Fixed(f) == f = [j \in Jobs |-> Needs[j] \cup UNION {f[n] : n \in Needs[j]}]
<1>1. first = [j \in Jobs |-> first[j]]
  BY DEF Jobs
<1>2. /\ first["plan"] = {} /\ first["local"] = {"plan"} /\ first["global"] = {"plan", "local"}
      /\ first["host"] = {"plan", "local", "global"}
      /\ first["stage"] = {"plan", "local", "global", "host"}
      /\ first["smoke"] = {"plan", "local", "global", "host", "stage"}
      /\ first["publish"] = {"plan", "local", "global", "host", "stage", "smoke"}
      /\ first["announce"] = {"plan", "local", "global", "host", "stage", "smoke", "publish"}
  OBVIOUS
<1> HIDE DEF first
<1>3. ASSUME NEW j \in Jobs
      PROVE  first[j] = Needs[j] \cup UNION {first[n] : n \in Needs[j]}
  BY <1>2, NeedsOf DEF Jobs
<1>4. Fixed(first)
  BY <1>1, <1>3
<1>5. Upstream = CHOOSE f : Fixed(f)
  BY DEF Upstream
<1> HIDE DEF Fixed
<1>6. Fixed(Upstream)
  BY <1>4, <1>5
<1> QED BY <1>6 DEF Fixed

(* What is repeated is repeated with all that needs it. *)
LEMMA RepeatsDownstream ==
  ASSUME NEW all, NEW job \in Jobs, NEW n \in Needs[job], n \in ToRepeat(all)
  PROVE  job \in ToRepeat(all)
<1>1. {n} \cup Upstream[n] \subseteq Upstream[job]
  BY UpstreamOf
<1> QED BY <1>1 DEF ToRepeat

(* The condition of a job depends on the results of the jobs it needs. *)
LEMMA ConditionOf ==
  /\ Condition("announce") <=> MayAnnounce
  /\ Condition("publish") <=> Succeeded({"host", "smoke"}) /\ ~release.prerelease
  /\ Condition("smoke") <=> Succeeded({"stage"})
  /\ Condition("stage") <=> Succeeded({"host"})
  /\ Condition("host") <=> /\ Succeeded({"plan"}) /\ release.tag
                          /\ NotFailed({"local", "global"})
  /\ Condition("plan") <=> Succeeded({})
  /\ Condition("local") <=> Succeeded({"plan"}) /\ release.local
  /\ Condition("global") <=> Succeeded({"plan", "local"})
BY NeedsOf DEF Condition

(* The condition of a job reads only the jobs it needs. *)
LEMMA ConditionLocal ==
  ASSUME NEW job \in Jobs, release' = release, \A n \in Needs[job] : result'[n] = result[n]
  PROVE  Condition(job)' <=> Condition(job)
<1>1. CASE job = "announce"
  BY <1>1, NeedsOf DEF Condition, MayAnnounce, Succeeded, NotFailed
<1>2. CASE job = "publish"
  BY <1>2, NeedsOf DEF Condition, Succeeded
<1>3. CASE job = "smoke"
  BY <1>3, NeedsOf DEF Condition, Succeeded
<1>4. CASE job = "stage"
  BY <1>4, NeedsOf DEF Condition, Succeeded
<1>5. CASE job = "host"
  BY <1>5, NeedsOf DEF Condition, Succeeded, NotFailed
<1>6. CASE job \in {"plan", "local", "global"}
  BY <1>6 DEF Condition, Succeeded
<1> QED BY <1>1, <1>2, <1>3, <1>4, <1>5, <1>6 DEF Jobs

----------------------------------------------------------------------------
(* Decisions are kept.                                                      *)

LEMMA DecidedKept ==
  ASSUME TypeInv, AllDecided, NEW job \in Jobs, release' = release,
         result[job] \in {"waiting", "running"},
         \A k \in Jobs \ {job} : result'[k] = result[k], Decided(job)'
  PROVE  AllDecided'
<1> SUFFICES ASSUME NEW k \in Jobs, k # job
             PROVE  Decided(k)'
  BY DEF AllDecided
<1>1. CASE result[k] = "waiting"
  BY <1>1 DEF Decided
<1>2. CASE result[k] # "waiting"
  <2>1. \A n \in Needs[k] : result[n] \in Ended
    BY <1>2 DEF AllDecided, Decided
  <2>2. \A n \in Needs[k] : result'[n] = result[n]
    BY <2>1, NeedsJobs DEF Ended
  <2> QED BY <2>2, ConditionLocal DEF AllDecided, Decided
<1> QED BY <1>1, <1>2

(* A job ends. *)
LEMMA EndKept ==
  ASSUME TypeInv, AllDecided, NEW job \in Jobs, NEW how \in Fate, result[job] = "running",
         End(job, how), release' = release
  PROVE  /\ AllDecided' /\ result' \in [Jobs -> {"waiting", "running"} \cup Ended]
         /\ result'[job] = how /\ \A k \in Jobs \ {job} : result'[k] = result[k]
<1>1. /\ result' \in [Jobs -> {"waiting", "running"} \cup Ended]
      /\ result'[job] = how /\ \A k \in Jobs \ {job} : result'[k] = result[k]
  BY DEF End, TypeInv, Fate, Ended
<1>2. \A n \in Needs[job] : result'[n] = result[n]
  BY <1>1, NeedsJobs
<1>3. Decided(job)'
  BY <1>1, <1>2, ConditionLocal DEF AllDecided, Decided, Fate
<1> QED BY <1>1, <1>3, DecidedKept

(* Starting or skipping a job decides it and no other. *)
LEMMA BeginKept ==
  ASSUME TypeInv, AllDecided, NEW job \in Jobs, Begin(job)
  PROVE  /\ AllDecided' /\ result' \in [Jobs -> {"waiting", "running"} \cup Ended]
         /\ result'[job] \in {"running", "skipped"}
         /\ \A k \in Jobs \ {job} : result'[k] = result[k]
<1>1. /\ result' \in [Jobs -> {"waiting", "running"} \cup Ended]
      /\ result'[job] = IF Condition(job) THEN "running" ELSE "skipped"
      /\ \A k \in Jobs \ {job} : result'[k] = result[k]
      /\ release' = release /\ result[job] = "waiting"
      /\ \A n \in Needs[job] : result[n] \in Ended
  BY DEF Begin, TypeInv, Ended
<1>2. \A n \in Needs[job] : result'[n] = result[n]
  BY <1>1, NeedsJobs
<1>3. Decided(job)'
  BY <1>1, <1>2, ConditionLocal DEF Decided
<1> QED BY <1>1, <1>3, DecidedKept

(* A repetition sends jobs back to waiting and decides none. *)
LEMMA RerunKept ==
  ASSUME TypeInv, AllDecided, NEW all \in BOOLEAN, Rerun(all)
  PROVE  /\ AllDecided' /\ result' \in [Jobs -> {"waiting", "running"} \cup Ended]
         /\ \A job \in Jobs : result'[job] \in {"waiting", result[job]}
<1>1. /\ result' = [job \in Jobs |-> IF job \in ToRepeat(all) THEN "waiting" ELSE result[job]]
      /\ release' = release
  BY DEF Rerun
<1>2. ASSUME NEW job \in Jobs PROVE Decided(job)'
  <2>1. CASE job \in ToRepeat(all)
    BY <1>1, <2>1 DEF Decided
  <2>2. CASE job \notin ToRepeat(all)
    <3>1. \A n \in Needs[job] : result'[n] = result[n]
      BY <1>1, <2>2, RepeatsDownstream, NeedsJobs
    <3>2. result'[job] = result[job]
      BY <1>1, <2>2
    <3> QED BY <1>1, <3>1, <3>2, ConditionLocal DEF AllDecided, Decided
  <2> QED BY <2>1, <2>2
<1> QED BY <1>1, <1>2 DEF AllDecided, TypeInv

(* What it means that a job runs or has run. *)
LEMMA DecisionsMean ==
  ASSUME TypeInv, AllDecided
  PROVE  /\ result["smoke"] \in {"running", "success"} => release.tag
         /\ result["publish"] \in {"running", "success"} =>
              result["smoke"] = "success" /\ ~release.prerelease
         /\ result["announce"] = "running" =>
              /\ result["smoke"] = "success"
              /\ result["publish"] = "success" \/ release.prerelease
<1> USE DEF Succeeded, NotFailed, MayAnnounce
<1>1. \A job \in Jobs : result[job] \in {"running", "success"} => Condition(job)
  BY DEF AllDecided, Decided
<1>2. result["smoke"] \in {"running", "success"} => release.tag
  BY <1>1, ConditionOf DEF Jobs
<1>3. result["publish"] \in {"running", "success"} =>
        result["smoke"] = "success" /\ ~release.prerelease
  BY <1>1, ConditionOf DEF Jobs
<1>4. ASSUME result["announce"] = "running"
      PROVE  /\ result["smoke"] = "success"
             /\ result["publish"] = "success" \/ release.prerelease
  <2>1. MayAnnounce
    BY <1>1, <1>4, ConditionOf DEF Jobs
  <2>2. result["publish"] = "skipped" => ~Condition("publish")
    BY DEF AllDecided, Decided, Jobs
  <2> QED BY <2>1, <2>2, ConditionOf
<1> QED BY <1>2, <1>3, <1>4

----------------------------------------------------------------------------
(* The invariant, step by step.                                             *)

LEMMA InitInv == Init => IInv
<1> SUFFICES ASSUME Init PROVE IInv
  OBVIOUS
<1>1. script \in [crate : Crates, stage : Stages, left : 1 .. Attempts] /\ script.crate = "core"
  <2>1. Attempts \in 1 .. Attempts
    BY WorkflowAssumption
  <2> QED BY <2>1 DEF Init, Idle, Crates, Stages
<1>2. TypeInv
  BY <1>1 DEF Init, TypeInv
<1>3. AllDecided
  BY DEF Init, AllDecided, Decided
<1>4. SmokeMeans /\ ScriptMeans /\ PublicMeans
  BY <1>1 DEF Init, SmokeMeans, ScriptMeans, PublicMeans, Jobs
<1> QED BY <1>2, <1>3, <1>4 DEF IInv

(* A step that only moves jobs on, and the script within its crate.         *)
LEMMA QuietStep ==
  ASSUME IInv, AllDecided', UNCHANGED <<release, uploaded, shown, tested>>,
         result' \in [Jobs -> {"waiting", "running"} \cup Ended],
         script' \in [crate : Crates, stage : Stages, left : 1 .. Attempts],
         draft' \in {"none", "hidden", "visible", "public"},
         draft' = "public" => draft = "public",
         result'["smoke"] = "success" => result["smoke"] = "success",
         result'["publish"] = "success" => result["publish"] = "success",
         script'.crate = "cli" => script.crate = "cli"
  PROVE  IInv'
<1>1. TypeInv'
  BY DEF IInv, TypeInv
<1>2. SmokeMeans'
  BY DEF IInv, SmokeMeans
<1>3. ScriptMeans'
  BY DEF IInv, ScriptMeans, IsAvailable, IsPublished
<1>4. PublicMeans'
  BY DEF IInv, PublicMeans, IsAvailable, IsPublished
<1> QED BY <1>1, <1>2, <1>3, <1>4 DEF IInv

(* Each action keeps the invariant: a job starts or is skipped, *)
LEMMA BeginStep ==
  ASSUME IInv, NEW job \in Jobs, Begin(job)
  PROVE  IInv'
<1>1. /\ AllDecided' /\ result' \in [Jobs -> {"waiting", "running"} \cup Ended]
      /\ result'[job] \in {"running", "skipped"}
      /\ \A k \in Jobs \ {job} : result'[k] = result[k]
  BY BeginKept DEF IInv
<1>2. /\ script' \in [crate : Crates, stage : Stages, left : 1 .. Attempts]
      /\ script'.crate = "cli" => script.crate = "cli"
  <2>1. Idle \in [crate : Crates, stage : Stages, left : 1 .. Attempts] /\ Idle.crate = "core"
    <3>1. Attempts \in 1 .. Attempts
      BY WorkflowAssumption
    <3> QED BY <3>1 DEF Idle, Crates, Stages
  <2> QED BY <2>1 DEF Begin, IInv, TypeInv
<1>3. /\ UNCHANGED <<release, draft, uploaded, shown, tested>>
  BY DEF Begin
<1>4. /\ result'["smoke"] = "success" => result["smoke"] = "success"
      /\ result'["publish"] = "success" => result["publish"] = "success"
  BY <1>1 DEF Jobs
<1> QED BY <1>1, <1>2, <1>3, <1>4, QuietStep DEF IInv, TypeInv

(* A job that ends and does nothing else that matters: all but a smoke test *)
(* or a publication that succeeds. *)
LEMMA EndStep ==
  ASSUME IInv, NEW job \in Jobs, NEW how \in Fate, result[job] = "running", End(job, how),
         job \in {"smoke", "publish"} => how = "failure",
         UNCHANGED <<release, script, uploaded, shown, tested>>,
         draft' \in {"none", "hidden", "visible", "public"},
         draft' = "public" => draft = "public"
  PROVE  IInv'
<1>1. /\ AllDecided' /\ result' \in [Jobs -> {"waiting", "running"} \cup Ended]
      /\ result'[job] = how /\ \A k \in Jobs \ {job} : result'[k] = result[k]
  BY EndKept DEF IInv
<1>2. /\ result'["smoke"] = "success" => result["smoke"] = "success"
      /\ result'["publish"] = "success" => result["publish"] = "success"
  BY <1>1 DEF Jobs
<1> QED BY <1>1, <1>2, QuietStep DEF IInv, TypeInv

(* the smoke test ends, *)
LEMMA SmokeStep ==
  ASSUME IInv, NEW fate \in Fate, Smoke(fate)
  PROVE  IInv'
<1> DEFINE how == IF release.good THEN fate ELSE "failure"
<1>1. how \in Fate /\ "smoke" \in Jobs
  BY DEF Fate, Jobs
<1>2. /\ AllDecided' /\ result' \in [Jobs -> {"waiting", "running"} \cup Ended]
      /\ result'["smoke"] = how /\ \A k \in Jobs \ {"smoke"} : result'[k] = result[k]
  BY <1>1, EndKept DEF Smoke, IInv
<1>3. release.tag
  BY DecisionsMean DEF IInv, Smoke
<1>4. /\ UNCHANGED <<release, draft, script, uploaded, shown>>
      /\ tested' = (tested \/ how = "success")
  BY <1>2 DEF Smoke
<1>5. result'["publish"] = result["publish"]
  BY <1>2 DEF Jobs
<1>6. TypeInv'
  BY <1>2, <1>4 DEF IInv, TypeInv
<1>7. SmokeMeans'
  BY <1>2, <1>3, <1>4 DEF IInv, SmokeMeans
<1>8. ScriptMeans' /\ PublicMeans'
  BY <1>4, <1>5 DEF IInv, ScriptMeans, PublicMeans, IsAvailable, IsPublished
<1> QED BY <1>2, <1>6, <1>7, <1>8 DEF IInv

(* the draft is published, *)
LEMMA AnnounceStep ==
  ASSUME IInv, NEW fate \in Fate, Announce(fate)
  PROVE  IInv'
<1>1. /\ AllDecided' /\ result' \in [Jobs -> {"waiting", "running"} \cup Ended]
      /\ \A k \in Jobs \ {"announce"} : result'[k] = result[k]
  BY EndKept DEF Announce, IInv, Jobs
<1>2. /\ result'["smoke"] = result["smoke"] /\ result'["publish"] = result["publish"]
      /\ UNCHANGED <<release, script, uploaded, shown, tested>> /\ draft' = "public"
  BY <1>1 DEF Announce, Jobs
<1>3. tested /\ (result["publish"] = "success" \/ release.prerelease)
  BY DecisionsMean DEF IInv, Announce, SmokeMeans
<1>4. TypeInv'
  BY <1>1, <1>2 DEF IInv, TypeInv
<1>5. SmokeMeans' /\ ScriptMeans'
  BY <1>2 DEF IInv, SmokeMeans, ScriptMeans, IsAvailable, IsPublished
<1>6. PublicMeans'
  BY <1>2, <1>3 DEF IInv, PublicMeans, ScriptMeans, IsAvailable, IsPublished
<1> QED BY <1>1, <1>4, <1>5, <1>6 DEF IInv

----------------------------------------------------------------------------
(* publish-crates.                                                          *)

LEMMA ScriptGoes ==
  ASSUME NEW crate \in Crates, NEW stage \in Stages, GoTo(crate, stage)
  PROVE  /\ script' \in [crate : Crates, stage : Stages, left : 1 .. Attempts]
         /\ script'.crate = crate
<1>1. Attempts \in 1 .. Attempts
  BY WorkflowAssumption
<1> QED BY <1>1 DEF GoTo

(* the script asks whether a crate is there, *)
LEMMA CheckPublishedStep ==
  ASSUME IInv, NEW fate \in Fate, CheckPublished(fate)
  PROVE  IInv'
<1>1. script.crate \in Crates /\ {"wait", "publish"} \subseteq Stages
  BY DEF IInv, TypeInv, Stages
<1>2. /\ script' \in [crate : Crates, stage : Stages, left : 1 .. Attempts]
      /\ script'.crate = script.crate
  BY <1>1, ScriptGoes DEF CheckPublished
<1>3. UNCHANGED <<release, result, draft, uploaded, shown, tested>>
  BY DEF CheckPublished
<1>4. AllDecided'
  BY <1>3, ConditionLocal DEF IInv, AllDecided, Decided
<1> QED BY <1>2, <1>3, <1>4, QuietStep DEF IInv, TypeInv

(* uploads it, *)
LEMMA CargoPublishStep ==
  ASSUME IInv, NEW fate \in Fate, CargoPublish(fate)
  PROVE  IInv'
<1>1. /\ result["publish"] = "running" /\ "publish" \in Jobs /\ "failure" \in Fate
      /\ script \in [crate : Crates, stage : Stages, left : 1 .. Attempts]
      /\ script.crate \in Crates /\ "wait" \in Stages
  BY DEF CargoPublish, Publishing, IInv, TypeInv, Stages, Jobs, Fate
<1>2. UNCHANGED <<release, draft, shown, tested>>
  BY DEF CargoPublish
<1>3. \/ End("publish", "failure") /\ UNCHANGED script
      \/ GoTo(script.crate, "wait") /\ UNCHANGED result
  BY DEF CargoPublish
<1>4. /\ AllDecided' /\ result' \in [Jobs -> {"waiting", "running"} \cup Ended]
      /\ result'["smoke"] = result["smoke"] /\ result'["publish"] # "success"
  <2>1. CASE End("publish", "failure")
    BY <1>1, <1>2, <2>1, EndKept DEF IInv, Jobs
  <2>2. CASE UNCHANGED result
    BY <1>1, <1>2, <2>2, ConditionLocal DEF IInv, AllDecided, Decided, TypeInv
  <2> QED BY <1>3, <2>1, <2>2
<1>5. /\ script' \in [crate : Crates, stage : Stages, left : 1 .. Attempts]
      /\ script'.crate = script.crate
  BY <1>1, <1>3, ScriptGoes
<1>6. uploaded \subseteq uploaded' /\ uploaded' \subseteq uploaded \cup {script.crate}
  BY DEF CargoPublish
<1>7. tested /\ ~release.prerelease
  BY <1>1, DecisionsMean DEF IInv, SmokeMeans
<1>8. TypeInv'
  BY <1>1, <1>2, <1>4, <1>5, <1>6 DEF IInv, TypeInv
<1>9. SmokeMeans'
  BY <1>2, <1>4 DEF IInv, SmokeMeans
<1>10. ScriptMeans'
  BY <1>2, <1>4, <1>5, <1>6 DEF IInv, ScriptMeans, IsAvailable, IsPublished
<1>11. PublicMeans'
  BY <1>2, <1>7 DEF IInv, PublicMeans, IsAvailable, IsPublished
<1> QED BY <1>4, <1>8, <1>9, <1>10, <1>11 DEF IInv

(* sees it in a view, *)
LEMMA PackageFoundStep ==
  ASSUME IInv, PackageFound
  PROVE  IInv'
<1>1. /\ result["publish"] = "running" /\ "publish" \in Jobs /\ "success" \in Fate
      /\ script \in [crate : Crates, stage : Stages, left : 1 .. Attempts]
      /\ script.crate \in Crates /\ "check" \in Stages /\ "cli" \in Crates
      /\ IsAvailable(script.crate)
      /\ UNCHANGED <<release, draft, uploaded, shown, tested>>
  BY DEF PackageFound, Publishing, IInv, TypeInv, Stages, Jobs, Fate, Crates
<1>2. CASE script.crate = "core"
  <2>1. GoTo("cli", "check") /\ UNCHANGED result
    BY <1>2 DEF PackageFound, GoOn
  <2>2. /\ script' \in [crate : Crates, stage : Stages, left : 1 .. Attempts]
        /\ script'.crate = "cli"
    BY <1>1, <2>1, ScriptGoes
  <2>3. AllDecided'
    BY <1>1, <2>1, ConditionLocal DEF IInv, AllDecided, Decided
  <2>4. TypeInv'
    BY <1>1, <2>1, <2>2 DEF IInv, TypeInv
  <2>5. SmokeMeans' /\ PublicMeans'
    BY <1>1, <2>1 DEF IInv, SmokeMeans, PublicMeans, IsAvailable, IsPublished
  <2>6. ScriptMeans'
    BY <1>1, <1>2, <2>1, <2>2 DEF IInv, ScriptMeans, IsAvailable, IsPublished
  <2> QED BY <2>3, <2>4, <2>5, <2>6 DEF IInv
<1>3. CASE script.crate = "cli"
  <2>1. End("publish", "success") /\ UNCHANGED script
    BY <1>3 DEF PackageFound, GoOn
  <2>2. /\ AllDecided' /\ result' \in [Jobs -> {"waiting", "running"} \cup Ended]
        /\ result'["smoke"] = result["smoke"]
    BY <1>1, <2>1, EndKept DEF IInv, Jobs
  <2>3. \A crate \in Crates : IsAvailable(crate)
    BY <1>1, <1>3 DEF IInv, ScriptMeans, Crates
  <2>4. TypeInv'
    BY <1>1, <2>1, <2>2 DEF IInv, TypeInv
  <2>5. SmokeMeans' /\ PublicMeans'
    BY <1>1, <2>2 DEF IInv, SmokeMeans, PublicMeans, IsAvailable, IsPublished
  <2>6. ScriptMeans'
    BY <1>1, <2>1, <2>3 DEF IInv, ScriptMeans, IsAvailable, IsPublished
  <2> QED BY <2>2, <2>4, <2>5, <2>6 DEF IInv
<1> QED BY <1>1, <1>2, <1>3 DEF Crates

(* asks again or gives up, *)
LEMMA PackageMissedStep ==
  ASSUME IInv, NEW fate \in Fate, PackageMissed(fate)
  PROVE  IInv'
<1>1. /\ result["publish"] = "running" /\ "publish" \in Jobs /\ "failure" \in Fate
      /\ script \in [crate : Crates, stage : Stages, left : 1 .. Attempts]
      /\ UNCHANGED <<release, draft, uploaded, shown, tested>>
  BY DEF PackageMissed, Publishing, IInv, TypeInv, Jobs, Fate
<1>2. CASE LastAttempt(script.left)
  BY <1>1, <1>2, EndStep DEF PackageMissed, GiveUp, IInv, TypeInv
<1>3. CASE ~LastAttempt(script.left)
  <2>1. script' = [script EXCEPT !.left = @ - 1] /\ UNCHANGED result
    BY <1>3 DEF PackageMissed
  <2>2. script.left - 1 \in 1 .. Attempts
    BY <1>1, <1>3, WorkflowAssumption DEF LastAttempt
  <2>3. /\ script' \in [crate : Crates, stage : Stages, left : 1 .. Attempts]
        /\ script'.crate = script.crate
    BY <1>1, <2>1, <2>2
  <2>4. AllDecided'
    BY <1>1, <2>1, ConditionLocal DEF IInv, AllDecided, Decided
  <2> QED BY <1>1, <2>1, <2>3, <2>4, QuietStep DEF IInv, TypeInv
<1> QED BY <1>2, <1>3

----------------------------------------------------------------------------
(* All steps.                                                               *)

LEMMA JobStep ==
  ASSUME IInv, NEW job \in Jobs, Job(job)
  PROVE  IInv'
<1>1. ASSUME NEW fate \in Fate, Build(job, fate) PROVE IInv'
  BY <1>1, EndStep DEF Build, IInv, TypeInv
<1>2. ASSUME NEW fate \in Fate, CreateDraft(fate) PROVE IInv'
  BY <1>2, EndStep DEF CreateDraft, IInv, TypeInv, Jobs
<1>3. CASE StageDraft
  <2>1. PICK how \in Fate : End("stage", how)
    BY <1>3 DEF StageDraft, Fate
  <2> QED BY <1>3, <2>1, EndStep DEF StageDraft, IInv, TypeInv, Jobs
<1> QED BY <1>1, <1>2, <1>3, BeginStep, SmokeStep, AnnounceStep, CheckPublishedStep,
           CargoPublishStep, PackageFoundStep, PackageMissedStep DEF Job

(* a running job fails, *)
LEMMA AbortStep ==
  ASSUME IInv, NEW job \in Jobs, Abort(job)
  PROVE  IInv'
<1>1. "failure" \in Fate
  BY DEF Fate
<1> QED BY <1>1, EndStep DEF Abort, IInv, TypeInv

(* a view shows an upload. *)
LEMMA ShowStep ==
  ASSUME IInv, NEW view \in Views, NEW crate \in Crates, Show(view, crate)
  PROVE  IInv'
<1>1. /\ UNCHANGED <<release, result, draft, script, uploaded, tested>>
      /\ shown' \in [Views -> SUBSET Crates] /\ \A v \in Views : shown[v] \subseteq shown'[v]
  BY DEF Show, IInv, TypeInv
<1>2. \A c \in Crates : IsAvailable(c) => IsAvailable(c)'
  BY <1>1 DEF IsAvailable, IsPublished, Views
<1>3. AllDecided'
  BY <1>1, ConditionLocal DEF IInv, AllDecided, Decided
<1>4. TypeInv' /\ SmokeMeans'
  BY <1>1 DEF IInv, TypeInv, SmokeMeans
<1>5. ScriptMeans' /\ PublicMeans'
  BY <1>1, <1>2 DEF IInv, ScriptMeans, PublicMeans, Crates
<1> QED BY <1>3, <1>4, <1>5 DEF IInv

(* Every step keeps the invariant. *)
LEMMA InvStep ==
  ASSUME IInv, [Next]_vars
  PROVE  IInv'
<1>1. CASE ShowDraft
  <2>1. AllDecided'
    BY <1>1, ConditionLocal DEF ShowDraft, IInv, AllDecided, Decided
  <2> QED BY <1>1, <2>1, QuietStep DEF ShowDraft, IInv, TypeInv
<1>2. ASSUME NEW all \in BOOLEAN, Rerun(all) PROVE IInv'
  <2>1. /\ AllDecided' /\ result' \in [Jobs -> {"waiting", "running"} \cup Ended]
        /\ \A job \in Jobs : result'[job] \in {"waiting", result[job]}
    BY <1>2, RerunKept DEF IInv
  <2>2. /\ result'["smoke"] = "success" => result["smoke"] = "success"
        /\ result'["publish"] = "success" => result["publish"] = "success"
    BY <2>1 DEF Jobs
  <2> QED BY <1>2, <2>1, <2>2, QuietStep DEF Rerun, IInv, TypeInv
<1>3. CASE UNCHANGED vars
  <2>1. AllDecided'
    BY <1>3, ConditionLocal DEF vars, IInv, AllDecided, Decided
  <2> QED BY <1>3, <2>1, QuietStep DEF vars, IInv, TypeInv
<1> QED BY <1>1, <1>2, <1>3, JobStep, AbortStep, ShowStep DEF Next

(* Each job that ran was decided on results that still stand, through any   *)
(* number of failures and repetitions. *)
THEOREM WorkflowInvariant == Spec => []IInv
<1>1. Init => IInv
  BY InitInv
<1>2. IInv /\ [Next]_vars => IInv'
  BY InvStep
<1> QED BY <1>1, <1>2, PTL DEF Spec

----------------------------------------------------------------------------
(* The properties.                                                          *)

(* Nothing of a release becomes public, on GitHub or in the registry,       *)
(* before the smoke test passed on its archive; a prerelease uploads        *)
(* nothing. *)
THEOREM OnlyTestedIsPublic == Spec => []PublicOnlyTested
<1>1. IInv => PublicOnlyTested
  BY DEF IInv, PublicMeans, SmokeMeans, PublicOnlyTested
<1> QED BY <1>1, WorkflowInvariant, PTL

(* The script comes to the CLI, and uploads it, only when both views of the *)
(* registry show the library. *)
THEOREM CoreGoesFirst == Spec => []CoreBeforeCli
<1>1. IInv => CoreBeforeCli
  BY DEF IInv, ScriptMeans, CoreBeforeCli
<1> QED BY <1>1, WorkflowInvariant, PTL

(* What is announced is complete: a publish-crates job that was skipped     *)
(* stands for a prerelease, never for a failure. *)
THEOREM AnnouncedIsComplete == Spec => []AnnouncedComplete
<1>1. IInv => AnnouncedComplete
  BY DEF IInv, PublicMeans, AnnouncedComplete
<1> QED BY <1>1, WorkflowInvariant, PTL
=============================================================================
