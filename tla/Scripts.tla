------------------------------ MODULE Scripts ------------------------------
(***************************************************************************)
(* The scripts that judge the checker by its exit status: the gate of CI    *)
(* (src/scripts/verify-release.sh) and the showcase                         *)
(* (src/scripts/showcase.sh), which run `validate` on the compiled fixtures *)
(* and expect one release to pass and the others to be blocked.             *)
(*                                                                         *)
(* The checker's verdicts are arbitrary, so the question is what a script   *)
(* that goes through says of them.  Builds, tests, the runtime witness and  *)
(* the plan at the end are left out; they stop the script when they fail.   *)
(***************************************************************************)
EXTENDS Naturals, Sequences

VARIABLES
  script,    \* "verify-release", "showcase" or "showcase --offline"; constant
  verdicts,  \* what the checker decides on every pair of fixtures; constant
  readable,  \* whether the live protocol can be read; constant
  results,   \* of the steps so far: the pair, what the script took it for and
             \* the verdict that was printed
  stopped    \* the script gave up

vars == <<script, verdicts, readable, results, stopped>>

Pairs == {"counter safe", "counter unsafe", "cap86", "cap86 semantic"}
Verdicts == {"PASS", "BLOCKED"}

\* Options of `validate` that are its protocol evidence.
Live == {"network"}
Asserted == {"protocol_version"}
Step(pair, evidence, expect) == [pair |-> pair, evidence |-> evidence, expect |-> expect]

VerifyReleaseSteps ==
  <<Step("counter safe", Asserted, "accepted"),
    Step("counter unsafe", Asserted, "refused"),
    Step("cap86", Asserted, "refused"),  \* with protocol 27
    Step("cap86", Asserted, "refused"),  \* with protocol 28
    Step("cap86 semantic", Asserted, "refused")>>

ShowcaseSteps(offline) ==
  <<Step("counter safe", IF offline THEN Live \cup Asserted ELSE Live, "accepted"),
    Step("counter unsafe", Live \cup Asserted, "refused"),
    Step("cap86", Live \cup Asserted, "refused"),
    Step("cap86 semantic", Live \cup Asserted, "refused")>>

Steps ==
  CASE script = "verify-release" -> VerifyReleaseSteps
    [] script = "showcase" -> ShowcaseSteps(FALSE)
    [] OTHER -> ShowcaseSteps(TRUE)

----------------------------------------------------------------------------
(* `validate`: its exit status and the verdict it prints, if any.           *)

Exit(status, verdict) == [status |-> status, verdict |-> verdict]

\* The group of evidence options takes exactly one of them; the parser of the
\* command line ends the program before `run`.
WellFormed(evidence) == evidence \in {Live, Asserted}

Validate(pair, evidence) ==
  IF ~WellFormed(evidence) THEN Exit(2, "none")
  ELSE IF evidence = Live /\ ~readable THEN Exit(1, "none")
  ELSE Exit(IF verdicts[pair] = "PASS" THEN 0 ELSE 2, verdicts[pair])

\* run_expected_block and expect_validation_failure.
Refused(exit) ==
  IF script = "verify-release"
  THEN exit.status = 2 /\ exit.verdict = "BLOCKED"
  ELSE exit.status # 0

----------------------------------------------------------------------------
Init ==
  /\ script \in {"verify-release", "showcase", "showcase --offline"}
  /\ verdicts \in [Pairs -> Verdicts] /\ readable \in BOOLEAN
  /\ results = <<>> /\ stopped = FALSE

RunStep ==
  /\ ~stopped /\ Len(results) < Len(Steps)
  /\ LET step == Steps[Len(results) + 1]
         exit == Validate(step.pair, step.evidence)
         went == IF step.expect = "accepted" THEN exit.status = 0 ELSE Refused(exit)
         result == [pair |-> step.pair, expect |-> step.expect, verdict |-> exit.verdict]
     IN  IF went
         THEN results' = Append(results, result) /\ UNCHANGED stopped
         ELSE stopped' = TRUE /\ UNCHANGED results
  /\ UNCHANGED <<script, verdicts, readable>>

Next == RunStep

Spec == Init /\ [][Next]_vars

(* "The checker must return status 2" and "Each result comes from compiled  *)
(* WASM instead of stored output" (examples/README.md): what a script takes *)
(* for a blocked release is a verdict of the checker on that release.       *)
RefusalsAreVerdicts ==
  \A i \in 1 .. Len(results) :
    results[i].expect = "refused" => results[i].verdict = "BLOCKED"
=============================================================================
