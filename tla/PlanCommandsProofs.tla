------------------------- MODULE PlanCommandsProofs -------------------------
(***************************************************************************)
(* `plan` and `verify-plan`: what holds for any number of runs of both on   *)
(* one file, for all file contents and networks, and however many changes   *)
(* of the environment, failures and kills come between their steps.         *)
(***************************************************************************)
EXTENDS PlanCommands, FiniteSetTheorems, TLAPS

----------------------------------------------------------------------------
(* The inductive invariant.                                                 *)

\* Evidence loaded so far: some of the files.
Drafts == [files : UNION {[loaded -> Contents] : loaded \in SUBSET Inputs}, context : Contexts]

\* The first part of a plan file.
HeadOf(plan) == [plan_sha256 |-> plan.plan_sha256, status |-> plan.status]
Heads == {HeadOf(plan) : plan \in Plans} \cup {Missing}
Tails == Validations \cup {Missing}

\* From here on a plan run has all its evidence; from here on it may write.
Validated == {"fetch", "open", "head", "tail", "done"}
Writing == {"head", "tail", "done"}
PlanStates == {"idle", "load", "blocked", "failed"} \cup Validated

\* From here on a verify-plan run has accepted the digest.
Digested == {"files", "network", "contract", "verified"}
VerifyStates == {"idle", "tail", "digest", "failed"} \cup Digested

TypeInv ==
  /\ files \in [Inputs -> Contents] /\ alias \in Networks
  /\ protocol \in [Networks -> Protocols] /\ deployed \in [Networks -> Contents]
  /\ planner \in [Planners -> [pc : PlanStates, force : BOOLEAN, validation : Drafts]]
  /\ \A p \in Planners : planner[p].pc \in Validated => planner[p].validation \in Validations
  /\ disk \in [exists : BOOLEAN, head : Heads, tail : Tails]
  /\ verifier \in [Verifiers -> [pc : VerifyStates, offline : BOOLEAN, head : Heads,
                                 tail : Tails, checked : 0 .. 6, steady : BOOLEAN]]
  /\ created \subseteq Plans

\* Whatever stands at the head of the file, or was read from it, comes from
\* one plan that some run created.
FromCreated(head) == head # Missing => \E plan \in created : head = HeadOf(plan)
HeadsCreated ==
  /\ \A p \in Planners :
       planner[p].pc \in Writing => CreatePlan(planner[p].validation) \in created
  /\ FromCreated(disk.head)
  /\ \A v \in Verifiers : FromCreated(verifier[v].head)
DigestsChecked ==
  \A v \in Verifiers : verifier[v].pc \in Digested =>
    verifier[v].head # Missing /\ verifier[v].tail # Missing /\ DigestMatches(Parsed(v))

\* While the environment stands still, what a run has checked stays so.
ChecksHoldFor(v) ==
  LET online == ~verifier[v].offline
      pc == verifier[v].pc
      plan == Parsed(v)
  IN  /\ pc \in {"tail", "digest"} => verifier[v].checked = 0
      /\ pc \in Digested => \A i \in 1 .. verifier[v].checked : InputMatches(v, VerifyOrder[i])
      /\ online /\ pc \in {"network", "contract", "verified"} =>
           verifier[v].checked = 6 /\ plan.status = "review_ready"
      /\ online /\ pc \in {"contract", "verified"} => NetworkMatches(plan.validation.context)
      /\ online /\ pc = "verified" => RunsSource(plan.validation.files["source_wasm"])
ChecksHold == \A v \in Verifiers : verifier[v].steady => ChecksHoldFor(v)

\* Without --force nobody opens a file that is there.
OneOpened ==
  /\ Writers # {} => disk.exists
  /\ \A p, q \in Writers : p = q

----------------------------------------------------------------------------
(* The files.                                                               *)

(* load_report reads each of the six inputs once; so do the checks. *)
LEMMA InputOrders ==
  /\ Inputs = {"source_wasm", "target_wasm", "source_schema", "target_schema", "policy",
               "schema_history"}
  /\ Len(LoadOrder) = 6 /\ Len(VerifyOrder) = 6
  /\ \A i \in 1 .. 6 : LoadOrder[i] \in Inputs
  /\ \A f \in Inputs : \E i \in 1 .. 6 : VerifyOrder[i] = f
<1>1. /\ Len(LoadOrder) = 6 /\ DOMAIN LoadOrder = 1 .. 6
      /\ Len(VerifyOrder) = 6 /\ DOMAIN VerifyOrder = 1 .. 6
  BY DEF LoadOrder, VerifyOrder
<1>2. \A i : i \in 1 .. 6 <=> (i = 1 \/ i = 2 \/ i = 3 \/ i = 4 \/ i = 5 \/ i = 6)
  OBVIOUS
<1>3. Inputs = {LoadOrder[1], LoadOrder[2], LoadOrder[3], LoadOrder[4], LoadOrder[5],
                LoadOrder[6]}
  BY <1>1, <1>2 DEF Inputs
<1>4. /\ LoadOrder[1] = "source_wasm" /\ LoadOrder[2] = "target_wasm"
      /\ LoadOrder[3] = "source_schema" /\ LoadOrder[4] = "target_schema"
      /\ LoadOrder[5] = "policy" /\ LoadOrder[6] = "schema_history"
  BY DEF LoadOrder
<1>5. /\ VerifyOrder[1] = "source_wasm" /\ VerifyOrder[2] = "target_wasm"
      /\ VerifyOrder[3] = "source_schema" /\ VerifyOrder[4] = "target_schema"
      /\ VerifyOrder[5] = "schema_history" /\ VerifyOrder[6] = "policy"
  BY DEF VerifyOrder
<1>6. Inputs = {"source_wasm", "target_wasm", "source_schema", "target_schema", "policy",
                "schema_history"}
  BY <1>3, <1>4
<1>7. \A i \in 1 .. 6 : LoadOrder[i] \in Inputs
  BY <1>1 DEF Inputs
<1>8. \A f \in Inputs : \E i \in 1 .. 6 : VerifyOrder[i] = f
  BY <1>2, <1>5, <1>6
<1> QED BY <1>1, <1>6, <1>7, <1>8

(* The number of files loaded is a number, whichever they are. *)
LEMMA LoadedFinite ==
  ASSUME NEW loaded \in SUBSET Inputs
  PROVE  Cardinality(loaded) \in Nat
<1>1. IsFiniteSet(Inputs)
  <2>1. IsFiniteSet({"source_wasm"})
    BY FS_Singleton
  <2>2. IsFiniteSet({"source_wasm"} \cup {"target_wasm"})
    BY <2>1, FS_AddElement
  <2>3. IsFiniteSet(({"source_wasm"} \cup {"target_wasm"}) \cup {"source_schema"})
    BY <2>2, FS_AddElement
  <2>4. IsFiniteSet({"source_wasm", "target_wasm", "source_schema"} \cup {"target_schema"})
    <3>1. ({"source_wasm"} \cup {"target_wasm"}) \cup {"source_schema"}
            = {"source_wasm", "target_wasm", "source_schema"}
      OBVIOUS
    <3> QED BY <2>3, <3>1, FS_AddElement
  <2>5. IsFiniteSet(({"source_wasm", "target_wasm", "source_schema"} \cup {"target_schema"})
                      \cup {"policy"})
    BY <2>4, FS_AddElement
  <2>6. IsFiniteSet((({"source_wasm", "target_wasm", "source_schema"} \cup {"target_schema"})
                       \cup {"policy"}) \cup {"schema_history"})
    BY <2>5, FS_AddElement
  <2>7. Inputs = (({"source_wasm", "target_wasm", "source_schema"} \cup {"target_schema"})
                    \cup {"policy"}) \cup {"schema_history"}
    BY InputOrders
  <2> QED BY <2>6, <2>7
<1>2. IsFiniteSet(loaded)
  BY <1>1, FS_Subset
<1> QED BY <1>2, FS_CardinalityType

----------------------------------------------------------------------------
(* Steps of one run leave the others alone.                                 *)

LEMMA PlannerMoved ==
  ASSUME TypeInv, NEW p \in Planners, NEW pc \in PlanStates,
         SetPlanner(p, [planner[p] EXCEPT !.pc = pc])
  PROVE  /\ planner' \in [Planners -> [pc : PlanStates, force : BOOLEAN, validation : Drafts]]
         /\ planner'[p].pc = pc /\ planner'[p].force = planner[p].force
         /\ planner'[p].validation = planner[p].validation
         /\ \A q \in Planners \ {p} : planner'[q] = planner[q]
BY DEF TypeInv, SetPlanner

(* SetPlanner changes one run of `plan`. *)
LEMMA PlannerSet ==
  ASSUME TypeInv, NEW p \in Planners, NEW state, SetPlanner(p, state),
         state \in [pc : PlanStates, force : BOOLEAN, validation : Drafts]
  PROVE  /\ planner' \in [Planners -> [pc : PlanStates, force : BOOLEAN, validation : Drafts]]
         /\ planner'[p] = state
         /\ \A q \in Planners \ {p} : planner'[q] = planner[q]
BY DEF TypeInv, SetPlanner

(* Go changes where one run of `verify-plan` stands. *)
LEMMA VerifierMoved ==
  ASSUME TypeInv, NEW v \in Verifiers, NEW condition, NEW next \in VerifyStates,
         Go(v, condition, next)
  PROVE  /\ verifier' \in [Verifiers -> [pc : VerifyStates, offline : BOOLEAN, head : Heads,
                                         tail : Tails, checked : 0 .. 6, steady : BOOLEAN]]
         /\ verifier'[v].pc = IF condition THEN next ELSE "failed"
         /\ verifier'[v].offline = verifier[v].offline
         /\ verifier'[v].head = verifier[v].head /\ verifier'[v].tail = verifier[v].tail
         /\ verifier'[v].checked = verifier[v].checked
         /\ verifier'[v].steady = verifier[v].steady
         /\ \A w \in Verifiers \ {v} : verifier'[w] = verifier[w]
<1> DEFINE pc == IF condition THEN next ELSE "failed"
<1>1. pc \in VerifyStates
  BY DEF VerifyStates
<1>2. verifier' = [verifier EXCEPT ![v] = [verifier[v] EXCEPT !.pc = pc]]
  BY DEF Go, SetVerifier
<1> HIDE DEF pc
<1>3. verifier \in [Verifiers -> [pc : VerifyStates, offline : BOOLEAN, head : Heads,
                                  tail : Tails, checked : 0 .. 6, steady : BOOLEAN]]
  BY DEF TypeInv
<1>4. /\ verifier'[v].pc = pc
      /\ verifier'[v].offline = verifier[v].offline
      /\ verifier'[v].head = verifier[v].head /\ verifier'[v].tail = verifier[v].tail
      /\ verifier'[v].checked = verifier[v].checked
      /\ verifier'[v].steady = verifier[v].steady
      /\ \A w \in Verifiers \ {v} : verifier'[w] = verifier[w]
  BY <1>2, <1>3
<1>5. verifier' \in [Verifiers -> [pc : VerifyStates, offline : BOOLEAN, head : Heads,
                                   tail : Tails, checked : 0 .. 6, steady : BOOLEAN]]
  BY <1>1, <1>2, <1>3
<1> QED BY <1>4, <1>5 DEF pc

----------------------------------------------------------------------------
(* Types.                                                                   *)

(* A run of `plan` that moves on without new evidence. *)
LEMMA PlanMoveTyped ==
  ASSUME TypeInv, NEW p \in Planners, NEW pc \in PlanStates,
         SetPlanner(p, [planner[p] EXCEPT !.pc = pc]),
         pc \in Validated => planner[p].validation \in Validations,
         UNCHANGED <<environment, verifier>>,
         disk' \in [exists : BOOLEAN, head : Heads, tail : Tails], created' \subseteq Plans
  PROVE  TypeInv'
<1>1. /\ planner' \in [Planners -> [pc : PlanStates, force : BOOLEAN, validation : Drafts]]
      /\ planner'[p].pc = pc /\ planner'[p].validation = planner[p].validation
      /\ \A q \in Planners \ {p} : planner'[q] = planner[q]
  BY PlannerMoved
<1>2. \A q \in Planners :
        planner'[q].pc \in Validated => planner'[q].validation \in Validations
  BY <1>1 DEF TypeInv
<1> QED BY <1>1, <1>2 DEF TypeInv, environment

(* A run of `plan` that starts or loads. *)
LEMMA PlanLoadTyped ==
  ASSUME TypeInv, NEW p \in Planners, NEW state, SetPlanner(p, state),
         state \in [pc : PlanStates, force : BOOLEAN, validation : Drafts],
         state.pc = "load", UNCHANGED <<environment, disk, verifier, created>>
  PROVE  TypeInv'
<1>1. \A q \in Planners :
        planner'[q].pc \in Validated => planner'[q].validation \in Validations
  BY PlannerSet DEF TypeInv, Validated
<1> QED BY <1>1, PlannerSet DEF TypeInv, environment

(* What the network serves is a context. *)
LEMMA LiveContext ==
  ASSUME TypeInv
  PROVE  Live \in Contexts
BY DEF TypeInv, Live, Contexts

(* Steps of `plan`: the network is read first. *)
LEMMA StartPlanTyped ==
  ASSUME TypeInv, NEW p \in Planners, NEW context \in Contexts, NEW force \in BOOLEAN,
         StartPlan(p, context, force)
  PROVE  TypeInv'
<1> DEFINE none == [f \in {} |-> Missing]
           validation == [files |-> none, context |-> context]
           state == [pc |-> "load", force |-> force, validation |-> validation]
<1>1. none \in [{} -> Contents] /\ {} \in SUBSET Inputs
  OBVIOUS
<1>2. validation \in Drafts
  BY <1>1 DEF Drafts
<1>3. state \in [pc : PlanStates, force : BOOLEAN, validation : Drafts]
  BY <1>2 DEF PlanStates
<1>4. SetPlanner(p, state) /\ UNCHANGED <<environment, disk, verifier, created>>
  BY DEF StartPlan
<1> HIDE DEF state
<1> QED BY <1>3, <1>4, PlanLoadTyped DEF state

(* One file is read. *)
LEMMA LoadInputTyped ==
  ASSUME TypeInv, NEW p \in Planners, LoadInput(p)
  PROVE  TypeInv'
<1> DEFINE loaded == planner[p].validation.files
           next == Cardinality(DOMAIN loaded) + 1
           more == [f \in DOMAIN loaded \cup {LoadOrder[next]} |->
                      IF f = LoadOrder[next] THEN files[f] ELSE loaded[f]]
           state == [planner[p] EXCEPT !.validation.files = more]
<1>1. planner[p] \in [pc : PlanStates, force : BOOLEAN, validation : Drafts]
  BY DEF TypeInv
<1>2. planner[p].validation \in Drafts
  BY <1>1
<1>3. PICK names \in SUBSET Inputs : loaded \in [names -> Contents]
  BY <1>2 DEF Drafts
<1>4. DOMAIN loaded \in SUBSET Inputs /\ loaded \in [DOMAIN loaded -> Contents]
  BY <1>3
<1>5. next \in 1 .. 6
  <2>1. Cardinality(DOMAIN loaded) \in Nat
    BY <1>4, LoadedFinite
  <2>2. next <= 6
    BY InputOrders DEF LoadInput
  <2> QED BY <2>1, <2>2
<1>6. LoadOrder[next] \in Inputs
  BY <1>5, InputOrders
<1> HIDE DEF next
<1>7. /\ more \in [DOMAIN loaded \cup {LoadOrder[next]} -> Contents]
      /\ DOMAIN loaded \cup {LoadOrder[next]} \in SUBSET Inputs
  BY <1>4, <1>6 DEF TypeInv
<1> HIDE DEF more
<1>8. state = [planner[p] EXCEPT !.validation = [files |-> more,
                                                  context |-> planner[p].validation.context]]
  BY <1>1, <1>2 DEF Drafts
<1>9. [files |-> more, context |-> planner[p].validation.context] \in Drafts
  BY <1>2, <1>7 DEF Drafts
<1>10. state \in [pc : PlanStates, force : BOOLEAN, validation : Drafts] /\ state.pc = "load"
  <2>1. planner[p].pc = "load"
    BY DEF LoadInput
  <2> QED BY <1>1, <1>8, <1>9, <2>1
<1>11. SetPlanner(p, state) /\ UNCHANGED <<environment, disk, verifier, created>>
  BY DEF LoadInput, more, next
<1> HIDE DEF state
<1> QED BY <1>10, <1>11, PlanLoadTyped

(* The evidence read becomes a plan or the run fails. *)
LEMMA ValidateTyped ==
  ASSUME TypeInv, NEW p \in Planners, Validate(p)
  PROVE  TypeInv'
<1>1. planner[p].validation \in Drafts /\ DOMAIN planner[p].validation.files = Inputs
  BY DEF Validate, Loaded, TypeInv
<1>2. planner[p].validation \in Validations
  BY <1>1 DEF Drafts, Validations
<1>3. PICK pc \in PlanStates : SetPlanner(p, [planner[p] EXCEPT !.pc = pc])
  BY DEF Validate, PlanStates, Validated
<1> QED BY <1>2, <1>3, PlanMoveTyped DEF Validate, TypeInv

(* The output file is created or truncated. *)
LEMMA OpenOutputTyped ==
  ASSUME TypeInv, NEW p \in Planners, OpenOutput(p)
  PROVE  TypeInv'
<1>1. planner[p].validation \in Validations
  BY DEF OpenOutput, TypeInv, Validated
<1>2. created' \subseteq Plans
  BY <1>1 DEF OpenOutput, TypeInv, Plans
<1>3. disk' \in [exists : BOOLEAN, head : Heads, tail : Tails]
  <2>1. Missing \in Heads /\ Missing \in Tails
    BY DEF Heads, Tails
  <2>2. Present(Missing, Missing) \in [exists : BOOLEAN, head : Heads, tail : Tails]
    BY <2>1 DEF Present
  <2>3. disk' = disk \/ disk' = Present(Missing, Missing)
    BY DEF OpenOutput
  <2> QED BY <2>2, <2>3 DEF TypeInv
<1>4. PICK pc \in PlanStates : SetPlanner(p, [planner[p] EXCEPT !.pc = pc])
  BY DEF OpenOutput, PlanStates, Validated
<1> QED BY <1>1, <1>2, <1>3, <1>4, PlanMoveTyped DEF OpenOutput

(* The file is written in two parts. *)
LEMMA WriteTyped ==
  ASSUME TypeInv, NEW p \in Planners, WriteHead(p) \/ WriteTail(p)
  PROVE  TypeInv'
<1>1. planner[p].validation \in Validations
  BY DEF WriteHead, WriteTail, TypeInv, Validated
<1>2. HeadOf(CreatePlan(planner[p].validation)) \in Heads /\ planner[p].validation \in Tails
  BY <1>1 DEF Heads, Tails, Plans
<1>3. disk' \in [exists : BOOLEAN, head : Heads, tail : Tails]
  <2>1. disk \in [exists : BOOLEAN, head : Heads, tail : Tails]
    BY DEF TypeInv
  <2>2. CASE WriteHead(p)
    <3>1. disk' = [disk EXCEPT !.head = HeadOf(CreatePlan(planner[p].validation))]
      BY <2>2 DEF WriteHead, HeadOf
    <3> QED BY <1>2, <2>1, <3>1
  <2>3. CASE WriteTail(p)
    <3>1. disk' = [disk EXCEPT !.tail = planner[p].validation]
      BY <2>3 DEF WriteTail
    <3> QED BY <1>2, <2>1, <3>1
  <2> QED BY <2>2, <2>3
<1>4. PICK pc \in PlanStates : SetPlanner(p, [planner[p] EXCEPT !.pc = pc])
  BY DEF WriteHead, WriteTail, PlanStates, Validated
<1> QED BY <1>1, <1>3, <1>4, PlanMoveTyped DEF WriteHead, WriteTail, TypeInv

(* Every step of `plan` keeps the types. *)
LEMMA PlanStepTyped ==
  ASSUME TypeInv, NEW p \in Planners, PlanStep(p)
  PROVE  TypeInv'
<1>1. CASE \E force \in BOOLEAN : StartPlan(p, Live, force)
  BY <1>1, LiveContext, StartPlanTyped
<1>2. CASE \E force \in BOOLEAN, version \in Protocols : StartPlan(p, Offline(version), force)
  BY <1>2, StartPlanTyped DEF Contexts
<1>3. CASE FetchContract(p)
  <2>1. PICK pc \in PlanStates : SetPlanner(p, [planner[p] EXCEPT !.pc = pc])
    BY <1>3 DEF FetchContract, PlanStates, Validated
  <2>2. planner[p].validation \in Validations
    BY <1>3 DEF FetchContract, TypeInv, Validated
  <2> QED BY <1>3, <2>1, <2>2, PlanMoveTyped DEF FetchContract, TypeInv
<1>4. CASE FailPlan(p)
  <2>1. "failed" \in PlanStates /\ "failed" \notin Validated
    BY DEF PlanStates, Validated
  <2> QED BY <1>4, <2>1, PlanMoveTyped DEF FailPlan, TypeInv
<1> QED BY <1>1, <1>2, <1>3, <1>4, LoadInputTyped, ValidateTyped, OpenOutputTyped, WriteTyped
        DEF PlanStep

(* A run of `verify-plan` that goes on or fails. *)
LEMMA VerifyMoveTyped ==
  ASSUME TypeInv, NEW v \in Verifiers, NEW condition, NEW next \in VerifyStates,
         Go(v, condition, next), FrameVerify
  PROVE  TypeInv'
BY VerifierMoved DEF TypeInv, FrameVerify, environment

\* What starting a run, reading the rest of the file and checking a file do.
StartedVerify(v, offline) ==
  /\ verifier'[v].pc \in {"tail", "failed"} /\ verifier'[v].head = disk.head
  /\ verifier'[v].offline = offline /\ verifier'[v].checked = 0
ReadSoFar(v) ==
  /\ verifier'[v].pc = "digest" /\ verifier'[v].head = verifier[v].head
  /\ verifier'[v].tail = disk.tail
  /\ UNCHANGED <<verifier[v].offline, verifier[v].checked, verifier[v].steady>>
InputChecked(v) ==
  /\ verifier'[v].checked = verifier[v].checked + 1 /\ verifier[v].checked + 1 \in 1 .. 6
  /\ verifier'[v].pc =
       IF InputMatches(v, VerifyOrder[verifier[v].checked + 1]) THEN "files" ELSE "failed"
  /\ UNCHANGED <<verifier[v].head, verifier[v].tail, verifier[v].offline, verifier[v].steady>>

(* Steps of `verify-plan`: the head of the file is read. *)
LEMMA StartVerifyTyped ==
  ASSUME TypeInv, NEW v \in Verifiers, NEW offline \in BOOLEAN, StartVerify(v, offline)
  PROVE  /\ TypeInv' /\ StartedVerify(v, offline)
         /\ \A w \in Verifiers \ {v} : verifier'[w] = verifier[w]
<1> DEFINE pc == IF disk.exists THEN "tail" ELSE "failed"
           new == [pc |-> pc, offline |-> offline, head |-> disk.head, tail |-> Missing,
                   checked |-> 0, steady |-> TRUE]
<1>1. pc \in VerifyStates /\ disk.head \in Heads /\ Missing \in Tails /\ 0 \in 0 .. 6
  BY DEF VerifyStates, TypeInv, Tails
<1>2. verifier' = [verifier EXCEPT ![v] = new] /\ FrameVerify
  BY DEF StartVerify, SetVerifier
<1>3. pc \in {"tail", "failed"}
  OBVIOUS
<1> HIDE DEF pc
<1>4. new \in [pc : VerifyStates, offline : BOOLEAN, head : Heads,
               tail : Tails, checked : 0 .. 6, steady : BOOLEAN]
  BY <1>1
<1>5. /\ verifier' \in [Verifiers -> [pc : VerifyStates, offline : BOOLEAN, head : Heads,
                                      tail : Tails, checked : 0 .. 6, steady : BOOLEAN]]
      /\ verifier'[v] = new /\ \A w \in Verifiers \ {v} : verifier'[w] = verifier[w]
  BY <1>2, <1>4 DEF TypeInv
<1> QED BY <1>2, <1>3, <1>5 DEF TypeInv, FrameVerify, environment, StartedVerify

(* The rest of the file is read and its digest compared. *)
LEMMA ReadTailTyped ==
  ASSUME TypeInv, NEW v \in Verifiers, ReadTail(v)
  PROVE  /\ TypeInv' /\ ReadSoFar(v)
         /\ \A w \in Verifiers \ {v} : verifier'[w] = verifier[w]
<1> DEFINE read == [verifier[v] EXCEPT !.tail = disk.tail]
           now == [read EXCEPT !.pc = "digest"]
<1>1. verifier[v] \in [pc : VerifyStates, offline : BOOLEAN, head : Heads,
                       tail : Tails, checked : 0 .. 6, steady : BOOLEAN]
  BY DEF TypeInv
<1>2. disk.tail \in Tails /\ "digest" \in VerifyStates
  BY DEF TypeInv, VerifyStates
<1>3. /\ read \in [pc : VerifyStates, offline : BOOLEAN, head : Heads,
                   tail : Tails, checked : 0 .. 6, steady : BOOLEAN]
      /\ read.tail = disk.tail /\ read.head = verifier[v].head
      /\ read.offline = verifier[v].offline /\ read.checked = verifier[v].checked
      /\ read.steady = verifier[v].steady
  BY <1>1, <1>2
<1>4. verifier' = [verifier EXCEPT ![v] = now] /\ FrameVerify
  BY <1>1 DEF ReadTail, SetVerifier
<1> HIDE DEF read
<1>5. /\ now \in [pc : VerifyStates, offline : BOOLEAN, head : Heads,
                  tail : Tails, checked : 0 .. 6, steady : BOOLEAN]
      /\ now.pc = "digest" /\ now.tail = read.tail /\ now.head = read.head
      /\ now.offline = read.offline /\ now.checked = read.checked
      /\ now.steady = read.steady
  BY <1>2, <1>3
<1> HIDE DEF now
<1>6. /\ verifier' \in [Verifiers -> [pc : VerifyStates, offline : BOOLEAN, head : Heads,
                                      tail : Tails, checked : 0 .. 6, steady : BOOLEAN]]
      /\ verifier'[v] = now /\ \A w \in Verifiers \ {v} : verifier'[w] = verifier[w]
  BY <1>4, <1>5 DEF TypeInv
<1> QED BY <1>3, <1>4, <1>5, <1>6 DEF TypeInv, FrameVerify, environment, ReadSoFar

(* One file is read and compared with the plan. *)
LEMMA CheckInputTyped ==
  ASSUME TypeInv, NEW v \in Verifiers, CheckInput(v)
  PROVE  /\ TypeInv' /\ InputChecked(v)
         /\ \A w \in Verifiers \ {v} : verifier'[w] = verifier[w]
<1> DEFINE next == verifier[v].checked + 1
           pc == IF InputMatches(v, VerifyOrder[next]) THEN "files" ELSE "failed"
           counted == [verifier[v] EXCEPT !.checked = next]
           now == [counted EXCEPT !.pc = pc]
<1>1. verifier[v] \in [pc : VerifyStates, offline : BOOLEAN, head : Heads,
                       tail : Tails, checked : 0 .. 6, steady : BOOLEAN]
  BY DEF TypeInv
<1>2. verifier[v].checked \in 0 .. 6 /\ verifier[v].checked < 6
  BY <1>1, InputOrders DEF CheckInput
<1>3. next \in 1 .. 6 /\ next \in 0 .. 6 /\ pc \in VerifyStates
  <2>1. next \in 1 .. 6 /\ next \in 0 .. 6
    BY <1>2
  <2>2. pc \in VerifyStates
    BY DEF VerifyStates, Digested
  <2> QED BY <2>1, <2>2
<1>4. verifier' = [verifier EXCEPT ![v] = now] /\ FrameVerify
  BY <1>1 DEF CheckInput, SetVerifier
<1>5. next = verifier[v].checked + 1
  OBVIOUS
<1>6. pc = IF InputMatches(v, VerifyOrder[next]) THEN "files" ELSE "failed"
  OBVIOUS
<1> HIDE DEF next, pc
<1>7. /\ counted \in [pc : VerifyStates, offline : BOOLEAN, head : Heads,
                      tail : Tails, checked : 0 .. 6, steady : BOOLEAN]
      /\ counted.tail = verifier[v].tail /\ counted.head = verifier[v].head
      /\ counted.offline = verifier[v].offline /\ counted.checked = next
      /\ counted.steady = verifier[v].steady
  BY <1>1, <1>3
<1> HIDE DEF counted
<1>8. /\ now \in [pc : VerifyStates, offline : BOOLEAN, head : Heads,
                  tail : Tails, checked : 0 .. 6, steady : BOOLEAN]
      /\ now.pc = pc /\ now.tail = counted.tail /\ now.head = counted.head
      /\ now.offline = counted.offline /\ now.checked = counted.checked
      /\ now.steady = counted.steady
  BY <1>3, <1>7
<1> HIDE DEF now
<1>9. /\ verifier' \in [Verifiers -> [pc : VerifyStates, offline : BOOLEAN, head : Heads,
                                      tail : Tails, checked : 0 .. 6, steady : BOOLEAN]]
      /\ verifier'[v] = now /\ \A w \in Verifiers \ {v} : verifier'[w] = verifier[w]
  BY <1>4, <1>8 DEF TypeInv
<1>10. InputChecked(v)
  BY <1>3, <1>5, <1>6, <1>7, <1>8, <1>9 DEF InputChecked
<1> QED BY <1>4, <1>9, <1>10 DEF TypeInv, FrameVerify, environment

(* Every step of `verify-plan` keeps the types. *)
LEMMA VerifyStepTyped ==
  ASSUME TypeInv, NEW v \in Verifiers, VerifyStep(v)
  PROVE  TypeInv'
<1>1. {"files", "verified", "network", "contract"} \subseteq VerifyStates
  BY DEF VerifyStates, Digested
<1>2. CASE CheckDigest(v)
  BY <1>1, <1>2, VerifyMoveTyped DEF CheckDigest
<1>3. CASE CheckStatus(v)
  BY <1>1, <1>3, VerifyMoveTyped DEF CheckStatus
<1>4. CASE CheckNetwork(v)
  BY <1>1, <1>4, VerifyMoveTyped DEF CheckNetwork
<1>5. CASE CheckContract(v)
  BY <1>1, <1>5, VerifyMoveTyped DEF CheckContract
<1>6. CASE FailVerify(v)
  BY <1>1, <1>6, VerifyMoveTyped DEF FailVerify
<1> QED BY <1>2, <1>3, <1>4, <1>5, <1>6, StartVerifyTyped, ReadTailTyped, CheckInputTyped
        DEF VerifyStep

\* A change of the environment ends every quiet verification.
Disturbed(v) ==
  /\ ~verifier'[v].steady
  /\ UNCHANGED <<verifier[v].pc, verifier[v].offline, verifier[v].head, verifier[v].tail,
                 verifier[v].checked>>

(* A change around the commands touches no run but its calm. *)
LEMMA EventTyped ==
  ASSUME TypeInv, EnvironmentStep
  PROVE  /\ TypeInv' /\ UNCHANGED <<disk, planner, created>>
         /\ \A v \in Verifiers : Disturbed(v)
<1>1. Event
  BY DEF EnvironmentStep, EditFile, UpgradeNetwork, RepointAlias, ReplaceExecutable
<1>2. /\ files' \in [Inputs -> Contents] /\ alias' \in Networks
      /\ protocol' \in [Networks -> Protocols] /\ deployed' \in [Networks -> Contents]
  <2>1. CASE \E f \in Editable, content \in Contents : EditFile(f, content)
    BY <2>1 DEF EditFile, TypeInv
  <2>2. ASSUME NEW n \in Networks, UpgradeNetwork(n)
        PROVE  protocol' \in [Networks -> Protocols]
    <3>1. protocol[n] + 1 \in Protocols
      BY <2>2, PlanCommandsAssumption DEF TypeInv, UpgradeNetwork, Protocols
    <3> QED BY <2>2, <3>1 DEF UpgradeNetwork, TypeInv
  <2>3. CASE \E n \in Networks : UpgradeNetwork(n) \/ RepointAlias(n)
    BY <2>2, <2>3 DEF UpgradeNetwork, RepointAlias, TypeInv
  <2>4. CASE \E n \in Networks, content \in Contents : ReplaceExecutable(n, content)
    BY <2>4 DEF ReplaceExecutable, TypeInv
  <2> QED BY <2>1, <2>3, <2>4 DEF EnvironmentStep
<1>3. /\ verifier' \in [Verifiers -> [pc : VerifyStates, offline : BOOLEAN, head : Heads,
                                      tail : Tails, checked : 0 .. 6, steady : BOOLEAN]]
      /\ \A v \in Verifiers : Disturbed(v)
  <2>1. verifier' = [v \in Verifiers |-> [verifier[v] EXCEPT !.steady = FALSE]]
    BY <1>1 DEF Event
  <2>2. ASSUME NEW v \in Verifiers
        PROVE  /\ verifier'[v] \in [pc : VerifyStates, offline : BOOLEAN, head : Heads,
                                    tail : Tails, checked : 0 .. 6, steady : BOOLEAN]
               /\ Disturbed(v)
    <3>1. verifier[v] \in [pc : VerifyStates, offline : BOOLEAN, head : Heads,
                           tail : Tails, checked : 0 .. 6, steady : BOOLEAN]
      BY DEF TypeInv
    <3>2. verifier'[v] = [verifier[v] EXCEPT !.steady = FALSE]
      BY <2>1
    <3> QED BY <3>1, <3>2 DEF Disturbed
  <2> QED BY <2>1, <2>2
<1>4. UNCHANGED <<disk, planner, created>>
  BY <1>1 DEF Event
<1> QED BY <1>2, <1>3, <1>4 DEF TypeInv

(* At first no run has started. *)
LEMMA InitTyped == Init => TypeInv
<1> SUFFICES ASSUME Init PROVE TypeInv
  OBVIOUS
<1>1. protocol \in [Networks -> Protocols] /\ 1 \in Protocols
  BY PlanCommandsAssumption DEF Init, Protocols
<1>2. NoValidation \in Drafts
  <2>1. Offline(1) \in Contexts
    BY <1>1 DEF Contexts
  <2>2. [f \in {} |-> Missing] \in [{} -> Contents] /\ {} \in SUBSET Inputs
    OBVIOUS
  <2> QED BY <2>1, <2>2 DEF NoValidation, Drafts
<1>3. "idle" \in PlanStates /\ "idle" \in VerifyStates /\ "idle" \notin Validated
  BY DEF PlanStates, VerifyStates, Validated
<1>4. /\ planner \in [Planners -> [pc : PlanStates, force : BOOLEAN, validation : Drafts]]
      /\ \A p \in Planners : planner[p].pc = "idle"
  BY <1>2, <1>3 DEF Init
<1>5. Missing \in Heads /\ Missing \in Tails /\ 0 \in 0 .. 6
  BY DEF Heads, Tails
<1>6. verifier \in [Verifiers -> [pc : VerifyStates, offline : BOOLEAN, head : Heads,
                                  tail : Tails, checked : 0 .. 6, steady : BOOLEAN]]
  BY <1>3, <1>5 DEF Init
<1>7. disk \in [exists : BOOLEAN, head : Heads, tail : Tails]
  BY <1>5 DEF Init, Absent
<1> QED BY <1>1, <1>3, <1>4, <1>6, <1>7 DEF Init, TypeInv

(* Every step keeps the types. *)
LEMMA TypeStep ==
  ASSUME TypeInv, [Next]_vars
  PROVE  TypeInv'
<1>1. CASE UNCHANGED vars
  BY <1>1 DEF vars, environment, TypeInv
<1> QED BY <1>1, PlanStepTyped, VerifyStepTyped, EventTyped DEF Next

(* A run of `plan` works on evidence of six files and one network read, and *)
(* nothing but parts of such plans ever gets into the file. *)
THEOREM CommandsTypeCorrect == Spec => []TypeOK
<1>1. Init => TypeInv
  BY InitTyped
<1>2. TypeInv /\ [Next]_vars => TypeInv'
  BY TypeStep
<1>3. TypeInv => TypeOK
  <2> SUFFICES ASSUME TypeInv PROVE TypeOK
    OBVIOUS
  <2>1. \A p \in Planners : planner[p].validation \in Drafts
    BY DEF TypeInv
  <2>2. \A p \in Planners : DOMAIN planner[p].validation.files \subseteq Inputs
    BY <2>1 DEF Drafts
  <2>3. disk.tail = Missing \/ disk.tail \in Validations
    BY DEF TypeInv, Tails
  <2> QED BY <2>2, <2>3 DEF TypeInv, TypeOK, Validated
<1> QED BY <1>1, <1>2, <1>3, PTL DEF Spec

----------------------------------------------------------------------------
(* Writing and reading the plan file.                                       *)

\* What a step of `plan` does to the file and to what was created.
Wrote(p) ==
  /\ UNCHANGED <<environment, verifier>> /\ created \subseteq created'
  /\ \A q \in Planners \ {p} : planner'[q] = planner[q]
  /\ planner'[p].pc \in Writing =>
       /\ UNCHANGED <<planner[p].validation, planner[p].force>>
       /\ \/ planner[p].pc \in Writing
          \/ /\ CreatePlan(planner[p].validation) \in created'
             /\ MayOpen(p) /\ disk'.exists
  /\ disk.exists => disk'.exists
  /\ \/ disk'.head \in {Missing, disk.head}
     \/ /\ planner[p].pc \in Writing
        /\ disk'.head = HeadOf(CreatePlan(planner[p].validation))

(* What a step of `plan` does to the file and the created plans. *)
LEMMA PlanStepWrote ==
  ASSUME TypeInv, NEW p \in Planners, PlanStep(p)
  PROVE  Wrote(p)
<1>1. ASSUME NEW pc \in PlanStates \ Writing, SetPlanner(p, [planner[p] EXCEPT !.pc = pc]),
             UNCHANGED <<environment, disk, verifier, created>>
      PROVE  Wrote(p)
  BY <1>1, PlannerMoved DEF Wrote
<1>2. ASSUME NEW state, SetPlanner(p, state), state.pc = "load",
             UNCHANGED <<environment, disk, verifier, created>>
      PROVE  Wrote(p)
  <2>1. planner'[p] = state /\ \A q \in Planners \ {p} : planner'[q] = planner[q]
    BY <1>2 DEF SetPlanner, TypeInv
  <2>2. planner'[p].pc \notin Writing
    BY <1>2, <2>1 DEF Writing
  <2> QED BY <1>2, <2>1, <2>2 DEF Wrote
<1>3. {"fetch", "open", "failed", "blocked"} \subseteq PlanStates \ Writing
  BY DEF PlanStates, Validated, Writing
<1>4. ASSUME NEW context, NEW force, StartPlan(p, context, force) PROVE Wrote(p)
  <2> DEFINE state == [pc |-> "load", force |-> force,
                       validation |-> [files |-> [f \in {} |-> Missing], context |-> context]]
  <2>1. SetPlanner(p, state) /\ state.pc = "load"
    BY <1>4 DEF StartPlan
  <2> HIDE DEF state
  <2> QED BY <1>2, <1>4, <2>1 DEF StartPlan
<1>5. CASE LoadInput(p)
  <2> DEFINE loaded == planner[p].validation.files
             next == Cardinality(DOMAIN loaded) + 1
             more == [f \in DOMAIN loaded \cup {LoadOrder[next]} |->
                        IF f = LoadOrder[next] THEN files[f] ELSE loaded[f]]
             state == [planner[p] EXCEPT !.validation.files = more]
  <2>1. SetPlanner(p, state)
    BY <1>5 DEF LoadInput
  <2>2. planner[p] \in [pc : PlanStates, force : BOOLEAN, validation : Drafts]
    BY DEF TypeInv
  <2> HIDE DEF more
  <2>3. state.pc = "load"
    BY <1>5, <2>2 DEF LoadInput
  <2> HIDE DEF state
  <2> QED BY <1>2, <1>5, <2>1, <2>3 DEF LoadInput
<1>6. CASE Validate(p)
  BY <1>1, <1>3, <1>6 DEF Validate
<1>7. CASE FetchContract(p)
  BY <1>1, <1>3, <1>7 DEF FetchContract
<1>8. CASE FailPlan(p)
  BY <1>1, <1>3, <1>8 DEF FailPlan
<1>9. CASE OpenOutput(p)
  <2>1. CASE MayOpen(p)
    <3>1. SetPlanner(p, [planner[p] EXCEPT !.pc = "head"]) /\ "head" \in PlanStates
      BY <1>9, <2>1 DEF OpenOutput, PlanStates, Validated
    <3>2. /\ disk' = Present(Missing, Missing)
          /\ created' = created \cup {CreatePlan(planner[p].validation)}
      BY <1>9, <2>1 DEF OpenOutput
    <3> QED BY <1>9, <2>1, <3>1, <3>2, PlannerMoved DEF OpenOutput, Present, Wrote
  <2>2. CASE ~MayOpen(p)
    <3>1. SetPlanner(p, [planner[p] EXCEPT !.pc = "failed"])
      BY <1>9, <2>2 DEF OpenOutput
    <3>2. planner'[p].pc = "failed" /\ \A q \in Planners \ {p} : planner'[q] = planner[q]
      BY <1>3, <3>1, PlannerMoved
    <3> QED BY <1>9, <2>2, <3>2 DEF OpenOutput, Wrote, Writing
  <2> QED BY <2>1, <2>2
<1>10. CASE WriteHead(p)
  <2>1. SetPlanner(p, [planner[p] EXCEPT !.pc = "tail"]) /\ "tail" \in PlanStates
    BY <1>10 DEF WriteHead, PlanStates, Validated
  <2>2. disk' = [disk EXCEPT !.head = HeadOf(CreatePlan(planner[p].validation))]
    BY <1>10 DEF WriteHead, HeadOf
  <2>3. disk'.exists = disk.exists /\ disk'.head = HeadOf(CreatePlan(planner[p].validation))
    BY <2>2 DEF TypeInv
  <2> QED BY <1>10, <2>1, <2>3, PlannerMoved DEF WriteHead, Wrote, Writing
<1>11. CASE WriteTail(p)
  <2>1. SetPlanner(p, [planner[p] EXCEPT !.pc = "done"]) /\ "done" \in PlanStates
    BY <1>11 DEF WriteTail, PlanStates, Validated
  <2>2. disk'.exists = disk.exists /\ disk'.head = disk.head
    BY <1>11 DEF WriteTail, TypeInv
  <2> QED BY <1>11, <2>1, <2>2, PlannerMoved DEF WriteTail, Wrote, Writing
<1> QED BY <1>4, <1>5, <1>6, <1>7, <1>8, <1>9, <1>10, <1>11 DEF PlanStep

\* What a step of `verify-plan` does to its run.
ReadOn(v) ==
  /\ UNCHANGED <<environment, disk, planner, created>>
  /\ \A w \in Verifiers \ {v} : verifier'[w] = verifier[w]
  /\ verifier'[v].head \in {verifier[v].head, disk.head}
  /\ verifier'[v].pc \in Digested =>
       /\ UNCHANGED <<verifier[v].head, verifier[v].tail>>
       /\ \/ verifier[v].pc \in Digested
          \/ verifier[v].head # Missing /\ verifier[v].tail # Missing /\ DigestMatches(Parsed(v))

(* What a step of `verify-plan` does to what it has read. *)
LEMMA VerifyStepReadOn ==
  ASSUME TypeInv, NEW v \in Verifiers, VerifyStep(v)
  PROVE  ReadOn(v)
<1>1. ASSUME NEW condition, NEW next \in VerifyStates, Go(v, condition, next), FrameVerify,
             verifier[v].pc \in Digested \/ (condition => DigestMatches(Parsed(v))
                /\ verifier[v].head # Missing /\ verifier[v].tail # Missing)
      PROVE  ReadOn(v)
  BY <1>1, VerifierMoved DEF FrameVerify, ReadOn, Digested
<1>2. Digested \subseteq VerifyStates
  BY DEF VerifyStates
<1>3. CASE \E offline \in BOOLEAN : StartVerify(v, offline)
  BY <1>3, StartVerifyTyped DEF StartVerify, FrameVerify, StartedVerify, ReadOn, Digested
<1>4. CASE ReadTail(v)
  BY <1>4, ReadTailTyped DEF ReadTail, FrameVerify, ReadSoFar, ReadOn, Digested
<1>5. CASE CheckDigest(v)
  BY <1>1, <1>2, <1>5 DEF CheckDigest, Digested
<1>6. CASE CheckInput(v)
  BY <1>6, CheckInputTyped DEF CheckInput, FrameVerify, InputChecked, ReadOn, Digested
<1>7. CASE CheckStatus(v)
  BY <1>1, <1>2, <1>7 DEF CheckStatus, Digested
<1>8. CASE CheckNetwork(v)
  BY <1>1, <1>2, <1>8 DEF CheckNetwork, Digested
<1>9. CASE CheckContract(v)
  BY <1>1, <1>2, <1>9 DEF CheckContract, Digested
<1>10. CASE FailVerify(v)
  BY <1>1, <1>2, <1>10 DEF FailVerify, Digested
<1> QED BY <1>3, <1>4, <1>5, <1>6, <1>7, <1>8, <1>9, <1>10 DEF VerifyStep

(* Heads on disk and in memory stay those of created plans. *)
LEMMA HeadsStep ==
  ASSUME TypeInv, HeadsCreated, [Next]_vars
  PROVE  HeadsCreated'
<1>1. ASSUME NEW p \in Planners, PlanStep(p) PROVE HeadsCreated'
  <2>1. Wrote(p)
    BY <1>1, PlanStepWrote
  <2>2. ASSUME NEW q \in Planners, planner'[q].pc \in Writing
        PROVE  CreatePlan(planner'[q].validation) \in created'
    <3>1. CASE q = p
      BY <2>1, <2>2, <3>1 DEF Wrote, HeadsCreated
    <3>2. CASE q # p
      BY <2>1, <2>2, <3>2 DEF Wrote, HeadsCreated
    <3> QED BY <3>1, <3>2
  <2>3. FromCreated(disk.head)'
    BY <2>1 DEF Wrote, HeadsCreated, FromCreated
  <2>4. \A v \in Verifiers : FromCreated(verifier[v].head)'
    BY <2>1 DEF Wrote, HeadsCreated, FromCreated
  <2> QED BY <2>2, <2>3, <2>4 DEF HeadsCreated
<1>2. ASSUME NEW v \in Verifiers, VerifyStep(v) PROVE HeadsCreated'
  BY <1>2, VerifyStepReadOn DEF ReadOn, HeadsCreated, FromCreated
<1>3. CASE EnvironmentStep
  BY <1>3, EventTyped DEF HeadsCreated, FromCreated, Disturbed
<1>4. CASE UNCHANGED vars
  BY <1>4 DEF vars, HeadsCreated, FromCreated
<1> QED BY <1>1, <1>2, <1>3, <1>4 DEF Next

(* A digest that matched keeps matching. *)
LEMMA DigestsStep ==
  ASSUME TypeInv, DigestsChecked, [Next]_vars
  PROVE  DigestsChecked'
<1> SUFFICES ASSUME NEW w \in Verifiers, verifier'[w].pc \in Digested
             PROVE  /\ verifier'[w].head # Missing /\ verifier'[w].tail # Missing
                    /\ DigestMatches(Parsed(w)')
  BY DEF DigestsChecked
<1>1. ASSUME verifier[w].pc \in Digested,
             UNCHANGED <<verifier[w].head, verifier[w].tail>>
      PROVE  /\ verifier'[w].head # Missing /\ verifier'[w].tail # Missing
             /\ DigestMatches(Parsed(w)')
  BY <1>1 DEF DigestsChecked, Parsed
<1>2. CASE \E p \in Planners : PlanStep(p)
  <2>1. verifier' = verifier
    BY <1>2, PlanStepWrote DEF Wrote
  <2> QED BY <1>1, <2>1
<1>3. ASSUME NEW v \in Verifiers, VerifyStep(v)
      PROVE  /\ verifier'[w].head # Missing /\ verifier'[w].tail # Missing
             /\ DigestMatches(Parsed(w)')
  <2>1. CASE w # v
    <3>1. verifier'[w] = verifier[w]
      BY <1>3, <2>1, VerifyStepReadOn DEF ReadOn
    <3> QED BY <1>1, <3>1
  <2>2. CASE w = v
    BY <1>1, <1>3, <2>2, VerifyStepReadOn DEF ReadOn, Parsed
  <2> QED BY <2>1, <2>2
<1>4. CASE EnvironmentStep
  BY <1>1, <1>4, EventTyped DEF Disturbed
<1>5. CASE UNCHANGED vars
  BY <1>1, <1>5 DEF vars
<1> QED BY <1>2, <1>3, <1>4, <1>5 DEF Next

(* A head that comes from a created plan, with a rest that its digest       *)
(* covers, is that plan. *)
LEMMA DigestIdentifies ==
  ASSUME TypeInv, HeadsCreated, DigestsChecked,
         NEW v \in Verifiers, verifier[v].pc \in Digested
  PROVE  Parsed(v) \in created
<1>1. verifier[v].head # Missing /\ DigestMatches(Parsed(v))
  BY DEF DigestsChecked
<1>2. PICK plan \in created : verifier[v].head = HeadOf(plan)
  BY <1>1 DEF HeadsCreated, FromCreated
<1>3. PICK validation \in Validations : plan = CreatePlan(validation)
  BY DEF TypeInv, Plans
<1> DEFINE status == Status(validation.context)
           tail == verifier[v].tail
<1>4. plan.plan_sha256 = <<status, validation>> /\ plan.status = status
  BY <1>3 DEF CreatePlan, Digest
<1>5. Parsed(v) = [plan_sha256 |-> <<status, validation>>, status |-> status,
                   validation |-> tail]
  BY <1>2, <1>4 DEF Parsed, HeadOf
<1>6. <<status, validation>> = <<status, tail>>
  BY <1>1, <1>5 DEF DigestMatches, Digest
<1>7. tail = validation
  BY <1>6
<1>8. Parsed(v) = plan
  BY <1>3, <1>5, <1>7 DEF CreatePlan, Digest
<1> QED BY <1>2, <1>8

(* Together these hold at every moment. *)
LEMMA WholeInvariant == Spec => [](TypeInv /\ HeadsCreated /\ DigestsChecked)
<1>1. Init => TypeInv /\ HeadsCreated /\ DigestsChecked
  BY InitTyped DEF Init, HeadsCreated, FromCreated, DigestsChecked, Writing, Digested, Absent
<1>2. TypeInv /\ HeadsCreated /\ DigestsChecked /\ [Next]_vars
        => (TypeInv /\ HeadsCreated /\ DigestsChecked)'
  BY TypeStep, HeadsStep, DigestsStep
<1> QED BY <1>1, <1>2, PTL DEF Spec

(* Whatever is killed in the middle of a write, and whoever writes the same *)
(* file at once, the bytes that verify-plan accepts are a plan that one run *)
(* created as a whole: the head of the file comes from one created plan,    *)
(* and its digest covers the rest. *)
THEOREM VerifiedPlansAreWhole == Spec => []VerifiedPlanWhole
<1>1. TypeInv /\ HeadsCreated /\ DigestsChecked => VerifiedPlanWhole
  BY DigestIdentifies DEF VerifiedPlanWhole, Verified, Digested
<1> QED BY <1>1, WholeInvariant, PTL

----------------------------------------------------------------------------
(* One writer.                                                              *)

LEMMA OneOpenedStep ==
  ASSUME TypeInv, OneOpened, [Next]_vars
  PROVE  OneOpened'
<1>1. ASSUME Writers' \subseteq Writers, disk.exists => disk'.exists PROVE OneOpened'
  BY <1>1 DEF OneOpened
<1>2. ASSUME NEW p \in Planners, PlanStep(p) PROVE OneOpened'
  <2>1. Wrote(p)
    BY <1>2, PlanStepWrote
  <2>2. \A q \in Planners \ {p} : q \in Writers' <=> q \in Writers
    BY <2>1 DEF Wrote, Writers
  <2>3. CASE p \in Writers' \ Writers
    <3>1. MayOpen(p) /\ disk'.exists /\ ~planner[p].force
      BY <2>1, <2>3 DEF Wrote, Writers, Writing
    <3>2. Writers = {}
      BY <3>1 DEF MayOpen, OneOpened
    <3>3. \A q \in Writers' : q = p
      BY <2>2, <3>2 DEF Writers
    <3> QED BY <3>1, <3>3 DEF OneOpened
  <2>4. CASE p \notin Writers' \ Writers
    <3>1. Writers' \subseteq Writers
      BY <2>2, <2>4 DEF Writers
    <3> QED BY <1>1, <2>1, <3>1 DEF Wrote
  <2> QED BY <2>3, <2>4
<1>3. ASSUME NEW v \in Verifiers, VerifyStep(v) PROVE OneOpened'
  BY <1>1, <1>3, VerifyStepReadOn DEF ReadOn, Writers
<1>4. CASE EnvironmentStep
  BY <1>1, <1>4, EventTyped DEF Writers
<1>5. CASE UNCHANGED vars
  BY <1>1, <1>5 DEF vars, Writers
<1> QED BY <1>2, <1>3, <1>4, <1>5 DEF Next

(* However many runs of `plan` without --force start at once, at most one   *)
(* of them ever writes: opening with create_new needs an absent file, and a *)
(* file once there, empty or half written, stays there. *)
THEOREM OneWriterAtMost == Spec => []OneWriterWithoutForce
<1>1. Init => TypeInv /\ OneOpened
  BY InitTyped DEF Init, OneOpened, Writers
<1>2. TypeInv /\ OneOpened /\ [Next]_vars => (TypeInv /\ OneOpened)'
  BY TypeStep, OneOpenedStep
<1>3. OneOpened => OneWriterWithoutForce
  <2> SUFFICES ASSUME OneOpened PROVE OneWriterWithoutForce
    OBVIOUS
  <2>1. CASE Writers = {}
    BY <2>1, FS_EmptySet DEF OneWriterWithoutForce
  <2>2. CASE Writers # {}
    <3>1. PICK p : Writers = {p}
      BY <2>2 DEF OneOpened
    <3>2. Cardinality(Writers) = 1
      BY <3>1, FS_Singleton
    <3> QED BY <3>2 DEF OneWriterWithoutForce
  <2> QED BY <2>1, <2>2
<1> QED BY <1>1, <1>2, <1>3, PTL DEF Spec

----------------------------------------------------------------------------
(* Verification in a quiet environment.                                     *)

LEMMA ChecksStep ==
  ASSUME TypeInv, ChecksHold, [Next]_vars
  PROVE  ChecksHold'
<1> SUFFICES ASSUME NEW w \in Verifiers, verifier'[w].steady
             PROVE  ChecksHoldFor(w)'
  BY DEF ChecksHold
<1>1. ASSUME verifier'[w] = verifier[w], UNCHANGED environment
      PROVE  ChecksHoldFor(w)'
  <2>1. ChecksHoldFor(w)
    BY <1>1 DEF ChecksHold
  <2> QED BY <1>1, <2>1 DEF environment, ChecksHoldFor, InputMatches, Parsed, NetworkMatches,
                           RunsSource
<1>2. CASE \E p \in Planners : PlanStep(p)
  BY <1>1, <1>2, PlanStepWrote DEF Wrote
<1>3. CASE EnvironmentStep
  BY <1>3, EventTyped DEF Disturbed
<1>4. CASE UNCHANGED vars
  BY <1>1, <1>4 DEF vars
<1>5. ASSUME NEW v \in Verifiers, VerifyStep(v), w # v
      PROVE  ChecksHoldFor(w)'
  BY <1>1, <1>5, VerifyStepReadOn DEF ReadOn, environment
<1>6. ASSUME VerifyStep(w)
      PROVE  ChecksHoldFor(w)'
  <2>1. UNCHANGED environment
    BY <1>6, VerifyStepReadOn DEF ReadOn, environment
  <2>2. /\ UNCHANGED <<files, alias, protocol, deployed>>
        /\ Digested \subseteq VerifyStates
        /\ Len(VerifyOrder) = 6
    BY <2>1, InputOrders DEF environment, VerifyStates
  <2>3. ASSUME NEW condition, NEW next \in VerifyStates, Go(w, condition, next)
        PROVE  /\ verifier'[w].pc = IF condition THEN next ELSE "failed"
               /\ UNCHANGED <<verifier[w].offline, verifier[w].head, verifier[w].tail,
                              verifier[w].checked>>
               /\ ChecksHoldFor(w)
    BY <2>3, VerifierMoved DEF ChecksHold
  <2>4. CASE \E offline \in BOOLEAN : StartVerify(w, offline)
    BY <2>4, StartVerifyTyped DEF StartedVerify, ChecksHoldFor, Digested
  <2>5. CASE ReadTail(w)
    <3>1. ChecksHoldFor(w) /\ verifier[w].pc = "tail"
      BY <2>5, ReadTailTyped DEF ReadSoFar, ChecksHold, ReadTail
    <3> QED BY <2>5, <3>1, ReadTailTyped DEF ReadSoFar, ChecksHoldFor, Digested
  <2>6. CASE CheckDigest(w)
    <3>1. /\ verifier'[w].pc \in {"files", "failed"} /\ ChecksHoldFor(w)
          /\ verifier'[w].checked = verifier[w].checked /\ verifier[w].pc = "digest"
      BY <2>2, <2>3, <2>6 DEF CheckDigest, Digested
    <3>2. verifier'[w].checked = 0
      BY <3>1 DEF ChecksHoldFor
    <3> QED BY <3>1, <3>2 DEF ChecksHoldFor, Digested
  <2>7. CASE CheckInput(w)
    <3> DEFINE next == verifier[w].checked + 1
    <3>1. InputChecked(w) /\ ChecksHoldFor(w) /\ verifier[w].pc = "files"
      BY <2>7, CheckInputTyped DEF InputChecked, ChecksHold, CheckInput
    <3>2. /\ verifier'[w].checked = next /\ verifier[w].checked \in 0 .. 6
          /\ verifier'[w].tail = verifier[w].tail
          /\ verifier'[w].pc = IF InputMatches(w, VerifyOrder[next]) THEN "files" ELSE "failed"
      BY <3>1 DEF InputChecked, TypeInv
    <3>3. \A i \in 1 .. verifier[w].checked : InputMatches(w, VerifyOrder[i])
      BY <3>1 DEF ChecksHoldFor, Digested
    <3>4. ASSUME verifier'[w].pc = "files", NEW i \in 1 .. next
          PROVE  InputMatches(w, VerifyOrder[i])'
      <4>1. InputMatches(w, VerifyOrder[i])
        <5>1. i \in 1 .. verifier[w].checked \/ i = next
          BY <3>2
        <5> QED BY <3>2, <3>3, <3>4, <5>1
      <4> QED BY <2>2, <3>2, <4>1 DEF InputMatches
    <3>5. verifier'[w].pc \in {"files", "failed"}
      BY <3>2
    <3> HIDE DEF next
    <3> QED BY <3>2, <3>4, <3>5 DEF ChecksHoldFor, Digested
  <2>8. CASE CheckStatus(w)
    <3>1. /\ ChecksHoldFor(w) /\ verifier[w].pc = "files" /\ verifier[w].checked = 6
          /\ verifier'[w].pc \in {"network", "verified", "failed"}
          /\ UNCHANGED <<verifier[w].offline, verifier[w].head, verifier[w].tail,
                         verifier[w].checked>>
          /\ ~verifier[w].offline => /\ verifier'[w].pc \in {"network", "failed"}
                                     /\ verifier'[w].pc = "network" =>
                                          verifier[w].head.status = "review_ready"
      <4>1. CASE verifier[w].offline
        BY <2>2, <2>3, <2>8, <4>1 DEF CheckStatus, Digested
      <4>2. CASE ~verifier[w].offline
        BY <2>2, <2>3, <2>8, <4>2 DEF CheckStatus, Digested
      <4> QED BY <4>1, <4>2
    <3> QED BY <2>2, <3>1 DEF ChecksHoldFor, Digested, InputMatches, Parsed
  <2>9. CASE CheckNetwork(w)
    <3>1. /\ ChecksHoldFor(w) /\ verifier[w].pc = "network"
          /\ verifier'[w].pc \in {"contract", "failed"}
          /\ UNCHANGED <<verifier[w].offline, verifier[w].head, verifier[w].tail,
                         verifier[w].checked>>
          /\ verifier'[w].pc = "contract" => NetworkMatches(verifier[w].tail.context)
      BY <2>2, <2>3, <2>9 DEF CheckNetwork, Digested
    <3> QED BY <2>2, <3>1 DEF ChecksHoldFor, Digested, InputMatches, Parsed, NetworkMatches
  <2>10. CASE CheckContract(w)
    <3>1. /\ ChecksHoldFor(w) /\ verifier[w].pc = "contract"
          /\ verifier'[w].pc \in {"verified", "failed"}
          /\ UNCHANGED <<verifier[w].offline, verifier[w].head, verifier[w].tail,
                         verifier[w].checked>>
          /\ verifier'[w].pc = "verified" => RunsSource(verifier[w].tail.files["source_wasm"])
      BY <2>2, <2>3, <2>10 DEF CheckContract, Digested
    <3> QED BY <2>2, <3>1 DEF ChecksHoldFor, Digested, InputMatches, Parsed, NetworkMatches,
                             RunsSource
  <2>11. CASE FailVerify(w)
    <3>1. verifier'[w].pc = "failed"
      BY <2>2, <2>3, <2>11 DEF FailVerify, Digested
    <3> QED BY <3>1 DEF ChecksHoldFor, Digested
  <2> QED BY <1>6, <2>4, <2>5, <2>6, <2>7, <2>8, <2>9, <2>10, <2>11 DEF VerifyStep
<1> QED BY <1>2, <1>3, <1>4, <1>5, <1>6 DEF Next

(* A verified plan, checked online in a quiet environment. *)
LEMMA QuietPlanCurrent ==
  ASSUME TypeInv, DigestsChecked, ChecksHold, NEW v \in Verifiers,
         Verified(v), ~verifier[v].offline, verifier[v].steady
  PROVE  /\ Parsed(v) = CreatePlan([files |-> files, context |-> Live])
         /\ [files |-> files, protocol |-> protocol[alias]] \in SafeEvidence
         /\ deployed[alias] = files["source_wasm"]
<1> DEFINE validation == verifier[v].tail
<1>1. /\ ChecksHoldFor(v) /\ verifier[v].pc = "verified"
      /\ verifier[v].tail # Missing /\ DigestMatches(Parsed(v))
  BY DEF ChecksHold, DigestsChecked, Verified, Digested
<1>2. validation \in Validations
  BY <1>1 DEF TypeInv, Tails
<1>3. /\ \A i \in 1 .. 6 : files[VerifyOrder[i]] = validation.files[VerifyOrder[i]]
      /\ Parsed(v).status = "review_ready" /\ NetworkMatches(validation.context)
      /\ RunsSource(validation.files["source_wasm"])
  BY <1>1 DEF ChecksHoldFor, Digested, InputMatches, Parsed
<1>4. validation.files = files
  <2>1. \A f \in Inputs : files[f] = validation.files[f]
    BY <1>3, InputOrders
  <2> QED BY <1>2, <2>1 DEF Validations, TypeInv
<1>5. validation.context = Live
  <2>1. Status(validation.context) = "review_ready"
    BY <1>1, <1>3 DEF DigestMatches, CreatePlan, Parsed
  <2>2. validation.context.source = "live"
    BY <2>1 DEF Status
  <2>3. validation.context \in Contexts
    BY <1>2 DEF Validations
  <2>4. PICK n \in Networks, k \in Protocols :
          validation.context = [source |-> "live", network |-> n, protocol |-> k]
    BY <2>2, <2>3 DEF Contexts, Offline
  <2> QED BY <1>3, <2>4 DEF NetworkMatches, Live
<1>6. validation = [files |-> files, context |-> Live]
  BY <1>2, <1>4, <1>5 DEF Validations
<1>7. Parsed(v).status = Status(Live) /\ Parsed(v).plan_sha256 = Digest(Status(Live), validation)
  BY <1>1, <1>5 DEF DigestMatches, CreatePlan, Parsed
<1>8. Parsed(v) = CreatePlan(validation)
  BY <1>5, <1>7 DEF CreatePlan, Parsed
<1>9. [files |-> files, protocol |-> protocol[alias]] \in SafeEvidence
  BY <1>1, <1>6 DEF DigestMatches, IsSafe, Parsed, Live
<1>10. deployed[alias] = files["source_wasm"]
  BY <1>3, <1>4 DEF RunsSource
<1> QED BY <1>6, <1>8, <1>9, <1>10

(* A plan verified online while nothing changed is the plan that one would  *)
(* make now: every check of verify-plan is still true when the last one has *)
(* passed, and together they pin down each piece of the plan's evidence. *)
THEOREM VerifiedPlansAreCurrent == Spec => []VerifiedPlanCurrent
<1>1. Init => ChecksHold
  BY DEF Init, ChecksHold, ChecksHoldFor, Digested
<1>2. TypeInv /\ ChecksHold /\ [Next]_vars => ChecksHold'
  BY ChecksStep
<1>3. TypeInv /\ DigestsChecked /\ ChecksHold => VerifiedPlanCurrent
  BY QuietPlanCurrent DEF VerifiedPlanCurrent
<1> QED BY <1>1, <1>2, <1>3, WholeInvariant, PTL DEF Spec
=============================================================================
