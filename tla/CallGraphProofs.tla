-------------------------- MODULE CallGraphProofs --------------------------
(***************************************************************************)
(* The call-evidence walk is correct for every code section: every number  *)
(* of imports, bodies and exports, and every list of direct calls.         *)
(***************************************************************************)
EXTENDS CallGraph, FiniteSets, WellFoundedInduction, NaturalsInduction, TLAPS

----------------------------------------------------------------------------
(* The worklist as a set.                                                   *)

(* Popping the worklist removes at most its top from the elements it holds. *)
LEMMA PopElements ==
  ASSUME NEW S, NEW s \in Seq(S), s # <<>>
  PROVE  /\ Last(s) \in S
         /\ Front(s) \in Seq(S)
         /\ ToSet(s) = ToSet(Front(s)) \cup {Last(s)}
<1>1. Len(s) \in Nat \ {0} /\ DOMAIN s = 1 .. Len(s)
  OBVIOUS
<1>2. /\ Front(s) \in Seq(S)
      /\ Len(Front(s)) = Len(s) - 1
      /\ DOMAIN Front(s) = 1 .. Len(s) - 1
      /\ \A i \in 1 .. Len(s) - 1 : Front(s)[i] = s[i]
  BY <1>1 DEF Front
<1>3. Last(s) \in S
  BY <1>1 DEF Last
<1>4. 1 .. Len(s) = (1 .. Len(s) - 1) \cup {Len(s)}
  BY <1>1
<1> QED
  BY <1>1, <1>2, <1>3, <1>4 DEF ToSet, Last

(* Pushing a body's calls in reverse adds exactly the call targets. *)
LEMMA PushElements ==
  ASSUME NEW S, NEW s \in Seq(S), NEW t \in Seq(S)
  PROVE  /\ PushCalls(s, t) \in Seq(S)
         /\ ToSet(PushCalls(s, t)) = ToSet(s) \cup ToSet(t)
<1> DEFINE r == Reverse(t)
<1>1. /\ r \in Seq(S) /\ Len(r) = Len(t) /\ DOMAIN r = 1 .. Len(t)
      /\ \A i \in 1 .. Len(t) : r[i] = t[Len(t) - i + 1]
  BY DEF Reverse
<1>2. ToSet(r) = ToSet(t)
  <2>1. DOMAIN t = 1 .. Len(t) /\ Len(t) \in Nat
    OBVIOUS
  <2>2. ASSUME NEW i \in 1 .. Len(t)
        PROVE  /\ Len(t) - i + 1 \in 1 .. Len(t)
               /\ r[i] = t[Len(t) - i + 1]
               /\ r[Len(t) - i + 1] = t[i]
    <3>1. Len(t) - i + 1 \in 1 .. Len(t) /\ Len(t) - (Len(t) - i + 1) + 1 = i
      BY <2>1
    <3> QED
      BY <1>1, <3>1
  <2>3. ASSUME NEW x \in ToSet(r) PROVE x \in ToSet(t)
    BY <1>1, <2>1, <2>2 DEF ToSet
  <2>4. ASSUME NEW x \in ToSet(t) PROVE x \in ToSet(r)
    <3>1. PICK i \in 1 .. Len(t) : x = t[i]
      BY <2>1 DEF ToSet
    <3>2. Len(t) - i + 1 \in DOMAIN r /\ r[Len(t) - i + 1] = x
      BY <1>1, <2>2, <3>1
    <3> QED
      BY <3>2 DEF ToSet
  <2> QED
    BY <2>3, <2>4
<1> HIDE DEF r
<1>3. ToSet(s \o r) = ToSet(s) \cup ToSet(r)
  <2>1. /\ DOMAIN s = 1 .. Len(s) /\ Len(s) \in Nat
        /\ DOMAIN r = 1 .. Len(r) /\ Len(r) \in Nat
        /\ DOMAIN (s \o r) = 1 .. Len(s) + Len(r)
    BY <1>1
  <2>2. ASSUME NEW i \in 1 .. Len(s)
        PROVE  i \in DOMAIN (s \o r) /\ (s \o r)[i] = s[i]
    BY <1>1, <2>1
  <2>3. ASSUME NEW i \in 1 .. Len(r)
        PROVE  Len(s) + i \in DOMAIN (s \o r) /\ (s \o r)[Len(s) + i] = r[i]
    BY <1>1, <2>1
  <2>4. ASSUME NEW i \in DOMAIN (s \o r)
        PROVE  \/ i \in DOMAIN s /\ (s \o r)[i] = s[i]
               \/ i - Len(s) \in DOMAIN r /\ (s \o r)[i] = r[i - Len(s)]
    BY <1>1, <2>1
  <2>5. ASSUME NEW x \in ToSet(s \o r) PROVE x \in ToSet(s) \cup ToSet(r)
    BY <2>4 DEF ToSet
  <2>6. ASSUME NEW x \in ToSet(s) PROVE x \in ToSet(s \o r)
    BY <2>1, <2>2 DEF ToSet
  <2>7. ASSUME NEW x \in ToSet(r) PROVE x \in ToSet(s \o r)
    BY <2>1, <2>3 DEF ToSet
  <2> QED
    BY <2>5, <2>6, <2>7
<1>4. PushCalls(s, t) = s \o r /\ s \o r \in Seq(S)
  BY <1>1 DEF PushCalls, r
<1> QED
  BY <1>2, <1>3, <1>4

----------------------------------------------------------------------------
(* Reachability.                                                            *)

(* A root is reachable from itself. *)
LEMMA ReachableRoot ==
  ASSUME NEW root \in Index
  PROVE  root \in Reachable(root)
BY DEF Reachable

(* Reachability is closed under the calls of reachable bodies. *)
LEMMA ReachableClosed ==
  ASSUME NEW root, NEW f \in Reachable(root) \cap Bodies,
         ToSet(calls[f]) \subseteq Index
  PROVE  ToSet(calls[f]) \subseteq Reachable(root)
BY DEF Reachable, Closed

(* Reachability is the least closed set that holds the root. *)
LEMMA ReachableLeast ==
  ASSUME NEW root, NEW S \in SUBSET Index, root \in S, Closed(S)
  PROVE  Reachable(root) \subseteq S
BY DEF Reachable

(* Reachability only depends on the artifact. *)
LEMMA ReachableStable ==
  ASSUME calls' = calls, NEW root
  PROVE  Reachable(root)' = Reachable(root)
BY DEF Reachable, Closed

(* The targets of every call list are indices of the module. *)
LEMMA CallTargets ==
  ASSUME TypeOK, NEW f \in Bodies
  PROVE  calls[f] \in Seq(Index) /\ ToSet(calls[f]) \subseteq Index
<1>1. calls[f] \in Seq(Index)
  BY CallGraphAssumption DEF TypeOK
<1> QED
  BY <1>1 DEF ToSet

----------------------------------------------------------------------------
(* Types.                                                                   *)

(* Popping the worklist of a typed state. *)
LEMMA PopTyped ==
  ASSUME TypeOK, pending # <<>>
  PROVE  /\ Top \in Index
         /\ Pop \in Seq(Index)
         /\ ToSet(pending) = ToSet(Pop) \cup {Top}
BY PopElements DEF TypeOK, Top, Pop

(* The analysis never leaves its types: the evidence only names indices of *)
(* real imports, for every export, whatever the code section holds.        *)
THEOREM TypeCorrect == Spec => []TypeOK
<1> USE CallGraphAssumption
<1>1. Init => TypeOK
  BY DEF Init, TypeOK, NoEvidence, Evidence
<1>2. TypeOK /\ [Next]_vars => TypeOK'
  <2> SUFFICES ASSUME TypeOK, [Next]_vars PROVE TypeOK'
    OBVIOUS
  <2>1. ASSUME NEW e \in Exports, StartExport(e) PROVE TypeOK'
    BY <2>1 DEF StartExport, TypeOK, artifact, NoEvidence, Evidence
  <2>2. CASE PopImport
    <3>1. Top \in Imports /\ Pop \in Seq(Index)
      BY <2>2, PopTyped DEF PopImport, IsImport, Imports
    <3> QED
      BY <2>2, <3>1 DEF PopImport, RecordImport, TypeOK, artifact, Evidence
  <2>3. CASE PopVisited
    BY <2>3, PopTyped DEF PopVisited, TypeOK, artifact
  <2>4. CASE PopBody
    <3>1. Top \in Bodies /\ Pop \in Seq(Index)
      BY <2>4, PopTyped DEF PopBody, IsBody, Bodies
    <3>2. PushCalls(Pop, calls[Top]) \in Seq(Index)
      BY <3>1, CallTargets, PushElements
    <3> QED
      BY <2>4, <3>1, <3>2 DEF PopBody, MarkVisited, TypeOK, artifact, Evidence, Bodies
  <2>5. CASE PopOutOfRange
    BY <2>5, PopTyped DEF PopOutOfRange, MarkVisited, TypeOK, artifact
  <2>6. CASE FinishExport
    BY <2>6 DEF FinishExport, TypeOK, artifact, walk
  <2>7. CASE Finish
    BY <2>7 DEF Finish, TypeOK, artifact, walk
  <2>8. CASE UNCHANGED vars
    BY <2>8 DEF vars, artifact, walk, TypeOK
  <2> QED
    BY <2>1, <2>2, <2>3, <2>4, <2>5, <2>6, <2>7, <2>8 DEF Next, Step, Terminated
<1> QED
  BY <1>1, <1>2, PTL DEF Spec

----------------------------------------------------------------------------
(* Exactness.                                                               *)

Root == exports[export]
Found == visited \cup evidence.host_imports
Seen == Found \cup ToSet(pending)

\* What a finished walk of an index owes: exactly the reachable imports, the
\* dynamic flag of the reachable bodies, and no dangling index.
ExactFor(root, found) ==
  /\ found.host_imports = Reachable(root) \cap Imports
  /\ found.dynamic <=> (Reachable(root) \cap dynamic # {})
  /\ Reachable(root) \subseteq Imports \cup Bodies

WalkInv ==
  pc = "walk" =>
    /\ visited \subseteq Bodies
    /\ Root \in Seen
    /\ Seen \subseteq Reachable(Root)
    /\ \A f \in visited : ToSet(calls[f]) \subseteq Seen
    /\ evidence.dynamic <=> (visited \cap dynamic # {})
ErrorInv == pc = "error" => ~(Reachable(Root) \subseteq Imports \cup Bodies)
ResultInv == \A e \in DOMAIN result : ExactFor(exports[e], result[e])
DoneInv == pc = "done" => DOMAIN result = Exports

(* The inductive invariant: everything seen is reachable, and every call   *)
(* of a visited body has been seen, so an empty worklist closes the set.   *)
IInv == TypeOK /\ WalkInv /\ ErrorInv /\ ResultInv /\ DoneInv

(* When the worklist runs empty the walk has found exactly what it should. *)
LEMMA EmptyWorklistExact ==
  ASSUME TypeOK, WalkInv, pc = "walk", pending = <<>>
  PROVE  ExactFor(Root, evidence)
<1>1. Seen = Found
  BY DEF Seen, ToSet
<1>2. Found \in SUBSET Index /\ evidence.host_imports \subseteq Imports
  BY DEF TypeOK, Found, Evidence, Imports
<1>3. Imports \cap Bodies = {}
  BY CallGraphAssumption DEF Imports, Bodies, Index
<1>4. Closed(Found)
  BY <1>1, <1>2, <1>3 DEF Closed, WalkInv, Found
<1>5. Reachable(Root) = Found
  BY <1>1, <1>2, <1>4, ReachableLeast DEF WalkInv
<1>6. dynamic \subseteq Bodies /\ visited \subseteq Bodies
  BY DEF TypeOK, WalkInv
<1>7. Found \cap Imports = evidence.host_imports
  BY <1>2, <1>3, <1>6 DEF Found
<1>8. Found \cap dynamic = visited \cap dynamic
  BY <1>2, <1>3, <1>6 DEF Found
<1> QED
  BY <1>2, <1>5, <1>6, <1>7, <1>8 DEF ExactFor, WalkInv, Found

(* The obligations of results already recorded survive every step that     *)
(* keeps the artifact and the results.                                      *)
LEMMA ResultsKept ==
  ASSUME ResultInv, UNCHANGED artifact, result' = result
  PROVE  ResultInv'
BY ReachableStable DEF ResultInv, ExactFor, artifact

(* A step of the walk keeps the set it must stay within. *)
LEMMA RootStable ==
  ASSUME UNCHANGED artifact, export' = export
  PROVE  Root' = Root /\ Reachable(Root)' = Reachable(Root)
BY DEF Root, Reachable, Closed, artifact

(* Starting an export puts its own index, and nothing else, on the list. *)
LEMMA StartExportKeeps ==
  ASSUME IInv, TypeOK', NEW e \in Exports, StartExport(e)
  PROVE  IInv'
<1>1. export' = e /\ Root' = exports[e] /\ exports[e] \in Index
  BY DEF StartExport, Root, IInv, TypeOK, artifact
<1>2. Seen' = {exports[e]} /\ visited' = {} /\ evidence'.dynamic = FALSE
  BY DEF StartExport, Seen, Found, ToSet, NoEvidence
<1>3. Root' \in Reachable(Root)'
  BY <1>1 DEF Reachable
<1>4. WalkInv'
  BY <1>1, <1>2, <1>3 DEF WalkInv
<1>5. ErrorInv' /\ ResultInv' /\ DoneInv'
  BY ResultsKept DEF StartExport, IInv, ErrorInv, DoneInv
<1> QED
  BY <1>4, <1>5 DEF IInv

(* An import on top of the worklist moves into the evidence. *)
LEMMA PopImportKeeps ==
  ASSUME IInv, TypeOK', PopImport
  PROVE  IInv'
<1>1. ToSet(pending) = ToSet(Pop) \cup {Top} /\ Top \in Index
  BY PopTyped DEF IInv, PopImport
<1>2. /\ evidence'.host_imports = evidence.host_imports \cup {Top}
      /\ evidence'.dynamic = evidence.dynamic
      /\ visited' = visited /\ pending' = Pop
  BY DEF PopImport, RecordImport, IInv, TypeOK, Evidence
<1>3. Seen' = Seen
  BY <1>1, <1>2 DEF Seen, Found
<1>4. WalkInv'
  BY <1>2, <1>3, RootStable DEF WalkInv, IInv, PopImport, artifact
<1>5. ErrorInv' /\ ResultInv' /\ DoneInv'
  BY ResultsKept DEF PopImport, IInv, ErrorInv, DoneInv
<1> QED
  BY <1>4, <1>5 DEF IInv

(* A body met again is dropped: it is already among the visited ones. *)
LEMMA PopVisitedKeeps ==
  ASSUME IInv, TypeOK', PopVisited
  PROVE  IInv'
<1>1. ToSet(pending) = ToSet(Pop) \cup {Top} /\ Top \in visited
  BY PopTyped DEF IInv, PopVisited, IsVisited
<1>2. Seen' = Seen
  BY <1>1 DEF Seen, Found, PopVisited
<1>3. WalkInv'
  BY <1>2, RootStable DEF WalkInv, IInv, PopVisited, artifact
<1>4. ErrorInv' /\ ResultInv' /\ DoneInv'
  BY ResultsKept DEF PopVisited, IInv, ErrorInv, DoneInv
<1> QED
  BY <1>3, <1>4 DEF IInv

(* A new body is replaced on the worklist by the targets of its calls. *)
LEMMA PopBodyKeeps ==
  ASSUME IInv, TypeOK', PopBody
  PROVE  IInv'
<1>1. /\ ToSet(pending) = ToSet(Pop) \cup {Top}
      /\ Top \in Index /\ Pop \in Seq(Index)
  BY PopTyped DEF IInv, PopBody
<1>2. Top \in Bodies
  BY <1>1 DEF PopBody, IsBody, Bodies
<1>3. calls[Top] \in Seq(Index) /\ ToSet(calls[Top]) \subseteq Index
  BY <1>2, CallTargets DEF IInv
<1>4. ToSet(pending') = ToSet(Pop) \cup ToSet(calls[Top])
  BY <1>1, <1>3, PushElements DEF PopBody
<1>5. /\ visited' = visited \cup {Top}
      /\ evidence'.host_imports = evidence.host_imports
      /\ evidence'.dynamic = (evidence.dynamic \/ Top \in dynamic)
  BY DEF PopBody, MarkVisited, IInv, TypeOK, Evidence
<1>6. Seen' = Seen \cup ToSet(calls[Top])
  BY <1>1, <1>4, <1>5 DEF Seen, Found
<1>7. pc = "walk" /\ UNCHANGED artifact /\ export' = export
  BY DEF PopBody
<1>8. Top \in Reachable(Root)
  BY <1>1, <1>7 DEF IInv, WalkInv, Seen
<1>9. ToSet(calls[Top]) \subseteq Reachable(Root)
  BY <1>2, <1>3, <1>8, ReachableClosed
<1>10. WalkInv'
  <2>1. visited' \subseteq Bodies
    BY <1>2, <1>5, <1>7 DEF IInv, WalkInv
  <2>2. Root' \in Seen' /\ Seen' \subseteq Reachable(Root)'
    BY <1>6, <1>7, <1>9, RootStable DEF IInv, WalkInv
  <2>3. \A f \in visited' : ToSet(calls'[f]) \subseteq Seen'
    BY <1>5, <1>6, <1>7 DEF IInv, WalkInv, artifact
  <2>4. evidence'.dynamic <=> (visited' \cap dynamic' # {})
    <3>1. dynamic' = dynamic
      BY <1>7 DEF artifact
    <3>2. evidence.dynamic <=> (visited \cap dynamic # {})
      BY <1>7 DEF IInv, WalkInv
    <3> QED
      BY <1>5, <3>1, <3>2
  <2> QED
    BY <2>1, <2>2, <2>3, <2>4 DEF WalkInv
<1>11. ErrorInv' /\ ResultInv' /\ DoneInv'
  BY ResultsKept DEF PopBody, IInv, ErrorInv, DoneInv
<1> QED
  BY <1>10, <1>11 DEF IInv

(* The index the analysis fails on is dangling and reachable. *)
LEMMA PopOutOfRangeKeeps ==
  ASSUME IInv, TypeOK', PopOutOfRange
  PROVE  IInv'
<1>1. ToSet(pending) = ToSet(Pop) \cup {Top} /\ Top \in Index
  BY PopTyped DEF IInv, PopOutOfRange
<1>2. Top \in Reachable(Root)
  BY <1>1 DEF IInv, WalkInv, Seen, PopOutOfRange
<1>3. Top \notin Imports \cup Bodies
  BY DEF PopOutOfRange, IsImport, IsBody, Imports, Bodies
<1>4. ErrorInv'
  <2>1. Imports' = Imports /\ Bodies' = Bodies
    OBVIOUS
  <2> QED
    BY <1>2, <1>3, <2>1, RootStable DEF ErrorInv, PopOutOfRange
<1>5. WalkInv' /\ ResultInv' /\ DoneInv'
  BY ResultsKept DEF PopOutOfRange, IInv, WalkInv, DoneInv
<1> QED
  BY <1>4, <1>5 DEF IInv

(* A finished walk records exact evidence. *)
LEMMA FinishExportKeeps ==
  ASSUME IInv, TypeOK', FinishExport
  PROVE  IInv'
<1>1. ExactFor(Root, evidence)
  BY EmptyWorklistExact DEF IInv, FinishExport
<1>2. ResultInv'
  <2> SUFFICES ASSUME NEW e \in (DOMAIN result)'
               PROVE  ExactFor(exports[e], result[e])'
    BY DEF ResultInv
  <2>1. /\ UNCHANGED artifact
        /\ result'[e] = IF e = export THEN evidence ELSE result[e]
        /\ e = export \/ e \in DOMAIN result
    BY DEF FinishExport
  <2>2. ExactFor(exports[e], result'[e])
    BY <1>1, <2>1 DEF IInv, ResultInv, Root
  <2> QED
    BY <2>1, <2>2, ReachableStable DEF ExactFor, artifact
<1>3. WalkInv' /\ ErrorInv' /\ DoneInv'
  BY DEF FinishExport, IInv, WalkInv, ErrorInv, DoneInv
<1> QED
  BY <1>2, <1>3 DEF IInv

(* The evidence of the finished analysis stays what it was. *)
LEMMA FinishKeeps ==
  ASSUME IInv, TypeOK', Finish
  PROVE  IInv'
<1>1. ResultInv' /\ DoneInv'
  BY ResultsKept DEF Finish, IInv, DoneInv
<1>2. WalkInv' /\ ErrorInv'
  BY DEF Finish, WalkInv, ErrorInv
<1> QED
  BY <1>1, <1>2 DEF IInv

(* Nothing changes when the analysis has ended. *)
LEMMA StutterKeeps ==
  ASSUME IInv, TypeOK', UNCHANGED vars
  PROVE  IInv'
<1>1. UNCHANGED artifact /\ UNCHANGED <<pc, export, pending, visited, evidence, result>>
  BY DEF vars, walk
<1>2. ResultInv'
  BY <1>1, ResultsKept DEF IInv
<1>3. WalkInv'
  BY <1>1, RootStable DEF WalkInv, IInv, Seen, Found, artifact
<1>4. ErrorInv' /\ DoneInv'
  BY <1>1, RootStable DEF ErrorInv, DoneInv, IInv
<1> QED
  BY <1>2, <1>3, <1>4 DEF IInv

(* The invariant of the walk. *)
THEOREM WalkInvariant == Spec => []IInv
<1>1. Init /\ TypeOK => IInv
  BY DEF Init, IInv, WalkInv, ErrorInv, ResultInv, DoneInv
<1>2. IInv /\ TypeOK' /\ [Next]_vars => IInv'
  BY StartExportKeeps, PopImportKeeps, PopVisitedKeeps, PopBodyKeeps,
     PopOutOfRangeKeeps, FinishExportKeeps, FinishKeeps, StutterKeeps
     DEF Next, Step, Terminated
<1> QED
  BY <1>1, <1>2, TypeCorrect, PTL DEF Spec

(* For every code section: the evidence of an export names exactly the     *)
(* host imports its direct calls can reach, and its dynamic flag is exactly *)
(* whether it reaches a body with a dynamic call.                           *)
THEOREM EvidenceIsExact == Spec => []EvidenceExact
<1>1. IInv => EvidenceExact
  BY DEF IInv, ResultInv, ExactFor, EvidenceExact
<1> QED
  BY <1>1, WalkInvariant, PTL

(* For every code section: the analysis fails exactly on reachable dangling *)
(* function indices, never silently and never without one.                  *)
THEOREM DanglingIsRejected == Spec => []DanglingRejected
<1>1. IInv => DanglingRejected
  BY DEF IInv, ResultInv, ErrorInv, DoneInv, ExactFor, DanglingRejected, Root
<1> QED
  BY <1>1, WalkInvariant, PTL

----------------------------------------------------------------------------
(* Induction on the naturals, as a fact about sets.                         *)

(* A set of naturals that is not empty has a least element. *)
LEMMA LeastNat ==
  ASSUME NEW T, T \subseteq Nat, T # {}
  PROVE  \E x \in T : \A y \in T : x <= y
<1> DEFINE R == OpToRel(<, Nat)
<1>1. IsWellFoundedOn(R, Nat)
  BY NatLessThanWellFounded
<1>2. R = {ss \in Nat \X Nat : ss[1] < ss[2]}
  BY DEF OpToRel
<1>3. \A x, y \in Nat : <<y, x>> \in R <=> y < x
  BY <1>2
<1> HIDE DEF R
<1>4. PICK x \in T : \A y \in T : ~(<<y, x>> \in R)
  BY <1>1, WFMin, Zenon
<1>5. \A y \in T : ~(y < x)
  BY <1>3, <1>4, Zenon
<1>6. \A y \in T : x \in Nat /\ y \in Nat
  OBVIOUS
<1> QED BY <1>5, <1>6

(* Induction up to n for the naturals of a set. *)
LEMMA UpTo ==
  ASSUME NEW n \in Nat, NEW Good, 0 \in Good,
         \A m \in 1 .. n : m - 1 \in Good => m \in Good
  PROVE  \A m \in 0 .. n : m \in Good
<1> DEFINE bad == {m \in 0 .. n : m \notin Good}
<1>1. ASSUME bad # {} PROVE FALSE
  <2>1. bad \subseteq Nat
    OBVIOUS
  <2> HIDE DEF bad
  <2>2. PICK x \in bad : \A y \in bad : x <= y
    BY <1>1, <2>1, LeastNat
  <2> USE DEF bad
  <2>3. x \in 1 .. n /\ x - 1 \in 0 .. n
    BY <2>2
  <2>4. x - 1 \in Good
    BY <2>2, <2>3
  <2> QED BY <2>3, <2>4, <2>2
<1> QED BY <1>1

----------------------------------------------------------------------------
(* Counting calls.                                                          *)

\* What CallsIn recurs on.
IsSum(list, S, sum, n) ==
  sum = [m \in 0 .. n |->
           IF m = 0 THEN 0
           ELSE LET f == ImportCount + m - 1
                IN  sum[m - 1] + IF f \in S \cap Bodies THEN Len(list[f]) ELSE 0]

(* The recursion has a solution. *)
LEMMA SumExists ==
  ASSUME NEW list, NEW S, NEW n \in Nat
  PROVE  \E sum : IsSum(list, S, sum, n)
<1> DEFINE Good == {m \in Nat : \E sum : IsSum(list, S, sum, m)}
           Adds(m) == LET f == ImportCount + m - 1
                      IN  IF f \in S \cap Bodies THEN Len(list[f]) ELSE 0
<1>1. 0 \in Good
  <2>1. IsSum(list, S, [m \in 0 .. 0 |-> 0], 0)
    BY DEF IsSum
  <2> QED BY <2>1
<1>2. ASSUME NEW m \in 1 .. n, m - 1 \in Good PROVE m \in Good
  <2>1. PICK sum : IsSum(list, S, sum, m - 1)
    BY <1>2
  <2>2. sum = [l \in 0 .. m - 1 |-> IF l = 0 THEN 0 ELSE sum[l - 1] + Adds(l)]
    BY <2>1 DEF IsSum
  <2> HIDE DEF Adds
  <2> DEFINE more == [l \in 0 .. m |-> IF l = m THEN sum[m - 1] + Adds(m) ELSE sum[l]]
  <2>3. \A l \in 0 .. m - 1 : more[l] = sum[l]
    OBVIOUS
  <2>4. ASSUME NEW l \in 0 .. m
        PROVE  more[l] = IF l = 0 THEN 0 ELSE more[l - 1] + Adds(l)
    <3>1. CASE l = m
      <4>1. more[l - 1] = sum[m - 1] /\ l # 0
        BY <2>3, <3>1
      <4> QED BY <3>1, <4>1
    <3>2. CASE l \in 0 .. m - 1
      <4>1. sum[l] = IF l = 0 THEN 0 ELSE sum[l - 1] + Adds(l)
        BY <2>2, <3>2
      <4>2. more[l] = sum[l] /\ (l # 0 => more[l - 1] = sum[l - 1])
        BY <2>3, <3>2
      <4> QED BY <4>1, <4>2
    <3> QED BY <3>1, <3>2
  <2>5. more = [l \in 0 .. m |-> more[l]]
    OBVIOUS
  <2> HIDE DEF more
  <2>6. more = [l \in 0 .. m |-> IF l = 0 THEN 0 ELSE more[l - 1] + Adds(l)]
    BY <2>4, <2>5
  <2>7. IsSum(list, S, more, m)
    BY <2>6 DEF IsSum, Adds
  <2> QED BY <2>7
<1> HIDE DEF Good
<1>3. n \in Good
  BY <1>1, <1>2, UpTo
<1> QED BY <1>3 DEF Good

\* What the body in place m adds to the count.
Adds(S, m) ==
  IF ImportCount + m - 1 \in S \cap Bodies THEN Len(calls[ImportCount + m - 1]) ELSE 0

(* CallsIn adds up the bodies in their places. *)
LEMMA CallsInSums ==
  ASSUME NEW S
  PROVE  \E sum : /\ CallsIn(S) = sum[BodyCount] /\ sum[0] = 0
                  /\ \A m \in 1 .. BodyCount : sum[m] = sum[m - 1] + Adds(S, m)
<1> DEFINE sum == CHOOSE sum : IsSum(calls, S, sum, BodyCount)
<1>1. CallsIn(S) = sum[BodyCount]
  BY DEF CallsIn, IsSum
<1>2. IsSum(calls, S, sum, BodyCount)
  BY CallGraphAssumption, SumExists
<1> HIDE DEF sum
<1>3. sum = [m \in 0 .. BodyCount |-> IF m = 0 THEN 0 ELSE sum[m - 1] + Adds(S, m)]
  BY <1>2 DEF IsSum, Adds
<1>4. 0 \in 0 .. BodyCount /\ \A m \in 1 .. BodyCount : m \in 0 .. BodyCount /\ m # 0
  BY CallGraphAssumption
<1> QED BY <1>1, <1>3, <1>4

(* The count is a number. *)
LEMMA CallsInCounts ==
  ASSUME TypeOK, NEW S
  PROVE  CallsIn(S) \in Nat
<1>1. PICK s : /\ CallsIn(S) = s[BodyCount] /\ s[0] = 0
               /\ \A m \in 1 .. BodyCount : s[m] = s[m - 1] + Adds(S, m)
  BY CallsInSums
<1>2. \A f \in Bodies : Len(calls[f]) \in Nat
  BY CallTargets
<1>3. \A m \in 1 .. BodyCount : Adds(S, m) \in Nat
  BY <1>2 DEF Adds
<1> DEFINE Good == {m \in Nat : s[m] \in Nat}
<1>4. 0 \in Good
  BY <1>1
<1>5. ASSUME NEW m \in 1 .. BodyCount, m - 1 \in Good PROVE m \in Good
  BY <1>1, <1>3, <1>5
<1> HIDE DEF Good
<1>6. BodyCount \in Good
  BY <1>4, <1>5, CallGraphAssumption, UpTo
<1> QED BY <1>1, <1>6 DEF Good

(* Each body adds the length of its call list, once. *)
LEMMA CallsInAdd ==
  ASSUME TypeOK, NEW S, NEW b \in Bodies \ S
  PROVE  /\ CallsIn(S) \in Nat
         /\ CallsIn(S \cup {b}) = CallsIn(S) + Len(calls[b])
<1> DEFINE N == BodyCount
           T == S \cup {b}
           place == b - ImportCount + 1
           extra == Len(calls[b])
<1>1. /\ N \in Nat /\ ImportCount \in Nat /\ b \in Nat
      /\ place \in 1 .. N /\ ImportCount + place - 1 = b
  BY CallGraphAssumption DEF Bodies, Index
<1>2. PICK s : /\ CallsIn(S) = s[N] /\ s[0] = 0
               /\ \A m \in 1 .. N : s[m] = s[m - 1] + Adds(S, m)
  BY CallsInSums
<1>3. PICK t : /\ CallsIn(T) = t[N] /\ t[0] = 0
               /\ \A m \in 1 .. N : t[m] = t[m - 1] + Adds(T, m)
  BY CallsInSums
<1>4. \A f \in Bodies : Len(calls[f]) \in Nat
  BY CallTargets
<1>5. ASSUME NEW m \in 1 .. N
      PROVE  /\ Adds(S, m) \in Nat
             /\ Adds(T, m) = Adds(S, m) + IF m = place THEN extra ELSE 0
  <2>1. Adds(S, m) \in Nat /\ Adds(T, m) \in Nat
    BY <1>4 DEF Adds
  <2>2. CASE m = place
    <3>1. ImportCount + m - 1 = b
      BY <1>1, <2>2
    <3>2. b \in T \cap Bodies /\ b \notin S \cap Bodies
      OBVIOUS
    <3>3. Adds(S, m) = 0 /\ Adds(T, m) = extra
      BY <3>1, <3>2 DEF Adds
    <3> HIDE DEF extra
    <3> QED BY <1>4, <2>1, <2>2, <3>3
  <2>3. CASE m # place
    <3>1. ImportCount + m - 1 # b
      BY <1>1, <2>3
    <3>2. Adds(T, m) = Adds(S, m)
      BY <3>1 DEF Adds
    <3> QED BY <2>1, <2>3, <3>2
  <2>4. m \in Nat
    OBVIOUS
  <2> HIDE DEF extra, T, place
  <2> QED BY <2>2, <2>3
<1> HIDE DEF T, place, extra, N
<1>6. extra \in Nat
  BY <1>4 DEF extra
<1> DEFINE Good == {m \in 0 .. N : s[m] \in Nat /\ t[m] = s[m] + IF place <= m THEN extra ELSE 0}
<1>7. 0 \in Good
  BY <1>1, <1>2, <1>3
<1>8. ASSUME NEW m \in 1 .. N, m - 1 \in Good PROVE m \in Good
  <2>1. s[m - 1] \in Nat /\ t[m - 1] = s[m - 1] + IF place <= m - 1 THEN extra ELSE 0
    BY <1>8
  <2>2. s[m] = s[m - 1] + Adds(S, m) /\ t[m] = t[m - 1] + Adds(T, m)
    BY <1>2, <1>3
  <2>3. /\ Adds(S, m) \in Nat
        /\ Adds(T, m) = Adds(S, m) + IF m = place THEN extra ELSE 0
    BY <1>5
  <2>4. m \in 0 .. N /\ m \in Nat /\ place \in Nat
    BY <1>1
  <2> QED BY <1>6, <2>1, <2>2, <2>3, <2>4
<1> HIDE DEF Good
<1>9. N \in Good
  BY <1>1, <1>7, <1>8, UpTo
<1>10. s[N] \in Nat /\ t[N] = s[N] + extra
  BY <1>1, <1>9 DEF Good
<1> QED BY <1>2, <1>3, <1>10 DEF T, extra

(* Only bodies count. *)
LEMMA CallsInBodies ==
  ASSUME NEW S, NEW T, S \cap Bodies = T \cap Bodies
  PROVE  CallsIn(S) = CallsIn(T)
BY DEF CallsIn

(* Without bodies there is nothing to push. *)
LEMMA CallsInNone == CallsIn({}) = 0
<1>1. PICK s : /\ CallsIn({}) = s[BodyCount] /\ s[0] = 0
               /\ \A m \in 1 .. BodyCount : s[m] = s[m - 1] + Adds({}, m)
  BY CallsInSums
<1> DEFINE Good == {m \in Nat : s[m] = 0}
<1>2. 0 \in Good
  BY <1>1
<1>3. ASSUME NEW m \in 1 .. BodyCount, m - 1 \in Good PROVE m \in Good
  BY <1>1, <1>3 DEF Adds
<1> HIDE DEF Good
<1>4. BodyCount \in Good
  BY <1>2, <1>3, CallGraphAssumption, UpTo
<1> QED BY <1>1, <1>4 DEF Good

(* A pop takes one element, a push adds one per call. *)
LEMMA PopLength ==
  ASSUME pending \in Seq(Index), pending # <<>>
  PROVE  Pop \in Seq(Index) /\ Len(Pop) = Len(pending) - 1
<1>1. Len(pending) \in Nat \ {0}
  OBVIOUS
<1>2. Pop = [i \in 1 .. Len(pending) - 1 |-> pending[i]]
  BY <1>1 DEF Pop, Front
<1>3. Len(pending) - 1 \in Nat /\ \A i \in 1 .. Len(pending) - 1 : pending[i] \in Index
  BY <1>1
<1> QED BY <1>2, <1>3

(* Reversing the call list does not change how many there are. *)
LEMMA PushLength ==
  ASSUME NEW stack \in Seq(Index), NEW list \in Seq(Index)
  PROVE  Len(PushCalls(stack, list)) = Len(stack) + Len(list)
<1>1. Reverse(list) \in Seq(Index) /\ Len(Reverse(list)) = Len(list)
  BY DEF Reverse
<1> QED BY <1>1 DEF PushCalls

(* The worklist stays linear in the code section, for every code section:   *)
(* it is extended before the visited test, but once per body                *)
(* (collect_export_call_evidence). *)
THEOREM WorklistIsBounded == Spec => []WorklistBounded
<1>1. Init => WorklistBounded
  BY CallsInNone DEF Init, WorklistBounded
<1>2. TypeOK /\ WorklistBounded /\ [Next]_vars => WorklistBounded'
  <2> SUFFICES ASSUME TypeOK, WorklistBounded, [Next]_vars PROVE WorklistBounded'
    OBVIOUS
  <2>1. calls' = calls
    BY DEF Next, Step, Terminated, StartExport, PopImport, PopVisited, PopBody, PopOutOfRange,
           FinishExport, Finish, vars, artifact
  <2>2. \A S : CallsIn(S)' = CallsIn(S')
    BY <2>1 DEF CallsIn
  <2>3. /\ Len(pending) \in Nat /\ CallsIn(visited) \in Nat
        /\ Len(pending) <= 1 + CallsIn(visited)
    BY CallsInCounts DEF TypeOK, WorklistBounded
  <2>4. CASE UNCHANGED <<pending, visited>>
    BY <2>2, <2>4 DEF WorklistBounded
  <2>5. ASSUME NEW e \in Exports, StartExport(e) PROVE WorklistBounded'
    <3>1. Len(pending') = 1 /\ visited' = {}
      BY <2>5 DEF StartExport
    <3> QED BY <2>2, <3>1, CallsInNone DEF WorklistBounded
  <2>6. CASE PopImport \/ PopVisited
    <3>1. pending # <<>> /\ pending' = Pop /\ visited' = visited
      BY <2>6 DEF PopImport, PopVisited
    <3>2. Len(pending') = Len(pending) - 1
      BY <3>1, PopLength DEF TypeOK
    <3> QED BY <2>2, <2>3, <3>1, <3>2 DEF WorklistBounded
  <2>7. CASE PopBody
    <3>1. /\ pending # <<>> /\ pending' = PushCalls(Pop, calls[Top])
          /\ visited' = visited \cup {Top} /\ Top \in Bodies \ visited
      BY <2>7, PopTyped DEF PopBody, IsBody, Bodies, IsVisited, MarkVisited
    <3>2. calls[Top] \in Seq(Index)
      BY <3>1, CallTargets
    <3>3. Len(pending') = Len(pending) - 1 + Len(calls[Top])
      BY <3>1, <3>2, PopLength, PushLength DEF TypeOK
    <3>4. CallsIn(visited') = CallsIn(visited) + Len(calls[Top])
      BY <3>1, CallsInAdd
    <3>5. Len(calls[Top]) \in Nat
      BY <3>2
    <3>6. Len(pending') <= 1 + CallsIn(visited')
      BY <2>3, <3>3, <3>4, <3>5
    <3> QED BY <2>2, <3>6 DEF WorklistBounded
  <2>8. CASE PopOutOfRange
    <3>1. /\ pending # <<>> /\ pending' = Pop /\ visited' = visited \cup {Top}
          /\ Top \notin Bodies
      BY <2>8, PopTyped DEF PopOutOfRange, IsBody, Bodies, MarkVisited
    <3>2. Len(pending') = Len(pending) - 1
      BY <3>1, PopLength DEF TypeOK
    <3>3. CallsIn(visited') = CallsIn(visited)
      BY <3>1, CallsInBodies
    <3>4. Len(pending') <= 1 + CallsIn(visited')
      BY <2>3, <3>2, <3>3
    <3> QED BY <2>2, <3>4 DEF WorklistBounded
  <2> QED BY <2>4, <2>5, <2>6, <2>7, <2>8
        DEF Next, Step, Terminated, FinishExport, Finish, walk, vars
<1> QED BY <1>1, <1>2, TypeCorrect, PTL DEF Spec
=============================================================================
