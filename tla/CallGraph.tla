----------------------------- MODULE CallGraph -----------------------------
(***************************************************************************)
(* Static export -> host-import evidence of a contract artifact            *)
(* (soroban-upgrades-core, inspect_export_call_evidence and                *)
(* collect_export_call_evidence).  Every exported function is walked with  *)
(* an explicit LIFO worklist; the walk collects the host imports it can    *)
(* reach through direct calls and notes whether it meets a dynamic call.   *)
(*                                                                         *)
(* A WebAssembly function index below ImportCount names an import; the     *)
(* next BodyCount indices name the bodies of the code section; an index    *)
(* beyond them names nothing and makes the analysis fail.                  *)
(***************************************************************************)
EXTENDS Naturals, Sequences, FiniteSets, SequencesExt

CONSTANTS
  ImportCount,  \* imported_function_count
  BodyCount,    \* number of function bodies in the code section
  MaxIndex,     \* largest function index that appears in the module
  CallLists,    \* the lists of direct calls a body may hold, in program order
  Exports       \* names of the exported functions

Index == 0 .. MaxIndex
Imports == {f \in Index : f < ImportCount}
Bodies == {f \in Index : f >= ImportCount /\ f < ImportCount + BodyCount}

ASSUME CallGraphAssumption ==
  /\ ImportCount \in Nat
  /\ BodyCount \in Nat
  /\ MaxIndex \in Nat
  /\ CallLists \subseteq Seq(Index)

VARIABLES
  calls,      \* body -> its direct_calls; never changes: the artifact
  dynamic,    \* bodies with has_dynamic_dispatch; never changes
  exports,    \* export name -> function index; never changes
  pc,         \* "next" export to start, "walk"ing one, "done", "error"
  export,     \* the export being walked
  pending,    \* the worklist of the walk, its top at the end
  visited,    \* bodies already inspected by the walk
  evidence,   \* what the walk found so far
  result      \* export -> evidence, for the exports already walked

artifact == <<calls, dynamic, exports>>
walk == <<export, pending, visited, evidence>>
vars == <<artifact, pc, walk, result>>

NoEvidence == [host_imports |-> {}, dynamic |-> FALSE]

----------------------------------------------------------------------------
(* The walk of one export.                                                  *)

Top == Last(pending)
\* An operator whose name ends in _Slip is a mistaken variant of the
\* definition after it; no specification uses it (see the README).
IsImport_Slip(f) == f <= ImportCount
IsImport(f) == f < ImportCount
IsBody(f) == f >= ImportCount /\ f < ImportCount + BodyCount

Pop_Slip == pending
Pop == Front(pending)

PushCalls_Slip(stack, list) == IF list = <<>> THEN stack ELSE Append(stack, Last(list))
\* pending.extend(direct_calls.rev()): the first call ends on top.
PushCalls(stack, list) == stack \o Reverse(list)

MarkVisited(f) == visited \cup {f}

IsVisited_Slip(f) == f \in {}
IsVisited(f) == f \in visited

RecordImport(f) == evidence.host_imports \cup {f}

StartExport(e) ==
  /\ pc = "next"
  /\ e \notin DOMAIN result
  /\ pc' = "walk"
  /\ export' = e
  /\ pending' = <<exports[e]>>
  /\ visited' = {}
  /\ evidence' = NoEvidence
  /\ UNCHANGED <<artifact, result>>

PopImport ==
  /\ pc = "walk" /\ pending # <<>> /\ IsImport(Top)
  /\ evidence' = [evidence EXCEPT !.host_imports = RecordImport(Top)]
  /\ pending' = Pop
  /\ UNCHANGED <<artifact, pc, export, visited, result>>

PopVisited ==
  /\ pc = "walk" /\ pending # <<>> /\ ~IsImport(Top) /\ IsVisited(Top)
  /\ pending' = Pop
  /\ UNCHANGED <<artifact, pc, export, visited, evidence, result>>

PopBody ==
  /\ pc = "walk" /\ pending # <<>> /\ IsBody(Top) /\ ~IsVisited(Top)
  /\ visited' = MarkVisited(Top)
  /\ evidence' = [evidence EXCEPT !.dynamic = @ \/ Top \in dynamic]
  /\ pending' = PushCalls(Pop, calls[Top])
  /\ UNCHANGED <<artifact, pc, export, result>>

\* function_bodies.get(body_index) is None: Error::CallGraph ends the analysis.
PopOutOfRange ==
  /\ pc = "walk" /\ pending # <<>> /\ ~IsImport(Top) /\ ~IsBody(Top)
  /\ ~IsVisited(Top)
  /\ visited' = MarkVisited(Top)
  /\ pending' = Pop
  /\ pc' = "error"
  /\ UNCHANGED <<artifact, export, evidence, result>>

FinishExport ==
  /\ pc = "walk" /\ pending = <<>>
  /\ result' = [e \in DOMAIN result \cup {export} |->
                  IF e = export THEN evidence ELSE result[e]]
  /\ pc' = "next"
  /\ UNCHANGED <<artifact, walk>>

Finish ==
  /\ pc = "next" /\ DOMAIN result = Exports
  /\ pc' = "done"
  /\ UNCHANGED <<artifact, walk, result>>

Init ==
  /\ calls \in [Bodies -> CallLists]
  /\ dynamic \in SUBSET Bodies
  /\ exports \in [Exports -> Index]
  /\ pc = "next"
  /\ export \in Exports
  /\ pending = <<>>
  /\ visited = {}
  /\ evidence = NoEvidence
  /\ result = [e \in {} |-> NoEvidence]

Step ==
  \/ \E e \in Exports : StartExport(e)
  \/ PopImport
  \/ PopVisited
  \/ PopBody
  \/ PopOutOfRange
  \/ FinishExport
  \/ Finish

Terminated == pc \in {"done", "error"} /\ UNCHANGED vars

Next == Step \/ Terminated

Spec == Init /\ [][Next]_vars

\* inspect_export_call_evidence is one sequential call: it keeps running.
FairSpec == Spec /\ WF_vars(Step)

----------------------------------------------------------------------------
(* Reference definition: plain graph reachability.                          *)

Closed(S) == \A f \in S \cap Bodies : ToSet(calls[f]) \subseteq S
Reachable(root) ==
  {f \in Index : \A S \in SUBSET Index : root \in S /\ Closed(S) => f \in S}

Evidence == [host_imports : SUBSET Imports, dynamic : BOOLEAN]

(* Types of the analysis state; evidence only ever names real imports. *)
TypeOK ==
  /\ calls \in [Bodies -> CallLists]
  /\ dynamic \in SUBSET Bodies
  /\ exports \in [Exports -> Index]
  /\ pc \in {"next", "walk", "done", "error"}
  /\ export \in Exports
  /\ pending \in Seq(Index)
  /\ visited \in SUBSET Index
  /\ evidence \in Evidence
  /\ DOMAIN result \in SUBSET Exports
  /\ \A e \in DOMAIN result : result[e] \in Evidence

(* The evidence recorded for an export is exactly what graph reachability  *)
(* says: no reachable host import is missed (CAP007/CAP009 would block a   *)
(* good release, CAP008 would stay silent) and none is invented, whatever  *)
(* cycles, shared callees or repeated calls the code section has.          *)
EvidenceExact ==
  \A e \in DOMAIN result :
    LET R == Reachable(exports[e]) IN
      /\ result[e].host_imports = R \cap Imports
      /\ result[e].dynamic <=> (R \cap dynamic # {})

(* The analysis succeeds only when no export reaches a dangling index, and *)
(* fails only when the export it was walking really reaches one.           *)
DanglingRejected ==
  /\ pc = "done" => \A e \in Exports : Reachable(exports[e]) \subseteq Imports \cup Bodies
  /\ pc = "error" => ~(Reachable(exports[export]) \subseteq Imports \cup Bodies)

\* The calls that the bodies in S hold, counted.
CallsIn(S) ==
  LET sum[n \in 0 .. BodyCount] ==
        IF n = 0 THEN 0
        ELSE LET f == ImportCount + n - 1
             IN  sum[n - 1] + IF f \in S \cap Bodies THEN Len(calls[f]) ELSE 0
  IN  sum[BodyCount]

(* The worklist stays linear in the code section although it is extended   *)
(* before the visited test: each body pushes its calls at most once.       *)
WorklistBounded == Len(pending) <= 1 + CallsIn(visited)

(* Recursion in the artifact cannot hang the analysis. *)
Terminates == <>(pc \in {"done", "error"})
=============================================================================
