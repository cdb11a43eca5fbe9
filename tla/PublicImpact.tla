---------------------------- MODULE PublicImpact ----------------------------
(***************************************************************************)
(* Static propagation of changed types to the public interface             *)
(* (soroban-upgrades-core, trace_public_impacts and routes_to_type).        *)
(*                                                                         *)
(* For every retained public boundary and every changed type, a bounded     *)
(* depth-first search enumerates the routes from the type at the boundary   *)
(* to the changed type, once in the source artifact and once in the target; *)
(* the routes both artifacts have become the reported impacts.  A search    *)
(* that hits one of its three limits stops and makes the report say so      *)
(* (finding RES001).                                                        *)
(***************************************************************************)
EXTENDS Naturals, Sequences, FiniteSets, SequencesExt

CONSTANTS
  Types,      \* names of user-defined types
  References, \* every TypeReference an artifact may hold, in sorted order;
              \* a record [owner_type, member, target_type]
  Shapes,     \* the part of a canonical type that refers to no other type
  OldShape,   \* what that part is called in the source artifact
  Functions,  \* names of exported functions
  Slots,      \* public boundary of a function: position, index and label
  Limits      \* the limits a build may have; a record [steps, depth, paths]

ASSUME PublicImpactAssumption ==
  /\ IsFiniteSet(Types)
  /\ References \in Seq(ToSet(References))
  /\ \A i, j \in DOMAIN References : References[i] = References[j] => i = j
  /\ Limits \subseteq [steps : Nat \ {0}, depth : Nat, paths : Nat \ {0}]
  /\ OldShape \in Shapes
  /\ \A i \in DOMAIN References :
       References[i].owner_type \in Types /\ References[i].target_type \in Types

\* The canonical form of a type fixes its references, the canonical form of a
\* function fixes the user types at its boundaries (slot -> root type).
OwnRefs(t) == {r \in ToSet(References) : r.owner_type = t}
Signatures == UNION {[S -> Types] : S \in SUBSET Slots}
TypeTables(S, shapes) ==
  {f \in [S -> [refs : SUBSET ToSet(References), shape : shapes]] :
     \A t \in S : f[t].refs \subseteq OwnRefs(t)}
Artifacts(S, shapes) ==
  [types : TypeTables(S, shapes), functions : [Functions -> Signatures]]

VARIABLES
  limits,           \* MAX_PUBLIC_IMPACT_{STEPS, DEPTH, PATHS} of this build
  source, target,   \* the two artifacts; they never change
  pc,               \* "next" pair, search in "source" or "target", "done"
  todo,             \* (boundary, changed type) pairs still to trace
  pair,             \* the pair being traced
  pending,          \* the stack of the search, its top at the end
  visited_steps,    \* items popped by the search
  routes,           \* routes found by the search
  limited,          \* the search hit a limit
  source_routes,    \* routes of the finished search in the source
  impacts,          \* reported impacts
  limit_exceeded    \* some search hit a limit: RES001

artifacts == <<limits, source, target>>
search == <<pending, visited_steps, routes, limited>>
report == <<impacts, limit_exceeded>>
vars == <<artifacts, pc, todo, pair, search, source_routes, report>>

MaxSteps == limits.steps
MaxDepth == limits.depth
MaxPaths == limits.paths

----------------------------------------------------------------------------
(* What is traced.                                                          *)

ChangedTypes(before, after) ==
  {t \in DOMAIN before.types \cap DOMAIN after.types :
     before.types[t] # after.types[t]}

\* A boundary is retained when it is in both artifacts and its function is
\* unchanged.
Boundaries(a) ==
  {[function |-> f, slot |-> s] : f \in Functions, s \in Slots}
    \cap {b \in [function : Functions, slot : Slots] :
            b.slot \in DOMAIN a.functions[b.function]}
RootType(a, b) == a.functions[b.function][b.slot]
RetainedBoundaries(before, after) ==
  {b \in Boundaries(before) \cap Boundaries(after) :
     /\ RootType(before, b) = RootType(after, b)
     /\ before.functions[b.function] = after.functions[b.function]}

----------------------------------------------------------------------------
(* routes_to_type                                                           *)

Item(t, steps, active) == [type |-> t, steps |-> steps, active |-> active]
Searched == IF pc = "source" THEN source ELSE target
Goal == pair.changed
Current == Last(pending)

StartSearch(a, root) ==
  /\ pending' = IF root \in DOMAIN a.types THEN <<Item(root, <<>>, {})>> ELSE <<>>
  /\ visited_steps' = 0
  /\ routes' = {}
  /\ limited' = FALSE

LimitHit ==
  \/ visited_steps + 1 > MaxSteps
  \/ Len(Current.steps) > MaxDepth
  \/ Cardinality(routes) >= MaxPaths

\* The references of the current type, last one first, as they are pushed.
Edges(a, t) ==
  LET owned == IF t \in DOMAIN a.types THEN a.types[t].refs ELSE {}
      edges[n \in 0 .. Len(References)] ==
        IF n = 0 THEN <<>>
        ELSE IF References[n] \in owned THEN <<References[n]>> \o edges[n - 1]
        ELSE edges[n - 1]
  IN  edges[Len(References)]

\* (Names ending in _Slip are mistaken variants, see the README.)
Room_Slip(popped) == LET used == Len(popped) + visited_steps
                     IN  IF used >= MaxSteps THEN 0 ELSE MaxSteps - used
RoomEarly_Slip(popped) == LET used == Len(popped) + visited_steps + 2
                          IN  IF used >= MaxSteps THEN 0 ELSE MaxSteps - used
\* Pushes allowed before pending.len() + visited_steps reaches the limit.
Room(popped) ==
  LET used == Len(popped) + visited_steps + 1
  IN  IF used >= MaxSteps THEN 0 ELSE MaxSteps - used

Entered_Slip(item) == {item.type}
Entered(item) == item.active \cup {item.type}

PushedMember_Slip(item, edges) ==
  [i \in DOMAIN edges |->
     Item(edges[i].member, Append(item.steps, edges[i]), Entered(item))]
Pushed(item, edges) ==
  [i \in DOMAIN edges |->
     Item(edges[i].target_type, Append(item.steps, edges[i]), Entered(item))]

Searching == pc \in {"source", "target"} /\ ~limited /\ pending # <<>>
FrameSearch == UNCHANGED <<artifacts, pc, todo, pair, source_routes, report>>

PopLimited ==
  /\ Searching /\ LimitHit
  /\ pending' = Front(pending)
  /\ visited_steps' = visited_steps + 1
  /\ limited' = TRUE
  /\ UNCHANGED routes /\ FrameSearch

PopRoute ==
  /\ Searching /\ ~LimitHit /\ Current.type = Goal
  /\ pending' = Front(pending)
  /\ visited_steps' = visited_steps + 1
  /\ routes' = routes \cup {Current.steps}
  /\ UNCHANGED limited /\ FrameSearch

PopCycle ==
  /\ Searching /\ ~LimitHit /\ Current.type # Goal /\ Current.type \in Current.active
  /\ pending' = Front(pending)
  /\ visited_steps' = visited_steps + 1
  /\ UNCHANGED <<routes, limited>> /\ FrameSearch

PopType ==
  /\ Searching /\ ~LimitHit /\ Current.type # Goal /\ Current.type \notin Current.active
  /\ LET popped == Front(pending)
         edges == Edges(Searched, Current.type)
         room == Room(popped)
         kept == IF Len(edges) <= room THEN edges ELSE SubSeq(edges, 1, room)
     IN  /\ pending' = popped \o Pushed(Current, kept)
         /\ limited' = (Len(edges) > room)
  /\ visited_steps' = visited_steps + 1
  /\ UNCHANGED routes /\ FrameSearch

SearchOver == limited \/ pending = <<>>

----------------------------------------------------------------------------
(* trace_public_impacts                                                     *)

Impact(p, steps) == [boundary |-> p.boundary, changed |-> p.changed, steps |-> steps]

TracePair(p) ==
  /\ pc = "next" /\ p \in todo
  /\ pc' = "source"
  /\ todo' = todo \ {p}
  /\ pair' = p
  /\ StartSearch(source, RootType(source, p.boundary))
  /\ UNCHANGED <<artifacts, source_routes, report>>

SourceTraced ==
  /\ pc = "source" /\ SearchOver
  /\ pc' = "target"
  /\ source_routes' = routes
  /\ limit_exceeded' = (limit_exceeded \/ limited)
  /\ StartSearch(target, RootType(target, pair.boundary))
  /\ UNCHANGED <<artifacts, todo, pair, impacts>>

CommonRoutes == source_routes \cap routes

OrLimit_Slip == limited
OrLimit == limit_exceeded \/ limited

TargetTraced ==
  /\ pc = "target" /\ SearchOver
  /\ pc' = "next"
  /\ impacts' = impacts \cup {Impact(pair, steps) : steps \in CommonRoutes}
  /\ limit_exceeded' = OrLimit
  /\ UNCHANGED <<artifacts, todo, pair, search, source_routes>>

Finish ==
  /\ pc = "next" /\ todo = {}
  /\ pc' = "done"
  /\ UNCHANGED <<artifacts, todo, pair, search, source_routes, report>>

\* Every pair a trace of these artifacts has to cover.
Pairs(before, after) ==
  [boundary : RetainedBoundaries(before, after), changed : ChangedTypes(before, after)]

Init ==
  /\ limits \in Limits
  /\ source \in Artifacts(Types, {OldShape})
  /\ target \in UNION {Artifacts(S, Shapes) : S \in SUBSET Types}
  /\ pc = "next"
  /\ todo = Pairs(source, target)
  /\ pair = [boundary |-> <<>>, changed |-> <<>>]
  /\ pending = <<>>
  /\ visited_steps = 0
  /\ routes = {}
  /\ limited = FALSE
  /\ source_routes = {}
  /\ impacts = {}
  /\ limit_exceeded = FALSE

Step ==
  \/ \E p \in todo : TracePair(p)
  \/ PopLimited \/ PopRoute \/ PopCycle \/ PopType
  \/ SourceTraced \/ TargetTraced \/ Finish

Terminated == pc = "done" /\ UNCHANGED vars

Next == Step \/ Terminated

Spec == Init /\ [][Next]_vars

----------------------------------------------------------------------------
(* Reference definition: chains of references without a repeated type.      *)

\* A walk the unlimited search would push: the types it leaves are pairwise
\* distinct and none is the goal.
IsWalk(a, root, goal, w) ==
  /\ root \in DOMAIN a.types
  /\ \A i \in DOMAIN w :
       /\ w[i].owner_type \in DOMAIN a.types /\ w[i] \in a.types[w[i].owner_type].refs
       /\ w[i].owner_type = IF i = 1 THEN root ELSE w[i - 1].target_type
       /\ w[i].owner_type # goal
       /\ \A j \in 1 .. i - 1 : w[j].owner_type # w[i].owner_type
Ends(root, w) == IF w = <<>> THEN root ELSE Last(w).target_type

Walks(a, root, goal) ==
  {w \in UNION {[1 .. n -> ToSet(References)] : n \in 0 .. Cardinality(Types)} :
     IsWalk(a, root, goal, w)}
Routes(a, root, goal) == {w \in Walks(a, root, goal) : Ends(root, w) = goal}

\* The search visits walks depth first, the references in sorted order.
Before(v, w) ==
  \E i \in DOMAIN v \cap DOMAIN w :
    /\ SubSeq(v, 1, i - 1) = SubSeq(w, 1, i - 1)
    /\ \E m, n \in DOMAIN References :
         m < n /\ References[m] = v[i] /\ References[n] = w[i]

PairRoutes(a, p) == Routes(a, RootType(a, p.boundary), p.changed)
ExpectedImpacts ==
  UNION {{Impact(p, steps) : steps \in PairRoutes(source, p) \cap PairRoutes(target, p)} :
           p \in Pairs(source, target)}

Items == [type : Types, steps : Seq(ToSet(References)), active : SUBSET Types]

(* Types of the trace state. *)
TypeOK ==
  /\ pc \in {"next", "source", "target", "done"}
  /\ todo \subseteq Pairs(source, target)
  /\ pending \in Seq(Items)
  /\ visited_steps \in Nat
  /\ routes \subseteq Seq(ToSet(References))
  /\ limited \in BOOLEAN /\ limit_exceeded \in BOOLEAN
  /\ source_routes \subseteq Seq(ToSet(References))

(* Every reported impact is real: its chain exists without a repeated type *)
(* in both artifacts, from a boundary whose function is unchanged to a type *)
(* that changed; a limit may cut the list short but never adds to it.       *)
ImpactsSound == pc = "done" => impacts \subseteq ExpectedImpacts

(* A changed type that stays reachable from an unchanged function is never *)
(* missed silently: without RES001 the report holds every common route.     *)
NoImpactMissedSilently ==
  pc = "done" /\ ~limit_exceeded => ExpectedImpacts \subseteq impacts

(* RES001 blocks a release, so it must mean something: some search really   *)
(* has a walk too deep, more walks than allowed pops, or a walk left over    *)
(* after as many routes as allowed.                                          *)
LimitJustified ==
  pc = "done" /\ limit_exceeded =>
    \E p \in Pairs(source, target), a \in {source, target} :
      LET walks == Walks(a, RootType(a, p.boundary), p.changed)
      IN  \/ \E w \in walks : Len(w) > MaxDepth
          \/ Cardinality(walks) > MaxSteps
          \/ \E w \in walks :
               Cardinality({r \in PairRoutes(a, p) : Before(r, w)}) >= MaxPaths

(* The search is bounded in memory as well as in time: what it has popped  *)
(* plus what it has queued never exceeds the step limit, whatever the       *)
(* fan-out of a type, and it never keeps more routes than allowed.          *)
WorkBounded ==
  /\ visited_steps + Len(pending) <= MaxSteps
  /\ Cardinality(routes) <= MaxPaths
  /\ \A steps \in routes : Len(steps) <= MaxDepth

(* What docs/CHECKS.md says of the limits ("Public-impact analysis stops at *)
(* these limits ... 256 public-impact paths"; RES001 tells that it did).  *)
(* The code limits each search, not the analysis, so this does not hold.   *)
ReportWithinLimit == pc = "done" /\ ~limit_exceeded => Cardinality(impacts) <= MaxPaths
=============================================================================
