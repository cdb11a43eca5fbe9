--------------------------- MODULE RuntimeWitness ---------------------------
(***************************************************************************)
(* The CAP-0086 runtime witness (src/experiments/cap0086-runtime): the      *)
(* guest's five exports, and the runner that first inspects the guest and   *)
(* then executes it on a host, one expectation after the other.             *)
(*                                                                         *)
(* Neither the host nor the guest is trusted: both are arbitrary, and stay  *)
(* as they are during a run.  What does the report PASS say of them?        *)
(***************************************************************************)
EXTENDS MapCodec, Sequences, Functions

VARIABLES
  host,     \* what the host's map functions do
  guest,    \* the WASM file: its ordered imports and its exports' programs
  step,     \* the runner's next check, counted from 0
  verdict   \* "running", then "PASS" or "FAIL"

artifacts == <<host, guest>>
vars == <<host, guest, step, verdict>>

----------------------------------------------------------------------------
(* The guest.  A program writes a map, reads it back and returns the values *)
(* in the slots.  A deviating one may return what the runner wants to see   *)
(* whatever it read (answer = "wanted").                                    *)

Import == [dense |-> [write |-> "m.9", read |-> "m.a"],
           sparse |-> [write |-> "m.b", read |-> "m.c"]]
VecNew == "v.g"

Owned(extra) == [extra |-> extra, owner |-> Val(10), value |-> Val(20)]
OldMap == [owner |-> Val(10), value |-> Val(20)]
Cleared_Slip(fields) == [f \in fields |-> Void]
\* Start values of the slots, so that a slot the host leaves alone shows.
Unread(fields) == [f \in fields |-> Val(71)]
OldFields == {"owner", "value"}
NewFields == {"extra"} \cup OldFields

Program(writer, written, reader, slots) ==
  [calls |-> {Import[writer].write, Import[reader].read, VecNew},
   writer |-> writer, written |-> written, reader |-> reader, slots |-> slots,
   dynamic |-> FALSE, answer |-> "read"]

OldToNewSparse == Program("dense", OldMap, "sparse", Unread(NewFields))
OldToNewDense == Program("dense", OldMap, "dense", Unread(NewFields))
AllSlots_Slip == Program("sparse", Owned(Void), "dense", Unread(NewFields))
NewNoneToOldDense == Program("sparse", Owned(Void), "dense", Unread(OldFields))
NewSomeToOldDense == Program("sparse", Owned(Val(30)), "dense", Unread(OldFields))
NewSomeToNewSparse ==
  Program("sparse", Owned(Val(30)), "sparse", [f \in NewFields |-> Void])

Canonical ==
  [old_to_new_sparse |-> OldToNewSparse,
   old_to_new_dense |-> OldToNewDense,
   new_none_to_old_dense |-> NewNoneToOldDense,
   new_some_to_old_dense |-> NewSomeToOldDense,
   new_some_to_new_sparse |-> NewSomeToNewSparse]

Other(how) == IF how = "dense" THEN "sparse" ELSE "dense"
\* The shortcuts of the runner's tests, for any one export, and one that the
\* tests do not have: the export makes all its calls and then returns
\* something else.
Faked(program) == [program EXCEPT !.answer = "wanted"]
Deviations(program) ==
  {Program(Other(program.writer), program.written, program.reader, program.slots),
   Program(program.writer, program.written, Other(program.reader), program.slots),
   [Faked(program) EXCEPT !.calls = {VecNew}],
   [Faked(program) EXCEPT !.dynamic = TRUE],
   Faked(program)}

ExpectedImports == <<"m.9", "m.b", "v.g", "m.a", "m.c">>
ImportLists ==
  {ExpectedImports, Append(ExpectedImports, "m.manual_lookup"), Append(ExpectedImports, "m.c"),
   SubSeq(ExpectedImports, 1, 4), <<"m.b", "m.9", "v.g", "m.a", "m.c">>}

Without(f, name) == [n \in DOMAIN f \ {name} |-> f[n]]
ExportTables ==
  {Canonical}
    \cup UNION {{[Canonical EXCEPT ![e] = p] : p \in Deviations(Canonical[e])} :
                 e \in DOMAIN Canonical}
    \cup {Without(Canonical, e) : e \in DOMAIN Canonical}
\* A program calls only what the module imports.
Guests ==
  {g \in [imports : ImportLists, exports : ExportTables] :
     \A e \in DOMAIN g.exports : g.exports[e].calls \subseteq Range(g.imports)}

----------------------------------------------------------------------------
(* The runner's expectations, in the order of its code.                     *)

Trap == [slots |-> <<>>, trapped |-> TRUE]
Returned(slots) == [slots |-> slots, trapped |-> FALSE]

Case(export, protocol, wanted) ==
  [export |-> export, protocol |-> protocol, wanted |-> wanted]
Cases ==
  <<Case("old_to_new_sparse", 28, Returned(Owned(Void))),
    Case("old_to_new_dense", 28, Trap),
    Case("new_none_to_old_dense", 28, Returned(OldMap)),
    Case("new_some_to_old_dense", 28, Trap),
    Case("new_some_to_new_sparse", 28, Returned(Owned(Val(30)))),
    Case("old_to_new_sparse", 27, Trap)>>

\* Exports in the order of their inspection, with the calls they must reach.
Reaches(export, writer, reader) == [export |-> export, calls |-> {writer, reader, VecNew}]
CallExpectations ==
  <<Reaches("old_to_new_sparse", "m.9", "m.c"),
    Reaches("old_to_new_dense", "m.9", "m.a"),
    Reaches("new_none_to_old_dense", "m.b", "m.a"),
    Reaches("new_some_to_old_dense", "m.b", "m.a"),
    Reaches("new_some_to_new_sparse", "m.b", "m.c")>>

\* What an export returns to `invoke`; the first case of the export says what
\* a faked program was made to return.
WantedOf(export) ==
  LET first == CHOOSE i \in DOMAIN Cases :
                 /\ Cases[i].export = export
                 /\ \A j \in 1 .. (i - 1) : Cases[j].export # export
  IN  Cases[first].wanted

Invoke(export, protocol) ==
  IF export \notin DOMAIN guest.exports \/ (host.gate /\ protocol < 28) THEN Trap
  ELSE
    LET p == guest.exports[export]
        map == Encode(host, p.writer, p.written)
    IN
      IF p.answer = "wanted" THEN WantedOf(export)
      ELSE IF DecodeTraps(host, p.reader, map, DOMAIN p.slots) THEN Trap
      ELSE Returned(Decoded(host, p.reader, map, p.slots))

----------------------------------------------------------------------------
(* The run.                                                                 *)

Init ==
  /\ host \in Hosts /\ guest \in Guests
  /\ step = 0 /\ verdict = "running"

AtLast == step = Len(CallExpectations) + Len(Cases)
Outcome(passed) ==
  IF ~passed THEN "FAIL" ELSE IF AtLast THEN "PASS" ELSE "running"

Continue(passed) ==
  /\ verdict' = Outcome(passed)
  /\ step' = step + 1
  /\ UNCHANGED artifacts

CheckImports ==
  /\ verdict = "running" /\ step = 0
  /\ Continue(guest.imports = ExpectedImports)

CheckCalls ==
  /\ verdict = "running" /\ step \in DOMAIN CallExpectations
  /\ LET expected == CallExpectations[step] IN
     Continue(/\ expected.export \in DOMAIN guest.exports
              /\ ~guest.exports[expected.export].dynamic
              /\ guest.exports[expected.export].calls = expected.calls)

\* expect_values and expect_trap.
CheckResult ==
  /\ verdict = "running" /\ step > Len(CallExpectations)
  /\ LET case == Cases[step - Len(CallExpectations)]
     IN  Continue(Invoke(case.export, case.protocol) = case.wanted)

Next == CheckImports \/ CheckCalls \/ CheckResult

Spec == Init /\ [][Next]_vars

----------------------------------------------------------------------------
HonestGuest == \A e \in DOMAIN guest.exports : guest.exports[e].answer = "read"

(* PASS is evidence: whatever the host does, and whichever shortcut the     *)
(* guest takes, the runner reports its facts only of a host that has them   *)
(* all.  No single case shows that (a host that keeps Void fields and       *)
(* ignores extra ones satisfies the third), the six together do.  The       *)
(* protocol gate is shown even for a guest that returns something else than *)
(* it read; the other facts are not, because the inspection sees the calls  *)
(* an export makes and not what it does with their results.                 *)
WitnessSound ==
  verdict = "PASS" =>
    /\ host.gate
    /\ HonestGuest => host = Claimed
    /\ \A e \in DOMAIN guest.exports :
         guest.exports[e] \in {Canonical[e], Faked(Canonical[e])}

(* FAIL is evidence too: the guest of the repository on a host with the     *)
(* claimed facts is never reported as a failure, neither by the inspection  *)
(* nor by an expectation.                                                   *)
WitnessComplete ==
  verdict = "FAIL" =>
    host # Claimed \/ guest.exports # Canonical \/ guest.imports # ExpectedImports
=============================================================================
