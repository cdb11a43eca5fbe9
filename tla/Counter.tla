------------------------------ MODULE Counter ------------------------------
(***************************************************************************)
(* What the counter examples promise their callers, whatever build answers  *)
(* and whatever the layout of the storage: a counter that goes up by one    *)
(* with each accepted increment and never wraps, that answers with its      *)
(* value, and that only the administrator pauses.  Migration and            *)
(* replacement of the executable are invisible.                             *)
(***************************************************************************)
EXTENDS Naturals

CONSTANTS
  Addresses, \* callers
  Admin,     \* the administrator among them
  MaxCount   \* u32::MAX

VARIABLES
  count,     \* increments accepted so far
  paused,    \* whether increments are refused
  answer     \* the last call and what it answered

vars == <<count, paused, answer>>

Counts == 0 .. MaxCount
Managing == {"migrate", "upgrade"}
Calls == {"none", "trap", "count", "increment", "paused", "set_paused"} \cup Managing
Answers == [call : Calls, by : Addresses, number : Counts, flag : BOOLEAN]

\* A call without a number or a flag in its answer has 0 and FALSE there.
Answer(call, by, number, flag) ==
  [call |-> call, by |-> by, number |-> number, flag |-> flag]
Silence == Answer("none", Admin, 0, FALSE)

Init == count = 0 /\ paused = FALSE /\ answer = Silence

Increment(by) ==
  /\ ~paused /\ count < MaxCount
  /\ count' = count + 1
  /\ answer' = Answer("increment", by, count + 1, FALSE)
  /\ UNCHANGED paused

Read(by) ==
  /\ answer' \in {Answer("count", by, count, FALSE), Answer("paused", by, 0, paused)}
  /\ UNCHANGED <<count, paused>>

SetPaused(flag) ==
  /\ paused' = flag
  /\ answer' = Answer("set_paused", Admin, 0, flag)
  /\ UNCHANGED count

Manage ==
  /\ \E call \in Managing : answer' = Answer(call, Admin, 0, FALSE)
  /\ UNCHANGED <<count, paused>>

\* A call that traps leaves no trace in the storage.
Trap(by) ==
  /\ answer' = Answer("trap", by, 0, FALSE)
  /\ UNCHANGED <<count, paused>>

Next ==
  \/ \E by \in Addresses : Increment(by) \/ Read(by) \/ Trap(by)
  \/ \E flag \in BOOLEAN : SetPaused(flag)
  \/ Manage

Spec == Init /\ [][Next]_vars
=============================================================================
