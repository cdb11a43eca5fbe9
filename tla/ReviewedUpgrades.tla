-------------------------- MODULE ReviewedUpgrades --------------------------
(***************************************************************************)
(* What plans that are carried out promise the contract, whoever carries    *)
(* them out and in however many steps: an executable is replaced only by    *)
(* one that was approved after it, only over a ledger it fits, and without  *)
(* dropping a key; whatever does not fit the new executable is then         *)
(* rewritten at once, before anything is replaced again.                    *)
(***************************************************************************)
CONSTANTS
  Builds,
  Approved,  \* <<source, target>>: a plan was made of this pair
  LayoutOf   \* build -> the layout it declares for each of its storage keys

VARIABLES
  deployed,  \* the build that runs
  ledger     \* storage key -> layout its value has

vars == <<deployed, ledger>>

Declared == LayoutOf[deployed]
Unfit == {k \in DOMAIN ledger : k \notin DOMAIN Declared \/ ledger[k] # Declared[k]}

Init == deployed \in Builds /\ ledger = Declared

Replace(target) ==
  /\ deployed' = target
  /\ <<deployed, target>> \in Approved
  /\ Unfit = {} /\ DOMAIN ledger \subseteq DOMAIN LayoutOf[target]
  /\ UNCHANGED ledger

Migrate ==
  /\ Unfit # {}
  /\ ledger' = [k \in DOMAIN ledger |-> Declared[k]]
  /\ UNCHANGED deployed

FirstWrite(k) ==
  /\ k \in DOMAIN Declared \ DOMAIN ledger
  /\ ledger' = [key \in DOMAIN ledger \cup {k} |->
                  IF key = k THEN Declared[k] ELSE ledger[key]]
  /\ UNCHANGED deployed

Next ==
  \/ \E target \in Builds : Replace(target)
  \/ Migrate
  \/ \E k \in DOMAIN Declared : FirstWrite(k)

Spec == Init /\ [][Next]_vars
=============================================================================
