--------------------------- MODULE AccountRollout ---------------------------
(***************************************************************************)
(* The CAP-0086 account examples (src/examples/cap86-v1, cap86-v2 and       *)
(* cap86-unsafe) as one contract on a ledger through a chain of             *)
(* replacements that the validator lets pass, beside contracts that decode  *)
(* its answers.                                                             *)
(*                                                                         *)
(* The three programs are the same but for the struct Account: every call   *)
(* decodes the stored map, and `deposit` encodes it again.  Beside the      *)
(* builds of the repository there are the ones that a CAP-0086 SDK may make *)
(* of the same sources: sparse reader or writer, and a sparse reader that   *)
(* serves another type than Account.  Calls that trap change nothing.       *)
(***************************************************************************)
EXTENDS Validator, MapCodec, Integers

CONSTANTS
  Builds,      \* [layout, read, write, elsewhere, version]
  Policies,    \* the policies a team may have
  Amounts,     \* deposits
  MinBalance,  \* i128::MIN
  MaxBalance,  \* i128::MAX
  MaxU64       \* u64::MAX

\* The old build predates the sparse functions.
ASSUME AccountAssumption ==
  /\ \A build \in Builds :
       /\ build.layout \in {"v1", "v2", "unsafe"}
       /\ {build.read, build.write} \subseteq {"dense", "sparse"}
       /\ build.layout = "v1" => build.read = "dense"
  /\ Amounts \subseteq Int /\ MinBalance \in Int /\ MaxBalance \in Int /\ MaxU64 \in Nat
  /\ "Option<u32>" \in OptionTypes
  /\ {"Address", "i128", "u64", "u32"} \cap OptionTypes = {}

VARIABLES
  code,        \* the build that is installed
  record,      \* persistent storage under DataKey::Account
  protocol,    \* protocol of the network
  policy,      \* the validator's policy; constant
  total,       \* sum of the accepted deposits (history variable)
  status,      \* the last status written, if any (history variable)
  reader_lost  \* a sparse reader of Account was replaced by a dense one
               \* (history variable)

vars == <<code, record, protocol, policy, total, status, reader_lost>>

----------------------------------------------------------------------------
(* The struct Account of the three sources.                                 *)

Account ==
  [v1 |-> [owner |-> "Address", balance |-> "i128"],
   v2 |-> [owner |-> "Address", balance |-> "i128", status |-> "Option<u32>"],
   unsafe |-> [owner |-> "Address", amount |-> "u64", status |-> "u32"]]
Fields(build) == DOMAIN Account[build.layout]
Owner == "owner"

\* Decoding into a struct needs a value for every field that is no Option.
Required(build) == {f \in Fields(build) : Account[build.layout][f] \notin OptionTypes}
Converts(build, map) ==
  /\ ~DecodeTraps(Claimed, build.read, map, Fields(build))
  /\ \A f \in Required(build) : f \in DOMAIN map /\ map[f] # Void

\* get(&DataKey::Account).unwrap()
Loads(build) == Converts(build, record)
Load(build) == Decoded(Claimed, build.read, record, [f \in Fields(build) |-> Void])
Store(build, account) == record' = Encode(Claimed, build.write, account)

\* __constructor
Constructed(build) ==
  CASE build.layout = "v1" -> [owner |-> Val(Owner), balance |-> Val(0)]
    [] build.layout = "v2" -> [owner |-> Val(Owner), balance |-> Val(0), status |-> Void]
    [] OTHER -> [owner |-> Val(Owner), amount |-> Val(0), status |-> Val(0)]

\* The map that `account` answers with.
Answer(build) == Encode(Claimed, build.write, Load(build))

----------------------------------------------------------------------------
(* The validator's view of a build.                                         *)

Imports(build) ==
  {UpdateWasm}
    \cup When(build.read = "sparse" \/ build.elsewhere, SparseRead)
    \cup When(build.write = "sparse", SparseWrite)
Entrypoints == {"__constructor", "balance", "account", "deposit", "upgrade"}
Artifact(build) ==
  [version |-> build.version,
   functions |-> [name \in Entrypoints |-> "signature"],
   events |-> [name \in {} |-> ""],
   user_types |-> [Account |-> [kind |-> "struct", fields |-> Account[build.layout]]],
   imports |-> Imports(build),
   evidence |-> [upgrade |-> [host_imports |-> Imports(build), dynamic |-> FALSE]],
   env_protocol |-> IF SparseRead \in Imports(build) \/ SparseWrite \in Imports(build)
                    THEN SparseProtocol ELSE SparseProtocol - 1,
   pre_release |-> FALSE]
Context == [source |-> "live", protocol |-> protocol, missing |-> {}]

Accepted(new) ==
  Safe(Findings(Artifact(code), Artifact(new), None, None, policy, Context, None, FALSE))
Runs(build) == Artifact(build).env_protocol <= protocol

----------------------------------------------------------------------------
Init ==
  /\ policy \in Policies /\ protocol \in {SparseProtocol - 1, SparseProtocol}
  /\ code \in {b \in Builds : Runs(b)}
  /\ record = Encode(Claimed, code.write, Constructed(code))
  /\ total = 0 /\ status = IF code.layout = "unsafe" THEN Val(0) ELSE Void
  /\ reader_lost = FALSE

\* `account.balance += amount` traps outside i128.  The unsafe build takes a
\* negative amount as none, cuts it to 64 bits and saturates.
Fits(balance) == balance \in MinBalance .. MaxBalance
Unsigned(amount) == (IF amount > 0 THEN amount ELSE 0) % (MaxU64 + 1)
Saturated(sum) == IF sum > MaxU64 THEN MaxU64 ELSE sum

DepositBalance(amount) ==
  /\ code.layout \in {"v1", "v2"} /\ Loads(code)
  /\ LET balance == Given(Load(code).balance) + amount
     IN  Fits(balance) /\ Store(code, [Load(code) EXCEPT !.balance = Val(balance)])
  /\ total' = total + amount
  /\ UNCHANGED <<code, protocol, policy, status, reader_lost>>

DepositAmount(amount) ==
  /\ code.layout = "unsafe" /\ Loads(code)
  /\ LET sum == Given(Load(code).amount) + Unsigned(amount)
     IN  Store(code, [Load(code) EXCEPT !.amount = Val(Saturated(sum))])
  /\ UNCHANGED <<code, protocol, policy, total, status, reader_lost>>

\* A later release, with the layout of v2, that writes the new field.
SetStatus(value) ==
  /\ code.layout = "v2" /\ Loads(code)
  /\ Store(code, [Load(code) EXCEPT !.status = value])
  /\ status' = value
  /\ UNCHANGED <<code, protocol, policy, total, reader_lost>>

Upgrade(operator, new) ==
  /\ Accepted(new) /\ Runs(new)
  /\ Loads(code) /\ Given(Load(code).owner) = operator
  /\ code' = new
  /\ reader_lost' = (reader_lost \/ (code.read = "sparse" /\ new.read = "dense"))
  /\ UNCHANGED <<record, protocol, policy, total, status>>

UpgradeNetwork ==
  /\ protocol < SparseProtocol
  /\ protocol' = SparseProtocol
  /\ UNCHANGED <<code, record, policy, total, status, reader_lost>>

Next ==
  \/ \E amount \in Amounts : DepositBalance(amount) \/ DepositAmount(amount)
  \/ \E value \in {Void, Val(1)} : SetStatus(value)
  \/ \E operator \in {Owner, "other"}, new \in Builds : Upgrade(operator, new)
  \/ UpgradeNetwork

Spec == Init /\ [][Next]_vars

----------------------------------------------------------------------------
(* Releases that pass the validator, one after the other, never leave the   *)
(* stored account unreadable, whatever was deposited or written between     *)
(* them, as long as the build that reads Account sparsely is not followed   *)
(* by one that reads it densely.  The validator cannot see which type a     *)
(* sparse reader serves, so it refuses every change of the struct, also the *)
(* one that looks covered (CAP005).                                         *)
StaysReadable ==
  /\ "deny_changed_user_types" \in policy.on
  /\ ~reader_lost
  /\ code.write = "sparse" => code.read = "sparse"
  => Loads(code)

(* Under any policy, also one that lets the struct change: no build loses a *)
(* deposit, and no build that does not know the new field drops a value     *)
(* that is present in it, because strict decoding makes it trap instead.    *)
NothingLost ==
  /\ "balance" \in DOMAIN record => record.balance = Val(total)
  /\ status # Void => "status" \in DOMAIN record /\ record.status = status

(* The inference of the runtime witness, for contracts that are replaced at *)
(* different times: an old dense caller decodes the answers of the new      *)
(* build exactly while a sparse writer has no value to write; a dense       *)
(* caller of the new type needs one; and callers that read sparsely first   *)
(* accept every answer.                                                     *)
CallersServed ==
  Loads(code) /\ code.layout # "unsafe" =>
    \A caller \in Builds :
      Converts(caller, Answer(code)) <=>
        CASE caller.layout = "v1" ->
               code.layout = "v1" \/ (code.write = "sparse" /\ status = Void)
          [] caller.layout = "v2" /\ caller.read = "dense" ->
               code.layout = "v2" /\ (code.write = "dense" \/ status # Void)
          [] caller.layout = "v2" /\ caller.read = "sparse" -> TRUE
          [] OTHER -> FALSE
=============================================================================
