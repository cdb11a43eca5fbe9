------------------------- MODULE AccountRolloutProofs -------------------------
(***************************************************************************)
(* The stored account survives every chain of replacements, for all         *)
(* balances, amounts and builds of the three layouts.                       *)
(***************************************************************************)
EXTENDS AccountRollout, TLAPS

----------------------------------------------------------------------------
(* Maps as the claimed host encodes and decodes them.                       *)

(* A value is not Void, and is what was given. *)
LEMMA ValGiven ==
  ASSUME NEW x
  PROVE  Val(x) # Void /\ Given(Val(x)) = x
BY DEF Val, Void, Given

(* The fields of the three layouts; only the new status is optional. *)
LEMMA Layouts ==
  ASSUME NEW build \in Builds
  PROVE  /\ build.layout = "v1" => /\ Fields(build) = {"owner", "balance"}
                                   /\ Required(build) = {"owner", "balance"}
         /\ build.layout = "v2" => /\ Fields(build) = {"owner", "balance", "status"}
                                   /\ Required(build) = {"owner", "balance"}
         /\ build.layout = "unsafe" => /\ Fields(build) = {"owner", "amount", "status"}
                                       /\ Required(build) = {"owner", "amount", "status"}
<1> DEFINE a == Account[build.layout]
<1>1. ASSUME build.layout = "v1" PROVE a = [owner |-> "Address", balance |-> "i128"]
  BY <1>1 DEF Account
<1>2. ASSUME build.layout = "v2"
      PROVE  a = [owner |-> "Address", balance |-> "i128", status |-> "Option<u32>"]
  BY <1>2 DEF Account
<1>3. ASSUME build.layout = "unsafe"
      PROVE  a = [owner |-> "Address", amount |-> "u64", status |-> "u32"]
  BY <1>3 DEF Account
<1>4. Fields(build) = DOMAIN a /\ Required(build) = {f \in DOMAIN a : a[f] \notin OptionTypes}
  BY DEF Fields, Required
<1> HIDE DEF a
<1>5. CASE build.layout = "v1"
  BY <1>1, <1>4, <1>5, AccountAssumption
<1>6. CASE build.layout = "v2"
  BY <1>2, <1>4, <1>6, AccountAssumption
<1>7. CASE build.layout = "unsafe"
  BY <1>3, <1>4, <1>7, AccountAssumption
<1> QED BY <1>5, <1>6, <1>7, AccountAssumption

(* A dense reader needs exactly its fields, a sparse one takes any map; both *)
(* need a value in each required field. *)
LEMMA ConvertsWhen ==
  ASSUME NEW build \in Builds, NEW map
  PROVE  Converts(build, map) <=>
           /\ build.read = "dense" => DOMAIN map = Fields(build)
           /\ \A f \in Required(build) : f \in DOMAIN map /\ map[f] # Void
<1>1. DecodeTraps(Claimed, build.read, map, Fields(build)) <=>
        build.read = "dense" /\ DOMAIN map # Fields(build)
  BY AccountAssumption DEF DecodeTraps, Claimed
<1> QED BY <1>1 DEF Converts

(* What a reader sees: an absent field is Void. *)
LEMMA LoadIs ==
  ASSUME NEW build
  PROVE  Load(build) =
           [f \in Fields(build) |-> IF f \in DOMAIN record THEN record[f] ELSE Void]
BY DEF Load, Decoded, Claimed

\* A map holds the fields that are written, each with its value.
EncodedAs(map, how, values) ==
  /\ \A f : f \in DOMAIN map <=> f \in DOMAIN values /\ (how = "sparse" => values[f] # Void)
  /\ \A f \in DOMAIN map : map[f] = values[f]

(* What either encoder makes of the values of a struct. *)
LEMMA Encoded ==
  ASSUME NEW how, NEW values
  PROVE  EncodedAs(Encode(Claimed, how, values), how, values)
BY DEF EncodedAs, Encode, Claimed

----------------------------------------------------------------------------
(* The stored record.                                                       *)

\* It holds the account, with the status last written unless that is Void ...
AccountStored ==
  /\ {"owner", "balance"} \subseteq DOMAIN record
  /\ DOMAIN record \subseteq {"owner", "balance", "status"}
  /\ record["owner"] = Val(Owner) /\ record["balance"] = Val(total)
  /\ status = IF "status" \in DOMAIN record THEN record["status"] ELSE Void
\* ... or what only the unsafe build can read.
UnsafeStored ==
  /\ DOMAIN record = {"owner", "amount", "status"}
  /\ record["owner"] = Val(Owner) /\ record["amount"] # Void
  /\ record["status"] = Val(0) /\ status = Val(0)

\* While the struct may not change, the installed build finds its own fields;
\* the status is missing only where some build is or was sparse.
OwnRecord ==
  /\ code.layout = "v1" => AccountStored /\ "status" \notin DOMAIN record
  /\ code.layout = "v2" =>
       /\ AccountStored
       /\ "status" \in DOMAIN record \/ "sparse" \in {code.read, code.write} \/ reader_lost
  /\ code.layout = "unsafe" => UnsafeStored

IInv ==
  /\ code \in Builds
  /\ AccountStored \/ UnsafeStored
  /\ "deny_changed_user_types" \in policy.on => OwnRecord

(* Only v1 and v2 find what they need in a stored account, v1 only without *)
(* a status. *)
LEMMA AccountLoads ==
  ASSUME IInv, Loads(code), code.layout # "unsafe"
  PROVE  /\ AccountStored
         /\ code.layout = "v1" => "status" \notin DOMAIN record
         /\ DOMAIN Load(code) = Fields(code)
         /\ Load(code)["owner"] = Val(Owner) /\ Load(code)["balance"] = Val(total)
         /\ code.layout = "v2" => Load(code)["status"] = status
<1>1. /\ code.layout \in {"v1", "v2"} /\ code \in Builds
      /\ Required(code) = {"owner", "balance"}
  BY Layouts, AccountAssumption DEF IInv
<1>2. "balance" \in DOMAIN record
  BY <1>1, ConvertsWhen DEF Loads
<1>3. AccountStored
  BY <1>2 DEF IInv, UnsafeStored
<1>4. code.layout = "v1" => DOMAIN record = {"owner", "balance"}
  BY <1>1, Layouts, ConvertsWhen, AccountAssumption DEF Loads
<1>5. /\ code.layout = "v1" => Fields(code) = {"owner", "balance"}
      /\ code.layout = "v2" => Fields(code) = {"owner", "balance", "status"}
  BY <1>1, Layouts
<1>6. DOMAIN Load(code) = Fields(code)
  BY LoadIs
<1>7. /\ Load(code)["owner"] = Val(Owner) /\ Load(code)["balance"] = Val(total)
      /\ code.layout = "v2" => Load(code)["status"] = status
  BY <1>1, <1>3, <1>5, LoadIs DEF AccountStored
<1> QED BY <1>3, <1>4, <1>6, <1>7

(* What v1 stores is an account without a status. *)
LEMMA StoresV1 ==
  ASSUME NEW account, DOMAIN account = {"owner", "balance"},
         account["owner"] = Val(Owner), account["balance"] = Val(total'),
         status' = Void, Store(code, account)
  PROVE  AccountStored' /\ "status" \notin DOMAIN record'
<1> DEFINE map == Encode(Claimed, code.write, account)
<1>1. EncodedAs(map, code.write, account)
  BY Encoded
<1>2. record' = map
  BY DEF Store
<1> HIDE DEF map
<1>3. DOMAIN record' = {"owner", "balance"} /\ \A f \in DOMAIN record' : record'[f] = account[f]
  BY <1>1, <1>2, ValGiven DEF EncodedAs
<1> QED BY <1>3 DEF AccountStored

(* What v2 stores is an account, complete unless its writer is sparse. *)
LEMMA StoresV2 ==
  ASSUME NEW account, DOMAIN account = {"owner", "balance", "status"},
         account["owner"] = Val(Owner), account["balance"] = Val(total'),
         account["status"] = status', Store(code, account)
  PROVE  /\ AccountStored'
         /\ "status" \in DOMAIN record' \/ code.write = "sparse"
<1> DEFINE map == Encode(Claimed, code.write, account)
<1>1. EncodedAs(map, code.write, account)
  BY Encoded
<1>2. record' = map
  BY DEF Store
<1> HIDE DEF map
<1>3. {"owner", "balance"} \subseteq DOMAIN record'
  BY <1>1, <1>2, ValGiven DEF EncodedAs
<1>4. "status" \in DOMAIN record' <=> (code.write = "sparse" => status' # Void)
  BY <1>1, <1>2 DEF EncodedAs
<1>5. /\ DOMAIN record' \subseteq {"owner", "balance", "status"}
      /\ \A f \in DOMAIN record' : record'[f] = account[f]
  BY <1>1, <1>2 DEF EncodedAs
<1> QED BY <1>3, <1>4, <1>5 DEF AccountStored

(* A call that stores the account with its new values keeps the invariant. *)
LEMMA StoredAgain ==
  ASSUME NEW account, IInv, code.layout \in {"v1", "v2"},
         DOMAIN account = Fields(code),
         account["owner"] = Val(Owner), account["balance"] = Val(total'),
         code.layout = "v1" => status' = Void,
         code.layout = "v2" => account["status"] = status',
         Store(code, account), UNCHANGED <<code, policy, reader_lost>>
  PROVE  IInv'
<1>1. CASE code.layout = "v1"
  <2>1. AccountStored' /\ "status" \notin DOMAIN record'
    BY <1>1, StoresV1, Layouts DEF IInv
  <2> QED BY <1>1, <2>1 DEF IInv, OwnRecord
<1>2. CASE code.layout = "v2"
  <2>1. AccountStored' /\ ("status" \in DOMAIN record' \/ code.write = "sparse")
    BY <1>2, StoresV2, Layouts DEF IInv
  <2> QED BY <1>2, <2>1 DEF IInv, OwnRecord
<1> QED BY <1>1, <1>2

(* A deposit into v1 or v2 adds to both the record and the sum. *)
LEMMA DepositBalanceStep ==
  ASSUME IInv, NEW amount \in Amounts, DepositBalance(amount)
  PROVE  IInv'
<1>1. /\ code.layout \in {"v1", "v2"} /\ Loads(code) /\ total' = total + amount
      /\ UNCHANGED <<code, protocol, policy, status, reader_lost>>
  BY DEF DepositBalance
<1>2. /\ AccountStored /\ code \in Builds
      /\ code.layout = "v1" => "status" \notin DOMAIN record
      /\ DOMAIN Load(code) = Fields(code)
      /\ Load(code)["owner"] = Val(Owner) /\ Load(code)["balance"] = Val(total)
      /\ code.layout = "v2" => Load(code)["status"] = status
  BY <1>1, AccountLoads DEF IInv
<1> DEFINE account == [Load(code) EXCEPT !.balance = Val(total')]
<1>3. Given(Load(code).balance) + amount = total'
  BY <1>1, <1>2, ValGiven
<1>4. Store(code, account)
  BY <1>3 DEF DepositBalance
<1>5. "balance" \in Fields(code)
  BY <1>1, <1>2, Layouts
<1>6. /\ DOMAIN account = Fields(code)
      /\ account["owner"] = Val(Owner) /\ account["balance"] = Val(total')
      /\ code.layout = "v2" => account["status"] = status'
  BY <1>1, <1>2, <1>5
<1>7. code.layout = "v1" => status' = Void
  BY <1>1, <1>2 DEF AccountStored
<1> QED BY <1>1, <1>4, <1>6, <1>7, StoredAgain

(* Only the unsafe build can deposit into its own record, and nothing leads *)
(* back to an account. *)
LEMMA DepositAmountStep ==
  ASSUME IInv, NEW amount \in Amounts, DepositAmount(amount)
  PROVE  IInv'
<1>1. /\ code.layout = "unsafe" /\ Loads(code) /\ code \in Builds
      /\ UNCHANGED <<code, protocol, policy, total, status, reader_lost>>
  BY DEF DepositAmount, IInv
<1>2. Fields(code) = {"owner", "amount", "status"} /\ Required(code) = Fields(code)
  BY <1>1, Layouts
<1>3. UnsafeStored
  <2>1. "amount" \in DOMAIN record
    BY <1>1, <1>2, ConvertsWhen DEF Loads
  <2> QED BY <2>1 DEF IInv, AccountStored
<1>4. PICK n : Store(code, [Load(code) EXCEPT !.amount = Val(n)])
  BY DEF DepositAmount
<1> DEFINE account == [Load(code) EXCEPT !.amount = Val(n)]
           map == Encode(Claimed, code.write, account)
<1>5. DOMAIN Load(code) = Fields(code) /\ \A f \in Fields(code) : Load(code)[f] = record[f]
  BY <1>2, <1>3, LoadIs DEF UnsafeStored
<1>6. /\ DOMAIN account = {"owner", "amount", "status"}
      /\ account["owner"] = Val(Owner) /\ account["amount"] = Val(n)
      /\ account["status"] = Val(0)
  BY <1>2, <1>3, <1>5 DEF UnsafeStored
<1> HIDE DEF account
<1>7. EncodedAs(map, code.write, account)
  BY Encoded
<1>8. record' = map
  BY <1>4 DEF Store, account
<1> HIDE DEF map
<1>9. DOMAIN record' = {"owner", "amount", "status"} /\ \A f \in DOMAIN record' : record'[f] = account[f]
  BY <1>6, <1>7, <1>8, ValGiven DEF EncodedAs
<1>10. UnsafeStored'
  BY <1>1, <1>3, <1>6, <1>9, ValGiven DEF UnsafeStored
<1> QED BY <1>1, <1>10 DEF IInv, OwnRecord

(* A later release writes the new field. *)
LEMMA SetStatusStep ==
  ASSUME IInv, NEW value, SetStatus(value)
  PROVE  IInv'
<1>1. /\ code.layout = "v2" /\ Loads(code) /\ status' = value
      /\ Store(code, [Load(code) EXCEPT !.status = value])
      /\ UNCHANGED <<code, protocol, policy, total, reader_lost>>
  BY DEF SetStatus
<1>2. /\ DOMAIN Load(code) = Fields(code) /\ code \in Builds
      /\ Load(code)["owner"] = Val(Owner) /\ Load(code)["balance"] = Val(total)
  BY <1>1, AccountLoads DEF IInv
<1> DEFINE account == [Load(code) EXCEPT !.status = value]
<1>3. "status" \in Fields(code)
  BY <1>1, <1>2, Layouts
<1>4. /\ DOMAIN account = Fields(code)
      /\ account["owner"] = Val(Owner) /\ account["balance"] = Val(total')
      /\ account["status"] = status'
  BY <1>1, <1>2, <1>3
<1> QED BY <1>1, <1>4, StoredAgain

----------------------------------------------------------------------------
(* Replacements.                                                            *)

(* A release that passes while the struct may not change has the layout of  *)
(* its predecessor: a changed type is an error, also one that looks covered *)
(* by a sparse reader. *)
LEMMA LayoutKept ==
  ASSUME code \in Builds, NEW new \in Builds, Accepted(new),
         "deny_changed_user_types" \in policy.on
  PROVE  new.layout = code.layout
<1> DEFINE source == Artifact(code)
           target == Artifact(new)
           types == Changed(source.user_types, target.user_types)
           finding(t) ==
             ChangedTypeFinding(source.user_types[t], target.user_types[t], target, Context)
<1>1. Safe(CompareInterfaces(source, target, policy, Context))
  BY DEF Accepted, Findings, Safe
<1>2. Safe({finding(t) : t \in types})
  BY <1>1 DEF CompareInterfaces, Safe
<1>3. \A t : finding(t).severity = "error"
  BY DEF ChangedTypeFinding, Error
<1>4. types = {}
  <2> HIDE DEF finding, types
  <2> QED BY <1>2, <1>3 DEF Safe
<1>5. Account[code.layout] = Account[new.layout]
  <2>1. source.user_types = [Account |-> [kind |-> "struct", fields |-> Account[code.layout]]]
    BY DEF Artifact
  <2>2. target.user_types = [Account |-> [kind |-> "struct", fields |-> Account[new.layout]]]
    BY DEF Artifact
  <2>3. source.user_types.Account = target.user_types.Account
    BY <1>4, <2>1, <2>2 DEF Changed
  <2> QED BY <2>1, <2>2, <2>3
<1>6. Fields(code) = Fields(new)
  BY <1>5 DEF Fields
<1> QED BY <1>6, Layouts, AccountAssumption

(* A replacement changes no record; the new build finds its fields in it. *)
LEMMA UpgradeStep ==
  ASSUME IInv, NEW operator, NEW new \in Builds, Upgrade(operator, new)
  PROVE  IInv'
<1>1. /\ Accepted(new) /\ Loads(code) /\ code' = new
      /\ reader_lost' = (reader_lost \/ (code.read = "sparse" /\ new.read = "dense"))
      /\ UNCHANGED <<record, protocol, policy, total, status>>
  BY DEF Upgrade
<1>2. (AccountStored \/ UnsafeStored)'
  BY <1>1 DEF IInv, AccountStored, UnsafeStored
<1>3. ASSUME "deny_changed_user_types" \in policy.on PROVE OwnRecord'
  <2>1. OwnRecord /\ new.layout = code.layout /\ code \in Builds
    BY <1>1, <1>3, LayoutKept DEF IInv
  <2>2. /\ AccountStored' <=> AccountStored
        /\ UnsafeStored' <=> UnsafeStored
    BY <1>1 DEF AccountStored, UnsafeStored
  <2>3. ASSUME code.layout = "v2", "status" \notin DOMAIN record
        PROVE  code.read = "sparse"
    <3>1. Fields(code) # DOMAIN record
      BY <2>1, <2>3, Layouts
    <3> QED BY <1>1, <2>1, <3>1, ConvertsWhen, AccountAssumption DEF Loads
  <2>4. ASSUME code.layout = "v2"
        PROVE  "status" \in DOMAIN record' \/ new.read = "sparse" \/ reader_lost' = TRUE
    BY <1>1, <2>3, <2>4, AccountAssumption
  <2> QED BY <1>1, <2>1, <2>2, <2>4 DEF OwnRecord
<1> QED BY <1>1, <1>2, <1>3 DEF IInv

(* The constructor stores what its own build reads. *)
LEMMA Constructs ==
  ASSUME Init PROVE IInv
<1>1. /\ code \in Builds /\ record = Encode(Claimed, code.write, Constructed(code))
      /\ total = 0 /\ status = IF code.layout = "unsafe" THEN Val(0) ELSE Void
  BY DEF Init
<1> DEFINE first == Constructed(code)
<1> HIDE DEF first
<1>2. EncodedAs(record, code.write, first)
  BY <1>1, Encoded DEF first
<1>3. CASE code.layout = "v1"
  <2>1. first = [owner |-> Val(Owner), balance |-> Val(0)]
    BY <1>3 DEF Constructed, first
  <2>2. DOMAIN record = {"owner", "balance"}
    BY <1>2, <2>1, ValGiven DEF EncodedAs
  <2>3. AccountStored
    BY <1>1, <1>2, <1>3, <2>1, <2>2 DEF EncodedAs, AccountStored
  <2> QED BY <1>1, <1>3, <2>2, <2>3 DEF IInv, OwnRecord
<1>4. CASE code.layout = "v2"
  <2>1. first = [owner |-> Val(Owner), balance |-> Val(0), status |-> Void]
    BY <1>4 DEF Constructed, first
  <2>2. /\ {"owner", "balance"} \subseteq DOMAIN record
        /\ DOMAIN record \subseteq {"owner", "balance", "status"}
        /\ "status" \in DOMAIN record \/ code.write = "sparse"
    BY <1>2, <2>1, ValGiven DEF EncodedAs
  <2>3. AccountStored
    BY <1>1, <1>2, <1>4, <2>1, <2>2 DEF EncodedAs, AccountStored
  <2> QED BY <1>1, <1>4, <2>2, <2>3 DEF IInv, OwnRecord
<1>5. CASE code.layout = "unsafe"
  <2>1. first = [owner |-> Val(Owner), amount |-> Val(0), status |-> Val(0)]
    BY <1>5 DEF Constructed, first
  <2>2. DOMAIN record = {"owner", "amount", "status"}
    BY <1>2, <2>1, ValGiven DEF EncodedAs
  <2>3. UnsafeStored
    BY <1>1, <1>2, <1>5, <2>1, <2>2, ValGiven DEF EncodedAs, UnsafeStored
  <2> QED BY <1>1, <1>5, <2>3 DEF IInv, OwnRecord
<1> QED BY <1>1, <1>3, <1>4, <1>5, AccountAssumption

(* Whatever is deposited, written and replaced, the record is one of the    *)
(* two, and the installed build's own while the struct may not change. *)
THEOREM RecordInvariant == Spec => []IInv
<1>1. Init => IInv
  BY Constructs
<1>2. IInv /\ [Next]_vars => IInv'
  <2> SUFFICES ASSUME IInv, [Next]_vars PROVE IInv'
    OBVIOUS
  <2>1. CASE \E amount \in Amounts : DepositBalance(amount)
    BY <2>1, DepositBalanceStep
  <2>2. CASE \E amount \in Amounts : DepositAmount(amount)
    BY <2>2, DepositAmountStep
  <2>3. CASE \E value \in {Void, Val(1)} : SetStatus(value)
    BY <2>3, SetStatusStep
  <2>4. CASE \E operator \in {Owner, "other"}, new \in Builds : Upgrade(operator, new)
    BY <2>4, UpgradeStep
  <2>5. CASE UpgradeNetwork
    BY <2>5 DEF UpgradeNetwork, IInv, OwnRecord, AccountStored, UnsafeStored
  <2>6. CASE UNCHANGED vars
    BY <2>6 DEF vars, IInv, OwnRecord, AccountStored, UnsafeStored
  <2> QED BY <2>1, <2>2, <2>3, <2>4, <2>5, <2>6 DEF Next
<1> QED BY <1>1, <1>2, PTL DEF Spec

(* StaysReadable: releases that pass the default policy's type check never  *)
(* leave the stored account unreadable. *)
THEOREM AccountStaysReadable == Spec => []StaysReadable
<1>1. IInv => StaysReadable
  <2> SUFFICES ASSUME IInv, "deny_changed_user_types" \in policy.on, ~reader_lost,
                      code.write = "sparse" => code.read = "sparse"
               PROVE  Loads(code)
    BY DEF StaysReadable
  <2>1. OwnRecord /\ code \in Builds
    BY DEF IInv
  <2>2. code.read = "dense" => DOMAIN record = Fields(code)
    BY <2>1, Layouts, AccountAssumption DEF OwnRecord, AccountStored, UnsafeStored
  <2>3. \A f \in Required(code) : f \in DOMAIN record /\ record[f] # Void
    BY <2>1, Layouts, ValGiven, AccountAssumption DEF OwnRecord, AccountStored, UnsafeStored
  <2> QED BY <2>1, <2>2, <2>3, ConvertsWhen DEF Loads
<1> QED BY <1>1, RecordInvariant, PTL

(* NothingLost: under any policy the stored balance is the sum of the       *)
(* deposits, and the status is the one last written. *)
THEOREM NothingIsLost == Spec => []NothingLost
<1>1. IInv => NothingLost
  BY DEF IInv, AccountStored, UnsafeStored, NothingLost
<1> QED BY <1>1, RecordInvariant, PTL

(* What the installed build answers: the status, unless it is sparse and    *)
(* has none to write. *)
LEMMA Answers ==
  ASSUME IInv, Loads(code), code.layout # "unsafe"
  PROVE  /\ {"owner", "balance"} \subseteq DOMAIN Answer(code)
         /\ DOMAIN Answer(code) \subseteq {"owner", "balance", "status"}
         /\ Answer(code)["owner"] # Void /\ Answer(code)["balance"] # Void
         /\ "status" \in DOMAIN Answer(code) <=>
              code.layout = "v2" /\ (code.write = "dense" \/ status # Void)
<1> DEFINE account == Load(code)
           map == Encode(Claimed, code.write, account)
<1>1. /\ code \in Builds /\ code.layout \in {"v1", "v2"}
      /\ DOMAIN account = Fields(code)
      /\ account["owner"] = Val(Owner) /\ account["balance"] = Val(total)
      /\ code.layout = "v2" => account["status"] = status
  BY AccountLoads, AccountAssumption DEF IInv
<1> HIDE DEF account
<1>2. EncodedAs(map, code.write, account)
  BY Encoded
<1>3. Answer(code) = map
  BY DEF Answer, account
<1> HIDE DEF map
<1>4. /\ code.layout = "v1" => Fields(code) = {"owner", "balance"}
      /\ code.layout = "v2" => Fields(code) = {"owner", "balance", "status"}
      /\ code.write # "sparse" <=> code.write = "dense"
  BY <1>1, Layouts, AccountAssumption
<1> QED BY <1>1, <1>2, <1>3, <1>4, ValGiven DEF EncodedAs

(* CallersServed: which callers decode the answers of a contract that is    *)
(* replaced at another time, for every caller. *)
THEOREM CallersAreServed == Spec => []CallersServed
<1>1. ASSUME IInv, Loads(code), code.layout # "unsafe", NEW caller \in Builds
      PROVE  Converts(caller, Answer(code)) <=>
               CASE caller.layout = "v1" ->
                      code.layout = "v1" \/ (code.write = "sparse" /\ status = Void)
                 [] caller.layout = "v2" /\ caller.read = "dense" ->
                      code.layout = "v2" /\ (code.write = "dense" \/ status # Void)
                 [] caller.layout = "v2" /\ caller.read = "sparse" -> TRUE
                 [] OTHER -> FALSE
  <2> DEFINE map == Answer(code)
             served == code.layout = "v2" /\ (code.write = "dense" \/ status # Void)
  <2>1. /\ {"owner", "balance"} \subseteq DOMAIN map
        /\ DOMAIN map \subseteq {"owner", "balance", "status"}
        /\ map["owner"] # Void /\ map["balance"] # Void
        /\ "status" \in DOMAIN map <=> served
    BY <1>1, Answers
  <2> HIDE DEF map
  <2>2. Converts(caller, map) <=>
          /\ caller.read = "dense" => DOMAIN map = Fields(caller)
          /\ \A f \in Required(caller) : f \in DOMAIN map /\ map[f] # Void
    BY <1>1, ConvertsWhen
  <2>3. code.layout \in {"v1", "v2"} /\ code.write \in {"dense", "sparse"}
    BY <1>1, AccountAssumption DEF IInv
  <2>4. ASSUME caller.layout = "v1"
        PROVE  Converts(caller, map) <=>
                 code.layout = "v1" \/ (code.write = "sparse" /\ status = Void)
    <3>1. /\ Fields(caller) = {"owner", "balance"} /\ Required(caller) = {"owner", "balance"}
          /\ caller.read = "dense"
      BY <1>1, <2>4, Layouts, AccountAssumption
    <3>2. Converts(caller, map) <=> ~served
      BY <2>1, <2>2, <3>1
    <3> QED BY <2>3, <3>2
  <2>5. ASSUME caller.layout = "v2"
        PROVE  Converts(caller, map) <=> (caller.read = "dense" => served)
    <3>1. /\ Fields(caller) = {"owner", "balance", "status"}
          /\ Required(caller) = {"owner", "balance"}
      BY <1>1, <2>5, Layouts
    <3> QED BY <2>1, <2>2, <3>1
  <2>6. ASSUME caller.layout = "unsafe" PROVE ~Converts(caller, map)
    <3>1. "amount" \in Required(caller)
      BY <1>1, <2>6, Layouts
    <3> QED BY <2>1, <2>2, <3>1
  <2>7. caller.layout \in {"v1", "v2", "unsafe"} /\ caller.read \in {"dense", "sparse"}
    BY <1>1, AccountAssumption
  <2> QED BY <2>4, <2>5, <2>6, <2>7 DEF map
<1>2. IInv => CallersServed
  BY <1>1 DEF CallersServed
<1> QED BY <1>2, RecordInvariant, PTL
=============================================================================
