----------------------- MODULE CounterContractProofs -----------------------
(***************************************************************************)
(* Theorems about CounterContract, for every set of callers, administrator  *)
(* and width of the counter.                                                *)
(***************************************************************************)
EXTENDS CounterContract, TLAPS

Counts == 0 .. MaxCount
Old(n) == Fresh(1, ConfigV1(n))
New(n, flag) == Fresh(2, ConfigV2(n, flag))

(* The two layouts of the storage, and who can meet them. *)
IsOldLayout == \E n \in Counts : storage = Old(n)
IsNewLayout == \E n \in Counts, flag \in BOOLEAN : storage = New(n, flag)

IInv ==
  /\ code \in Codes /\ rolled_back \in BOOLEAN /\ answer \in Abstract!Answers
  /\ IsOldLayout \/ IsNewLayout \/ (storage = ConstructUnsafe /\ code = "unsafe")
  /\ code = "v1" /\ ~rolled_back => IsOldLayout

(* The refinement mapping, as functions of the storage. *)
CountIn(s) == IF "Config" \in DOMAIN s THEN s["Config"].count ELSE 0
PausedIn(s) ==
  IF "Config" \in DOMAIN s /\ "paused" \in DOMAIN s["Config"] THEN s["Config"].paused ELSE FALSE

----------------------------------------------------------------------------
(* What the storage operations do to the two layouts. *)

LEMMA SetConfig ==
  ASSUME NEW schema, NEW before, NEW after
  PROVE  Set(Fresh(schema, before), "Config", after) = Fresh(schema, after)
BY DEF Set, Fresh

(* Writing the schema version leaves the rest of the instance storage alone. *)
LEMMA SetSchema ==
  ASSUME NEW before, NEW after, NEW config
  PROVE  Set(Fresh(before, config), "SchemaVersion", after) = Fresh(after, config)
BY DEF Set, Fresh

(* load_v2 succeeds on both layouts and leaves the new one behind. *)
LEMMA LoadOld ==
  ASSUME NEW n \in Counts
  PROVE  /\ Loads(Old(n)) /\ Loaded(Old(n)) = New(n, FALSE)
         /\ DecodesV1(Old(n)) /\ Old(n)["Config"] = ConfigV1(n)
<1>1. /\ DecodesV1(Old(n)) /\ Old(n)["Config"] = ConfigV1(n) /\ IsOld(Old(n))
      /\ Old(n)["Config"].count = n
  BY DEF Old, Fresh, ConfigV1, DecodesV1, Decodes, IsOld, SchemaVersion
<1>2. Set(Old(n), "Config", ConfigV2(n, FALSE)) = Fresh(1, ConfigV2(n, FALSE))
  BY SetConfig DEF Old
<1>3. Set(Fresh(1, ConfigV2(n, FALSE)), "SchemaVersion", 2) = New(n, FALSE)
  BY SetSchema DEF New
<1> QED BY <1>1, <1>2, <1>3 DEF Loads, Loaded

(* load_v2 finds the new layout as it left it, and v1 cannot decode it. *)
LEMMA LoadNew ==
  ASSUME NEW n \in Counts, NEW flag \in BOOLEAN
  PROVE  /\ Loads(New(n, flag)) /\ Loaded(New(n, flag)) = New(n, flag)
         /\ ~DecodesV1(New(n, flag))
         /\ New(n, flag)["Config"] = ConfigV2(n, flag)
<1>1. /\ New(n, flag)["Config"] = ConfigV2(n, flag)
      /\ DOMAIN ConfigV2(n, flag) = {"count", "paused"}
      /\ "Config" \in DOMAIN New(n, flag)
  BY DEF New, Fresh, ConfigV2
<1>2. ~IsOld(New(n, flag))
  BY DEF New, Fresh, IsOld, SchemaVersion
<1> QED BY <1>1, <1>2 DEF Loads, Loaded, DecodesV1, DecodesV2, Decodes

(* Both layouts keep the administrator. *)
LEMMA AdminKept ==
  ASSUME IInv
  PROVE  "Admin" \in DOMAIN storage /\ storage["Admin"] = Admin
BY DEF IInv, IsOldLayout, IsNewLayout, Old, New, Fresh, ConstructUnsafe

(* The answers of the abstract counter. *)
LEMMA AnswerTyped ==
  ASSUME NEW call \in Abstract!Calls, NEW by \in Addresses, NEW n \in Counts, NEW flag \in BOOLEAN
  PROVE  Answer(call, by, n, flag) \in Abstract!Answers
BY DEF Answer, Abstract!Answers, Abstract!Counts, Counts

(* The mapping on the three kinds of storage. *)
LEMMA MapOld ==
  ASSUME NEW n \in Counts
  PROVE  CountIn(Old(n)) = n /\ PausedIn(Old(n)) = FALSE
<1>1. "Config" \in DOMAIN Old(n) /\ Old(n)["Config"] = ConfigV1(n)
  BY DEF Old, Fresh
<1>2. ConfigV1(n).count = n /\ "paused" \notin DOMAIN ConfigV1(n)
  BY DEF ConfigV1
<1> QED BY <1>1, <1>2 DEF CountIn, PausedIn

(* What the new layout stands for in the abstract counter. *)
LEMMA MapNew ==
  ASSUME NEW n \in Counts, NEW flag \in BOOLEAN
  PROVE  CountIn(New(n, flag)) = n /\ PausedIn(New(n, flag)) = flag
<1>1. "Config" \in DOMAIN New(n, flag) /\ New(n, flag)["Config"] = ConfigV2(n, flag)
  BY DEF New, Fresh
<1>2. /\ ConfigV2(n, flag).count = n /\ ConfigV2(n, flag).paused = flag
      /\ "paused" \in DOMAIN ConfigV2(n, flag)
  BY DEF ConfigV2
<1> QED BY <1>1, <1>2 DEF CountIn, PausedIn

(* What the unsafe build constructs stands for the initial counter. *)
LEMMA MapUnsafe == CountIn(ConstructUnsafe) = 0 /\ PausedIn(ConstructUnsafe) = FALSE
BY DEF CountIn, PausedIn, ConstructUnsafe

(* Whatever the layout, the abstract counter is within its width. *)
LEMMA MapTyped ==
  ASSUME IInv
  PROVE  CountIn(storage) \in Counts /\ PausedIn(storage) \in BOOLEAN
<1>0. 0 \in Counts
  BY CounterAssumption DEF Counts
<1>1. CASE IsOldLayout
  BY <1>1, MapOld DEF IsOldLayout
<1>2. CASE IsNewLayout
  BY <1>2, MapNew DEF IsNewLayout
<1>3. CASE storage = ConstructUnsafe
  BY <1>3, <1>0, MapUnsafe
<1> QED BY <1>1, <1>2, <1>3 DEF IInv

(* Whatever load_v2 reads, it returns the counter and the flag that the     *)
(* storage stands for, in the new layout.                                   *)
LEMMA LoadEither ==
  ASSUME IInv, code = "v2"
  PROVE  LET n == CountIn(storage) flag == PausedIn(storage)
         IN  /\ Loads(storage) /\ Loaded(storage) = New(n, flag)
             /\ Loaded(storage)["Config"] = ConfigV2(n, flag)
<1>1. IsOldLayout \/ IsNewLayout
  BY DEF IInv
<1>2. CASE IsOldLayout
  <2>1. PICK n \in Counts : storage = Old(n)
    BY <1>2 DEF IsOldLayout
  <2>2. New(n, FALSE)["Config"] = ConfigV2(n, FALSE)
    BY LoadNew
  <2> QED BY <2>1, <2>2, LoadOld, MapOld
<1>3. CASE IsNewLayout
  <2>1. PICK n \in Counts, flag \in BOOLEAN : storage = New(n, flag)
    BY <1>3 DEF IsNewLayout
  <2> QED BY <2>1, LoadNew, MapNew
<1> QED BY <1>1, <1>2, <1>3

(* The first build decodes the old layout only. *)
LEMMA LoadV1 ==
  ASSUME IInv, code = "v1", DecodesV1(storage)
  PROVE  /\ CountIn(storage) \in Counts /\ storage = Old(CountIn(storage))
         /\ storage["Config"] = ConfigV1(CountIn(storage)) /\ PausedIn(storage) = FALSE
<1>1. IsOldLayout
  BY LoadNew DEF IInv, IsNewLayout
<1>2. PICK n \in Counts : storage = Old(n)
  BY <1>1 DEF IsOldLayout
<1> QED BY <1>2, LoadOld, MapOld

----------------------------------------------------------------------------
(* How steps change the storage, as far as the invariant goes.              *)

LEMMA SameStorage ==
  ASSUME IInv, UNCHANGED <<code, storage, rolled_back>>, answer' \in Abstract!Answers
  PROVE  IInv'
BY DEF IInv, IsOldLayout, IsNewLayout, ConstructUnsafe

(* A call that writes the old layout keeps the invariant. *)
LEMMA OldStorage ==
  ASSUME IInv, NEW n \in Counts, storage' = Old(n),
         UNCHANGED <<code, rolled_back>>, answer' \in Abstract!Answers
  PROVE  IInv'
BY DEF IInv, IsOldLayout, IsNewLayout

(* A call of v2 that writes the new layout keeps the invariant. *)
LEMMA NewStorage ==
  ASSUME IInv, code = "v2", NEW n \in Counts, NEW flag \in BOOLEAN, storage' = New(n, flag),
         UNCHANGED <<code, rolled_back>>, answer' \in Abstract!Answers
  PROVE  IInv'
BY DEF IInv, IsOldLayout, IsNewLayout

----------------------------------------------------------------------------
(* One lemma per action: it keeps the invariant and is a step of the        *)
(* abstract counter.                                                        *)

CanReturn(call, by, n, flag) ==
  call \in Abstract!Calls /\ by \in Addresses /\ n \in Counts /\ flag \in BOOLEAN
(* A call that returns gives one of its own answers. *)
LEMMA ReturnTyped ==
  ASSUME NEW call, NEW by, NEW n, NEW flag,
         CanReturn(call, by, n, flag), answer' = Answer(call, by, n, flag)
  PROVE  answer' \in Abstract!Answers
BY AnswerTyped DEF CanReturn

(* The reading entrypoints, one action each. *)
LEMMA ReadStep ==
  ASSUME IInv, NEW by \in Addresses, CountV1(by) \/ CountV2(by) \/ PausedV2(by)
  PROVE  IInv' /\ Abstract!Read(by)
<1> DEFINE n == CountIn(storage)
           flag == PausedIn(storage)
<1>0. /\ n \in Counts /\ flag \in BOOLEAN /\ 0 \in Counts
      /\ {"count", "paused"} \subseteq Abstract!Calls
  BY MapTyped, CounterAssumption DEF Counts, Abstract!Calls
<1>1. CASE CountV1(by)
  <2>1. n = storage["Config"].count
    BY <1>1, LoadV1 DEF CountV1, ConfigV1
  <2>2. /\ answer' = Answer("count", by, n, FALSE)
        /\ UNCHANGED <<code, storage, rolled_back>>
    BY <1>1, <2>1 DEF CountV1, Return
  <2>3. IInv'
    BY <1>0, <2>2, ReturnTyped, SameStorage DEF CanReturn
  <2> QED BY <2>2, <2>3 DEF Abstract!Read, Abstract!Answer, Answer, CountIn
<1>2. CASE CountV2(by)
  <2>1. code = "v2" /\ storage' = New(n, flag) /\ Loaded(storage)["Config"].count = n
    BY <1>2, LoadEither DEF CountV2, ConfigV2
  <2>2. answer' = Answer("count", by, n, FALSE) /\ UNCHANGED <<code, rolled_back>>
    BY <1>2, <2>1 DEF CountV2, Return
  <2>3. IInv'
    BY <1>0, <2>1, <2>2, ReturnTyped, NewStorage DEF CanReturn
  <2>4. CountIn(storage') = n /\ PausedIn(storage') = flag
    BY <1>0, <2>1, MapNew
  <2> QED BY <2>2, <2>3, <2>4 DEF Abstract!Read, Abstract!Answer, Answer, CountIn, PausedIn
<1>3. CASE PausedV2(by)
  <2>1. code = "v2" /\ storage' = New(n, flag) /\ Loaded(storage)["Config"].paused = flag
    BY <1>3, LoadEither DEF PausedV2, ConfigV2
  <2>2. answer' = Answer("paused", by, 0, flag) /\ UNCHANGED <<code, rolled_back>>
    BY <1>3, <2>1 DEF PausedV2, Return
  <2>3. IInv'
    BY <1>0, <2>1, <2>2, ReturnTyped, NewStorage DEF CanReturn
  <2>4. CountIn(storage') = n /\ PausedIn(storage') = flag
    BY <1>0, <2>1, MapNew
  <2> QED BY <2>2, <2>3, <2>4 DEF Abstract!Read, Abstract!Answer, Answer, CountIn, PausedIn
<1> QED BY <1>1, <1>2, <1>3

(* increment counts up in either layout. *)
LEMMA IncrementStep ==
  ASSUME IInv, NEW by \in Addresses, IncrementV1(by) \/ IncrementV2(by)
  PROVE  IInv' /\ Abstract!Increment(by)
<1> DEFINE n == CountIn(storage)
           flag == PausedIn(storage)
<1>0. n \in Counts /\ flag \in BOOLEAN /\ "increment" \in Abstract!Calls
  BY MapTyped DEF Abstract!Calls
<1>1. CASE IncrementV1(by)
  <2>1. storage = Old(n) /\ storage["Config"].count = n /\ flag = FALSE
    BY <1>1, LoadV1 DEF IncrementV1, ConfigV1
  <2>2. n < MaxCount /\ n + 1 \in Counts
    BY <1>0, <1>1, <2>1, CounterAssumption DEF IncrementV1, CanIncrement, Counts
  <2>3. storage' = Old(n + 1)
    BY <1>1, <2>1, SetConfig DEF IncrementV1, Old
  <2>4. answer' = Answer("increment", by, n + 1, FALSE) /\ UNCHANGED <<code, rolled_back>>
    BY <1>1, <2>1 DEF IncrementV1, Return
  <2>5. IInv'
    BY <1>0, <2>2, <2>3, <2>4, ReturnTyped, OldStorage DEF CanReturn
  <2>6. CountIn(storage') = n + 1 /\ PausedIn(storage') = FALSE
    BY <2>2, <2>3, MapOld
  <2> QED BY <2>1, <2>2, <2>4, <2>5, <2>6
          DEF Abstract!Increment, Abstract!Answer, Answer, CountIn, PausedIn
<1>2. CASE IncrementV2(by)
  <2>1. /\ code = "v2" /\ Loaded(storage) = New(n, flag)
        /\ Loaded(storage)["Config"] = ConfigV2(n, flag)
        /\ Loaded(storage)["Config"].count = n /\ Loaded(storage)["Config"].paused = flag
    BY <1>2, LoadEither DEF IncrementV2, ConfigV2
  <2>2. flag = FALSE /\ n < MaxCount /\ n + 1 \in Counts
    BY <1>0, <1>2, <2>1, CounterAssumption DEF IncrementV2, CanIncrement, Counts
  <2>3. storage' = New(n + 1, flag)
    BY <1>2, <2>1, SetConfig DEF IncrementV2, New
  <2>4. answer' = Answer("increment", by, n + 1, FALSE) /\ UNCHANGED <<code, rolled_back>>
    BY <1>2, <2>1 DEF IncrementV2, Return
  <2>5. IInv'
    BY <1>0, <2>1, <2>2, <2>3, <2>4, ReturnTyped, NewStorage DEF CanReturn
  <2>6. CountIn(storage') = n + 1 /\ PausedIn(storage') = flag
    BY <1>0, <2>2, <2>3, MapNew
  <2> QED BY <2>2, <2>4, <2>5, <2>6
          DEF Abstract!Increment, Abstract!Answer, Answer, CountIn, PausedIn
<1> QED BY <1>1, <1>2

(* Only the administrator pauses, and nothing else changes. *)
LEMMA SetPausedStep ==
  ASSUME IInv, NEW caller \in Addresses, NEW operator \in Addresses, NEW flag \in BOOLEAN,
         SetPausedV2(caller, operator, flag)
  PROVE  IInv' /\ Abstract!SetPaused(flag)
<1> DEFINE n == CountIn(storage)
<1>0. n \in Counts /\ 0 \in Counts /\ "set_paused" \in Abstract!Calls
  BY MapTyped, CounterAssumption DEF Abstract!Calls, Counts
<1>1. caller = Admin
  BY AdminKept DEF SetPausedV2, Authorized
<1>2. /\ code = "v2" /\ Loaded(storage) = New(n, PausedIn(storage))
      /\ Loaded(storage)["Config"].count = n
  BY LoadEither DEF SetPausedV2, ConfigV2
<1>3. storage' = New(n, flag)
  BY <1>2, SetConfig DEF SetPausedV2, New
<1>4. answer' = Answer("set_paused", Admin, 0, flag) /\ UNCHANGED <<code, rolled_back>>
  BY <1>1 DEF SetPausedV2, Return
<1>5. IInv'
  BY <1>0, <1>1, <1>2, <1>3, <1>4, ReturnTyped, NewStorage DEF CanReturn
<1>6. CountIn(storage') = n /\ PausedIn(storage') = flag
  BY <1>0, <1>3, MapNew
<1> QED BY <1>4, <1>5, <1>6 DEF Abstract!SetPaused, Abstract!Answer, Answer, CountIn, PausedIn

(* The migration changes the layout and not the counter. *)
LEMMA MigrateStep ==
  ASSUME IInv, NEW caller \in Addresses, NEW operator \in Addresses, MigrateV2(caller, operator)
  PROVE  IInv' /\ Abstract!Manage
<1> DEFINE n == CountIn(storage)
           flag == PausedIn(storage)
<1>0. /\ n \in Counts /\ flag \in BOOLEAN /\ 0 \in Counts
      /\ "migrate" \in Abstract!Calls /\ "migrate" \in Abstract!Managing
  BY MapTyped, CounterAssumption DEF Abstract!Calls, Abstract!Managing, Counts
<1>1. caller = Admin
  BY AdminKept DEF MigrateV2, Authorized
<1>2. code = "v2" /\ storage' = New(n, flag)
  BY LoadEither DEF MigrateV2
<1>3. answer' = Answer("migrate", Admin, 0, FALSE) /\ UNCHANGED <<code, rolled_back>>
  BY <1>1 DEF MigrateV2, Return
<1>4. IInv'
  BY <1>0, <1>1, <1>2, <1>3, ReturnTyped, NewStorage DEF CanReturn
<1>5. CountIn(storage') = n /\ PausedIn(storage') = flag
  BY <1>0, <1>2, MapNew
<1> QED BY <1>0, <1>3, <1>4, <1>5 DEF Abstract!Manage, Abstract!Answer, Answer, CountIn, PausedIn

(* A replacement leaves the storage alone; only a rollback brings the first *)
(* build to the new layout.                                                 *)
LEMMA UpgradeStep ==
  ASSUME IInv, NEW caller \in Addresses, NEW operator \in Addresses, NEW new \in Codes,
         Upgrade(caller, operator, new)
  PROVE  IInv' /\ Abstract!Manage
<1>0. /\ 0 \in Counts /\ "upgrade" \in Abstract!Calls /\ "upgrade" \in Abstract!Managing
  BY CounterAssumption DEF Abstract!Calls, Abstract!Managing, Counts
<1>1. caller = Admin
  BY AdminKept DEF Upgrade, Authorized
<1>2. answer' = Answer("upgrade", Admin, 0, FALSE) /\ UNCHANGED storage
  BY <1>1 DEF Upgrade
<1>3. answer' \in Abstract!Answers
  BY <1>0, <1>1, <1>2, ReturnTyped DEF CanReturn
<1>4. IInv'
  BY <1>2, <1>3 DEF IInv, Upgrade, IsOldLayout, IsNewLayout, Codes
<1> QED BY <1>0, <1>2, <1>4 DEF Abstract!Manage, Abstract!Answer, Answer

(* The unsafe build answers 0 whatever the storage, which it leaves alone:  *)
(* the value of the counter where the build was deployed afresh.            *)
LEMMA UnsafeStep ==
  ASSUME IInv, NEW by \in Addresses, CountUnsafe(by)
  PROVE  IInv' /\ UNCHANGED storage /\ (~Misplaced => Abstract!Read(by))
<1>1. /\ 0 \in Counts /\ "count" \in Abstract!Calls
      /\ code = "unsafe" /\ UNCHANGED <<code, storage, rolled_back>>
  BY CounterAssumption DEF Counts, Abstract!Calls, CountUnsafe, Return
<1>2. "Count" \in DOMAIN storage => storage["Count"] = 0
  BY DEF IInv, IsOldLayout, IsNewLayout, Old, New, Fresh, ConstructUnsafe
<1>3. answer' = Answer("count", by, 0, FALSE)
  BY <1>2 DEF CountUnsafe, Return
<1>4. IInv'
  BY <1>1, <1>3, ReturnTyped, SameStorage DEF CanReturn
<1>5. ASSUME ~Misplaced PROVE Abstract!Read(by)
  <2>1. CountIn(storage) = 0
    BY <1>1, <1>5 DEF Misplaced, CountIn
  <2> QED BY <1>1, <1>3, <2>1 DEF Abstract!Read, Abstract!Answer, Answer, CountIn
<1> QED BY <1>1, <1>4, <1>5

(* A call that traps changes nothing. *)
LEMMA TrapStep ==
  ASSUME IInv, NEW by \in Addresses, Trap(by)
  PROVE  IInv' /\ Abstract!Trap(by)
<1>1. answer' \in Abstract!Answers
  <2>1. "trap" \in Abstract!Calls /\ 0 \in Counts
    BY CounterAssumption DEF Abstract!Calls, Counts
  <2> QED BY <2>1, ReturnTyped DEF CanReturn, Trap
<1> QED BY <1>1, SameStorage DEF Trap, Abstract!Trap, Abstract!Answer, Answer

----------------------------------------------------------------------------
\* A step of the counter, or one of the unsafe build over storage of others.
Counting == IF Misplaced THEN UNCHANGED storage ELSE Abstract!Next

(* Where the unsafe build is misplaced no other build can act. *)
LEMMA MisplacedStays ==
  ASSUME IInv, Misplaced, [Next]_vars
  PROVE  UNCHANGED storage
BY DEF Misplaced, Next, vars, CountV1, IncrementV1, CountV2, PausedV2, IncrementV2, CountUnsafe,
       Trap, MigrateV2, SetPausedV2, Upgrade

(* Every step keeps the invariant and is a step of the counter. *)
LEMMA NextStep ==
  ASSUME IInv, [Next]_vars
  PROVE  IInv' /\ [Counting]_(Abstract!vars)
<1> USE MisplacedStays DEF Counting
<1>1. ASSUME NEW by \in Addresses, CountV1(by) \/ CountV2(by) \/ PausedV2(by)
      PROVE  IInv' /\ Abstract!Next
  BY <1>1, ReadStep DEF Abstract!Next
<1>2. ASSUME NEW by \in Addresses, IncrementV1(by) \/ IncrementV2(by)
      PROVE  IInv' /\ Abstract!Next
  BY <1>2, IncrementStep DEF Abstract!Next
<1>3. ASSUME NEW by \in Addresses, Trap(by)
      PROVE  IInv' /\ Abstract!Next
  BY <1>3, TrapStep DEF Abstract!Next
<1>4. ASSUME NEW caller \in Addresses, NEW operator \in Addresses, MigrateV2(caller, operator)
      PROVE  IInv' /\ Abstract!Next
  BY <1>4, MigrateStep DEF Abstract!Next
<1>5. ASSUME NEW caller \in Addresses, NEW operator \in Addresses, NEW flag \in BOOLEAN,
             SetPausedV2(caller, operator, flag)
      PROVE  IInv' /\ Abstract!Next
  BY <1>5, SetPausedStep DEF Abstract!Next
<1>6. ASSUME NEW caller \in Addresses, NEW operator \in Addresses, NEW new \in Codes,
             Upgrade(caller, operator, new)
      PROVE  IInv' /\ Abstract!Next
  BY <1>6, UpgradeStep DEF Abstract!Next
<1>7. ASSUME NEW by \in Addresses, CountUnsafe(by)
      PROVE  IInv' /\ (~Misplaced => Abstract!Next)
  BY <1>7, UnsafeStep DEF Abstract!Next
<1>8. ASSUME UNCHANGED vars
      PROVE  IInv' /\ UNCHANGED Abstract!vars
  <2>1. UNCHANGED <<code, storage, answer, rolled_back>>
    BY <1>8 DEF vars
  <2>2. IInv'
    BY <2>1, SameStorage DEF IInv
  <2> QED BY <2>1, <2>2 DEF Abstract!vars
<1> QED BY <1>1, <1>2, <1>3, <1>4, <1>5, <1>6, <1>7, <1>8 DEF Next

(* A fresh contract is a fresh counter. *)
LEMMA InitStep ==
  ASSUME Init
  PROVE  IInv /\ Abstract!Init
<1>1. 0 \in Counts /\ "none" \in Abstract!Calls /\ Admin \in Addresses
  BY CounterAssumption DEF Counts, Abstract!Calls
<1>2. answer \in Abstract!Answers
  BY <1>1, AnswerTyped DEF Init, Abstract!Silence, Abstract!Answer, Answer
<1>3. \/ code = "v1" /\ storage = Old(0)
      \/ code = "v2" /\ storage = New(0, FALSE)
      \/ code = "unsafe" /\ storage = ConstructUnsafe
  BY DEF Init, ConstructV1, ConstructV2, Old, New
<1>4. IInv
  BY <1>1, <1>2, <1>3 DEF IInv, Init, Codes, IsOldLayout, IsNewLayout
<1>5. CountIn(storage) = 0 /\ PausedIn(storage) = FALSE
  BY <1>1, <1>3, MapOld, MapNew, MapUnsafe
<1> QED BY <1>4, <1>5 DEF Init, Abstract!Init, CountIn, PausedIn

(* Every reachable state has one of the two layouts, and v1 meets the new   *)
(* one only after a rollback.                                               *)
THEOREM LayoutInvariant == Spec => []IInv
<1>1. Init => IInv
  BY InitStep
<1>2. IInv /\ [Next]_vars => IInv'
  BY NextStep
<1> QED BY <1>1, <1>2, PTL DEF Spec

(* Lazy and eager migration, replacement, rollback and traps are invisible: *)
(* the examples implement the abstract counter, for every width, save for   *)
(* the answers of the unsafe build where it replaced another (count).       *)
THEOREM CountingIsKept == Spec => KeepsCounting
<1>1. Init => Abstract!Init
  BY InitStep
<1>2. IInv /\ [Next]_vars =>
        [IF Misplaced THEN UNCHANGED storage ELSE Abstract!Next]_(Abstract!vars)
  BY NextStep DEF Counting
<1> QED BY <1>1, <1>2, LayoutInvariant, PTL DEF Spec, KeepsCounting

(* Types of the contract instance. *)
THEOREM TypeCorrect == Spec => []TypeOK
<1>1. IInv => TypeOK
  <2> SUFFICES ASSUME IInv PROVE TypeOK
    OBVIOUS
  <2>1. storage \in [Admin : {Admin}, Config : Configs, SchemaVersion : {1, 2}]
          \/ storage = ConstructUnsafe
    <3>1. CASE IsOldLayout
      BY <3>1 DEF IsOldLayout, Old, Fresh, Configs, Counts, Abstract!Counts
    <3>2. CASE IsNewLayout
      BY <3>2 DEF IsNewLayout, New, Fresh, Configs, Counts, Abstract!Counts
    <3> QED BY <3>1, <3>2 DEF IInv
  <2> QED BY <2>1 DEF IInv, TypeOK
<1> QED BY <1>1, LayoutInvariant, PTL

(* v2 always meets storage it can load, v1 unless v2 was there before it.   *)
THEOREM ReadersAlwaysFit == Spec => []ReadersFitStorage
<1>1. IInv => ReadersFitStorage
  <2> SUFFICES ASSUME IInv PROVE ReadersFitStorage
    OBVIOUS
  <2>1. code = "v2" => Loads(storage)
    BY LoadEither
  <2>2. code = "v1" /\ ~rolled_back => DecodesV1(storage)
    BY LoadOld DEF IInv, IsOldLayout
  <2> QED BY <2>1, <2>2 DEF ReadersFitStorage
<1> QED BY <1>1, LayoutInvariant, PTL

(* While v1 or v2 is installed the administrator can replace it.            *)
THEOREM AdminAlwaysInControl == Spec => []AdminKeepsControl
<1>1. IInv => AdminKeepsControl
  BY AdminKept DEF AdminKeepsControl, UpgradeNeeds, Authorized
<1> QED BY <1>1, LayoutInvariant, PTL
=============================================================================
