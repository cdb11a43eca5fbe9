------------------------- MODULE PublicImpactProofs -------------------------
(***************************************************************************)
(* The public-impact search for every reference graph, every pair of        *)
(* artifacts and every choice of the limits.                                *)
(***************************************************************************)
EXTENDS PublicImpact, FiniteSetTheorems, TLAPS

----------------------------------------------------------------------------
(* Induction on the naturals, as a fact about sets.                         *)

(* A set of naturals that is not empty has a least element. *)
LEMMA LeastNat ==
  ASSUME NEW T, T \subseteq Nat, T # {}
  PROVE  \E x \in T : \A y \in T : x <= y
<1> DEFINE R == OpToRel(<, Nat)
<1>1. IsWellFoundedOn(R, Nat)
  BY NatLessThanWellFounded
<1>2. R = {ss \in Nat \X Nat : ss[1] < ss[2]}
  BY DEF OpToRel
<1>3. \A x, y \in Nat : <<y, x>> \in R <=> y < x
  BY <1>2
<1> HIDE DEF R
<1>4. PICK x \in T : \A y \in T : ~(<<y, x>> \in R)
  BY <1>1, WFMin, Zenon
<1>5. \A y \in T : ~(y < x)
  BY <1>3, <1>4, Zenon
<1>6. \A y \in T : x \in Nat /\ y \in Nat
  OBVIOUS
<1> QED BY <1>5, <1>6

(* Induction up to n for the naturals of a set. *)
LEMMA UpTo ==
  ASSUME NEW n \in Nat, NEW Good, 0 \in Good,
         \A m \in 1 .. n : m - 1 \in Good => m \in Good
  PROVE  \A m \in 0 .. n : m \in Good
<1> DEFINE bad == {m \in 0 .. n : m \notin Good}
<1>1. ASSUME bad # {} PROVE FALSE
  <2>1. bad \subseteq Nat
    OBVIOUS
  <2> HIDE DEF bad
  <2>2. PICK x \in bad : \A y \in bad : x <= y
    BY <1>1, <2>1, LeastNat
  <2> USE DEF bad
  <2>3. x \in 1 .. n /\ x - 1 \in 0 .. n
    BY <2>2
  <2>4. x - 1 \in Good
    BY <2>2, <2>3
  <2> QED BY <2>3, <2>4, <2>2
<1> QED BY <1>1

----------------------------------------------------------------------------
(* The references of a type.                                                *)

\* What Edges recurs on.
IsEdges(owned, edges, n) ==
  edges = [m \in 0 .. n |->
             IF m = 0 THEN <<>>
             ELSE IF References[m] \in owned THEN <<References[m]>> \o edges[m - 1]
             ELSE edges[m - 1]]

(* The recursion has a solution. *)
LEMMA EdgesExist ==
  ASSUME NEW owned, NEW n \in Nat
  PROVE  \E edges : IsEdges(owned, edges, n)
<1> DEFINE Good == {m \in Nat : \E edges : IsEdges(owned, edges, m)}
<1>1. 0 \in Good
  <2>1. IsEdges(owned, [m \in 0 .. 0 |-> <<>>], 0)
    BY DEF IsEdges
  <2> QED BY <2>1
<1>2. ASSUME NEW m \in 1 .. n, m - 1 \in Good PROVE m \in Good
  <2>1. PICK edges : IsEdges(owned, edges, m - 1)
    BY <1>2
  <2> DEFINE more == [l \in 0 .. m |->
                        IF l = m
                        THEN IF References[m] \in owned
                             THEN <<References[m]>> \o edges[m - 1]
                             ELSE edges[m - 1]
                        ELSE edges[l]]
  <2>2. \A l \in 0 .. m - 1 : more[l] = edges[l]
    OBVIOUS
  <2>3. ASSUME NEW l \in 0 .. m
        PROVE  more[l] = IF l = 0 THEN <<>>
                         ELSE IF References[l] \in owned
                              THEN <<References[l]>> \o more[l - 1]
                              ELSE more[l - 1]
    <3>1. CASE l = m
      <4>1. more[l - 1] = edges[m - 1] /\ l # 0
        BY <2>2, <3>1
      <4>2. more[l] = IF References[m] \in owned
                      THEN <<References[m]>> \o edges[m - 1] ELSE edges[m - 1]
        BY <3>1
      <4> QED BY <3>1, <4>1, <4>2
    <3>2. CASE l \in 0 .. m - 1
      <4>1. edges[l] = IF l = 0 THEN <<>>
                       ELSE IF References[l] \in owned
                            THEN <<References[l]>> \o edges[l - 1]
                            ELSE edges[l - 1]
        BY <2>1, <3>2 DEF IsEdges
      <4>2. more[l] = edges[l] /\ (l # 0 => more[l - 1] = edges[l - 1])
        BY <2>2, <3>2
      <4> QED BY <4>1, <4>2
    <3> QED BY <3>1, <3>2
  <2>4. more = [l \in 0 .. m |-> more[l]]
    OBVIOUS
  <2> HIDE DEF more
  <2>5. IsEdges(owned, more, m)
    BY <2>3, <2>4 DEF IsEdges
  <2> QED BY <2>5
<1> HIDE DEF Good
<1>3. n \in Good
  BY <1>1, <1>2, UpTo
<1> QED BY <1>3 DEF Good

\* The references that type t of artifact a owns.
Owned(a, t) == IF t \in DOMAIN a.types THEN a.types[t].refs ELSE {}

(* Edges is computed reference by reference. *)
LEMMA EdgesRecur ==
  ASSUME NEW a, NEW t
  PROVE  \E edges :
           /\ Edges(a, t) = edges[Len(References)] /\ edges[0] = <<>>
           /\ \A m \in 1 .. Len(References) :
                edges[m] = IF References[m] \in Owned(a, t)
                           THEN <<References[m]>> \o edges[m - 1] ELSE edges[m - 1]
<1> DEFINE N == Len(References)
           owned == Owned(a, t)
           edges == CHOOSE edges : IsEdges(owned, edges, N)
<1>1. N \in Nat
  BY PublicImpactAssumption
<1>2. Edges(a, t) = edges[N]
  BY DEF Edges, IsEdges, Owned
<1>3. IsEdges(owned, edges, N)
  BY <1>1, EdgesExist
<1> HIDE DEF edges, N
<1>4. /\ edges[0] = <<>>
      /\ \A m \in 1 .. N :
           edges[m] = IF References[m] \in owned THEN <<References[m]>> \o edges[m - 1]
                      ELSE edges[m - 1]
  <2> DEFINE body(m) == IF m = 0 THEN <<>>
                        ELSE IF References[m] \in owned
                             THEN <<References[m]>> \o edges[m - 1]
                             ELSE edges[m - 1]
  <2>1. edges = [m \in 0 .. N |-> body(m)]
    BY <1>3 DEF IsEdges
  <2> HIDE DEF body, owned
  <2>2. \A m \in 0 .. N : edges[m] = body(m)
    BY <2>1
  <2>3. 0 \in 0 .. N /\ \A m \in 1 .. N : m \in 0 .. N /\ m # 0
    BY <1>1
  <2> QED BY <2>2, <2>3 DEF body
<1> QED BY <1>2, <1>4 DEF N

(* The edges of a type are its references, all of them. *)
LEMMA EdgesOf ==
  ASSUME NEW a, NEW t
  PROVE  /\ Edges(a, t) \in Seq(ToSet(References) \cap Owned(a, t))
         /\ \A r \in ToSet(References) \cap Owned(a, t) :
              \E k \in DOMAIN Edges(a, t) : Edges(a, t)[k] = r
<1> DEFINE N == Len(References)
           owned == Owned(a, t)
           R == ToSet(References) \cap owned
<1>1. /\ N \in Nat /\ DOMAIN References = 1 .. N
      /\ \A i \in 1 .. N : References[i] \in ToSet(References)
  BY PublicImpactAssumption
<1>2. PICK edges :
        /\ Edges(a, t) = edges[N] /\ edges[0] = <<>>
        /\ \A m \in 1 .. N :
             edges[m] = IF References[m] \in owned THEN <<References[m]>> \o edges[m - 1]
                        ELSE edges[m - 1]
  BY EdgesRecur
<1> HIDE DEF N
<1>4. /\ edges[0] = <<>>
      /\ \A m \in 1 .. N :
           edges[m] = IF References[m] \in owned THEN <<References[m]>> \o edges[m - 1]
                      ELSE edges[m - 1]
  BY <1>2
<1> HIDE DEF owned
<1> DEFINE Has(s, r) == \E k \in DOMAIN s : s[k] = r
           Good == {m \in 0 .. N : /\ edges[m] \in Seq(R)
                                   /\ \A i \in 1 .. m :
                                        References[i] \in owned => Has(edges[m], References[i])}
<1>5. 0 \in Good
  <2>1. 0 \in 0 .. N /\ edges[0] \in Seq(R)
    BY <1>1, <1>4
  <2> QED BY <2>1
<1>6. ASSUME NEW m \in 1 .. N, m - 1 \in Good PROVE m \in Good
  <2>1. /\ edges[m - 1] \in Seq(R)
        /\ \A i \in 1 .. m - 1 : References[i] \in owned => Has(edges[m - 1], References[i])
    BY <1>6
  <2>2. CASE References[m] \notin owned
    <3>1. edges[m] = edges[m - 1]
      BY <1>4, <2>2
    <3>2. 1 .. m = (1 .. m - 1) \cup {m}
      BY <1>1
    <3> QED BY <1>1, <2>1, <2>2, <3>1, <3>2
  <2>3. CASE References[m] \in owned
    <3> DEFINE r == References[m]
               old == edges[m - 1]
    <3>1. edges[m] = <<r>> \o old /\ r \in R
      BY <1>1, <1>4, <2>3
    <3> HIDE DEF r, old
    <3>2. old \in Seq(R)
      BY <2>1 DEF old
    <3>3. /\ edges[m] \in Seq(R) /\ Len(edges[m]) = Len(old) + 1
          /\ edges[m][1] = r /\ \A k \in 1 .. Len(old) : edges[m][k + 1] = old[k]
      BY <3>1, <3>2
    <3>4. Has(edges[m], r)
      BY <3>3
    <3>5. ASSUME NEW i \in 1 .. m - 1, References[i] \in owned
          PROVE  Has(edges[m], References[i])
      <4>1. PICK k \in DOMAIN old : old[k] = References[i]
        BY <2>1, <3>5 DEF old
      <4>2. k + 1 \in DOMAIN edges[m] /\ edges[m][k + 1] = References[i]
        BY <3>2, <3>3, <4>1
      <4> QED BY <4>2
    <3> HIDE DEF Has
    <3>6. \A i \in 1 .. m : References[i] \in owned => Has(edges[m], References[i])
      <4>1. 1 .. m = (1 .. m - 1) \cup {m}
        BY <1>1
      <4> QED BY <3>4, <3>5, <4>1 DEF r
    <3> QED BY <1>1, <3>3, <3>6
  <2> QED BY <2>2, <2>3
<1> HIDE DEF Good
<1>7. N \in Good
  BY <1>1, <1>5, <1>6, UpTo
<1> USE DEF Good
<1>8. edges[N] \in Seq(R)
  BY <1>7
<1>9. ASSUME NEW r \in R PROVE Has(edges[N], r)
  <2>1. PICK i \in 1 .. N : r = References[i]
    BY <1>1 DEF ToSet
  <2> QED BY <1>7, <2>1
<1> QED BY <1>2, <1>8, <1>9 DEF owned

\* The order of the references.
Earlier(e, f) ==
  \E m, n \in DOMAIN References : m < n /\ References[m] = e /\ References[n] = f

(* The edges of a type come in the opposite order: what is pushed last, and *)
(* popped first, is the earliest reference. *)
LEMMA EdgesDescend ==
  ASSUME NEW a, NEW t, NEW k \in DOMAIN Edges(a, t), NEW l \in DOMAIN Edges(a, t), k < l
  PROVE  Earlier(Edges(a, t)[l], Edges(a, t)[k])
<1> DEFINE N == Len(References)
           owned == Owned(a, t)
           R == ToSet(References)
<1>1. /\ N \in Nat /\ DOMAIN References = 1 .. N
      /\ \A i \in 1 .. N : References[i] \in R
  BY PublicImpactAssumption
<1>2. PICK edges :
        /\ Edges(a, t) = edges[N] /\ edges[0] = <<>>
        /\ \A m \in 1 .. N :
             edges[m] = IF References[m] \in owned THEN <<References[m]>> \o edges[m - 1]
                        ELSE edges[m - 1]
  BY EdgesRecur
<1> HIDE DEF N, owned, R
<1> DEFINE Descends(s, m) ==
             /\ \A x \in DOMAIN s : \E i \in 1 .. m : References[i] = s[x]
             /\ \A x, y \in DOMAIN s : x < y =>
                  \E i, j \in 1 .. m : i < j /\ References[i] = s[y] /\ References[j] = s[x]
           Good == {m \in 0 .. N : edges[m] \in Seq(R) /\ Descends(edges[m], m)}
<1>3. 0 \in Good
  <2>1. 0 \in 0 .. N /\ edges[0] \in Seq(R) /\ DOMAIN edges[0] = {}
    BY <1>1, <1>2
  <2> QED BY <2>1
<1>4. ASSUME NEW m \in 1 .. N, m - 1 \in Good PROVE m \in Good
  <2>1. edges[m - 1] \in Seq(R) /\ Descends(edges[m - 1], m - 1)
    BY <1>4
  <2>2. m \in Nat \ {0} /\ m \in 0 .. N /\ 1 .. m - 1 \subseteq 1 .. m
    BY <1>1
  <2>3. CASE References[m] \notin owned
    <3>1. edges[m] = edges[m - 1]
      BY <1>2, <2>3
    <3>2. Descends(edges[m - 1], m)
      BY <2>1, <2>2
    <3>3. edges[m] \in Seq(R) /\ m \in 0 .. N
      BY <2>1, <2>2, <3>1
    <3> HIDE DEF Descends
    <3> QED BY <3>1, <3>2, <3>3
  <2>4. CASE References[m] \in owned
    <3> DEFINE old == edges[m - 1]
               new == <<References[m]>> \o old
    <3>1. edges[m] = new
      BY <1>2, <2>4
    <3>2. References[m] \in R /\ old \in Seq(R) /\ Descends(old, m - 1)
      BY <1>1, <2>1
    <3> HIDE DEF old, Descends
    <3>3. /\ new \in Seq(R) /\ Len(old) \in Nat /\ DOMAIN old = 1 .. Len(old)
          /\ DOMAIN new = 1 .. Len(old) + 1
          /\ new[1] = References[m] /\ \A x \in 1 .. Len(old) : new[x + 1] = old[x]
      BY <3>2
    <3>4. \A x \in DOMAIN new \ {1} : x - 1 \in DOMAIN old /\ new[x] = old[x - 1]
      BY <3>3
    <3> HIDE DEF new
    <3> USE DEF Descends
    <3>5. ASSUME NEW x \in DOMAIN new PROVE \E i \in 1 .. m : References[i] = new[x]
      <4>1. CASE x = 1
        BY <2>2, <3>3, <4>1
      <4>2. CASE x # 1
        <5>1. PICK i \in 1 .. m - 1 : References[i] = old[x - 1]
          BY <3>2, <3>4, <4>2
        <5> QED BY <2>2, <3>4, <4>2, <5>1
      <4> QED BY <4>1, <4>2
    <3>6. ASSUME NEW x \in DOMAIN new, NEW y \in DOMAIN new, x < y
          PROVE  \E i, j \in 1 .. m :
                   i < j /\ References[i] = new[y] /\ References[j] = new[x]
      <4>1. x \in Nat /\ y \in Nat /\ y # 1 /\ x >= 1
        BY <3>3, <3>6
      <4>2. CASE x = 1
        <5>1. PICK i \in 1 .. m - 1 : References[i] = old[y - 1]
          BY <3>2, <3>4, <4>1
        <5>2. i < m /\ i \in 1 .. m /\ m \in 1 .. m
          BY <2>2
        <5>3. References[i] = new[y] /\ References[m] = new[x]
          BY <3>3, <3>4, <4>1, <4>2, <5>1
        <5> QED BY <5>2, <5>3
      <4>3. CASE x # 1
        <5>1. /\ x - 1 \in DOMAIN old /\ y - 1 \in DOMAIN old /\ x - 1 < y - 1
              /\ new[x] = old[x - 1] /\ new[y] = old[y - 1]
          BY <3>4, <3>6, <4>1, <4>3
        <5>2. PICK i, j \in 1 .. m - 1 :
                i < j /\ References[i] = old[y - 1] /\ References[j] = old[x - 1]
          BY <3>2, <5>1
        <5>3. i \in 1 .. m /\ j \in 1 .. m
          BY <2>2
        <5> QED BY <5>1, <5>2, <5>3
      <4> QED BY <4>2, <4>3
    <3>7. Descends(new, m)
      BY <3>5, <3>6
    <3> HIDE DEF Descends
    <3> QED BY <2>2, <3>1, <3>3, <3>7
  <2> QED BY <2>3, <2>4
<1> HIDE DEF Good
<1>5. N \in Good
  BY <1>1, <1>3, <1>4, UpTo
<1>6. Descends(edges[N], N)
  BY <1>5 DEF Good
<1>7. PICK i, j \in 1 .. N :
        i < j /\ References[i] = Edges(a, t)[l] /\ References[j] = Edges(a, t)[k]
  BY <1>2, <1>6
<1> QED BY <1>1, <1>7 DEF Earlier

----------------------------------------------------------------------------
(* Types.                                                                   *)

Refs == ToSet(References)
TypeInv ==
  /\ limits \in Limits
  /\ DOMAIN source.types \subseteq Types /\ DOMAIN target.types \subseteq Types
  /\ pc \in {"source", "target"} => pair \in Pairs(source, target)
  /\ TypeOK

(* The artifacts and limits of a trace never change. *)
LEMMA ArtifactsFixed == [Next]_vars => UNCHANGED artifacts
BY DEF Next, Step, Terminated, TracePair, PopLimited, PopRoute, PopCycle, PopType,
       SourceTraced, TargetTraced, Finish, FrameSearch, vars, artifacts

(* Before the first search. *)
LEMMA InitTypes == Init => TypeInv
<1> SUFFICES ASSUME Init PROVE TypeInv
  OBVIOUS
<1>1. DOMAIN source.types \subseteq Types
  BY DEF Init, Artifacts, TypeTables
<1>2. DOMAIN target.types \subseteq Types
  <2>1. PICK S \in SUBSET Types : target \in Artifacts(S, Shapes)
    BY DEF Init
  <2> QED BY <2>1 DEF Artifacts, TypeTables
<1>3. TypeOK
  <2>1. /\ pc = "next" /\ todo = Pairs(source, target) /\ visited_steps = 0
        /\ routes = {} /\ source_routes = {} /\ limited = FALSE /\ limit_exceeded = FALSE
    BY DEF Init
  <2>2. pending \in Seq(Items)
    BY DEF Init
  <2> QED BY <2>1, <2>2 DEF TypeOK
<1> QED BY <1>1, <1>2, <1>3 DEF Init, TypeInv

(* The stack without its top. *)
LEMMA Popped ==
  ASSUME TypeInv, Searching
  PROVE  /\ Current \in Items /\ Len(pending) \in Nat \ {0}
         /\ Current = pending[Len(pending)]
         /\ Front(pending) \in Seq(Items)
         /\ Len(Front(pending)) = Len(pending) - 1
         /\ \A i \in 1 .. Len(pending) - 1 : Front(pending)[i] = pending[i]
<1>1. pending \in Seq(Items) /\ pending # <<>>
  BY DEF TypeInv, TypeOK, Searching
<1>2. Len(pending) \in Nat \ {0} /\ DOMAIN pending = 1 .. Len(pending)
  BY <1>1
<1> QED BY <1>1, <1>2 DEF Current, Last, Front

(* A reference leads from a type to a type. *)
LEMMA RefTypes ==
  ASSUME NEW r \in Refs
  PROVE  r.owner_type \in Types /\ r.target_type \in Types
BY PublicImpactAssumption DEF Refs, ToSet

(* What is pushed: one item per edge. *)
LEMMA PushedItems ==
  ASSUME NEW item \in Items, item.type \in Types, NEW edges \in Seq(Refs)
  PROVE  /\ Pushed(item, edges) \in Seq(Items)
         /\ Len(Pushed(item, edges)) = Len(edges)
         /\ \A i \in 1 .. Len(edges) :
              Pushed(item, edges)[i] =
                Item(edges[i].target_type, Append(item.steps, edges[i]),
                     item.active \cup {item.type})
<1>1. Len(edges) \in Nat /\ DOMAIN edges = 1 .. Len(edges)
  OBVIOUS
<1>2. ASSUME NEW i \in 1 .. Len(edges)
      PROVE  Item(edges[i].target_type, Append(item.steps, edges[i]), Entered(item)) \in Items
  <2>1. edges[i] \in Refs /\ edges[i].target_type \in Types
    BY <1>1, RefTypes
  <2>2. Append(item.steps, edges[i]) \in Seq(Refs)
    BY <2>1 DEF Items, Refs
  <2>3. Entered(item) \in SUBSET Types
    BY DEF Entered, Items
  <2> QED BY <2>1, <2>2, <2>3 DEF Item, Items, Refs
<1> DEFINE pushed(i) == Item(edges[i].target_type, Append(item.steps, edges[i]), Entered(item))
<1>3. Pushed(item, edges) = [i \in 1 .. Len(edges) |-> pushed(i)]
  BY <1>1 DEF Pushed
<1>4. \A i \in 1 .. Len(edges) : pushed(i) \in Items
  BY <1>2
<1> HIDE DEF pushed
<1>5. /\ Pushed(item, edges) \in Seq(Items)
      /\ Len(Pushed(item, edges)) = Len(edges)
      /\ \A i \in 1 .. Len(edges) : Pushed(item, edges)[i] = pushed(i)
  BY <1>1, <1>3, <1>4
<1> QED BY <1>5 DEF pushed, Entered

(* Popping a type pushes an item for as many of its references as there is  *)
(* room for, and for all of them unless it says that it did not. *)
LEMMA TypePopped ==
  ASSUME TypeInv, PopType
  PROVE  \E kept \in Seq(Refs \cap Owned(Searched, Current.type)) :
           /\ pending' = Front(pending) \o Pushed(Current, kept)
           /\ Len(kept) <= Room(Front(pending))
           /\ ~limited' => kept = Edges(Searched, Current.type)
<1> DEFINE edges == Edges(Searched, Current.type)
           room == Room(Front(pending))
           kept == IF Len(edges) <= room THEN edges ELSE SubSeq(edges, 1, room)
           R == Refs \cap Owned(Searched, Current.type)
<1>1. edges \in Seq(R)
  BY EdgesOf DEF Refs
<1>2. room \in Nat
  <2>1. MaxSteps \in Nat /\ visited_steps \in Nat
    BY PublicImpactAssumption DEF TypeInv, TypeOK, MaxSteps
  <2>2. Len(Front(pending)) \in Nat
    BY Popped DEF PopType
  <2> QED BY <2>1, <2>2 DEF Room
<1>3. pending' = Front(pending) \o Pushed(Current, kept) /\ limited' = (Len(edges) > room)
  BY DEF PopType
<1> HIDE DEF edges, room, R
<1>4. kept \in Seq(R) /\ Len(kept) <= room
  BY <1>1, <1>2
<1>5. ~limited' => kept = edges
  <2>1. CASE Len(edges) <= room
    BY <2>1
  <2>2. CASE Len(edges) > room
    BY <1>3, <2>2
  <2> QED BY <1>1, <1>2, <2>1, <2>2
<1> QED BY <1>3, <1>4, <1>5 DEF edges, room, R

(* A search starts with at most the root. *)
LEMMA Started ==
  ASSUME NEW a, DOMAIN a.types \subseteq Types, NEW root, StartSearch(a, root)
  PROVE  /\ pending' \in Seq(Items) /\ Len(pending') <= 1
         /\ visited_steps' = 0 /\ routes' = {} /\ limited' = FALSE
<1>1. CASE root \in DOMAIN a.types
  <2>1. Item(root, <<>>, {}) \in Items
    BY <1>1 DEF Item, Items
  <2>2. pending' = <<Item(root, <<>>, {})>>
    BY <1>1 DEF StartSearch
  <2> HIDE DEF Items
  <2>3. pending' \in Seq(Items) /\ Len(pending') = 1
    BY <2>1, <2>2
  <2> QED BY <2>3 DEF StartSearch
<1>2. CASE root \notin DOMAIN a.types
  <2>1. pending' = <<>>
    BY <1>2 DEF StartSearch
  <2> QED BY <2>1 DEF StartSearch
<1> QED BY <1>1, <1>2

\* The variables of the search that is running have their types.
SearchOK ==
  /\ pending \in Seq(Items)
  /\ visited_steps \in Nat
  /\ routes \subseteq Seq(Refs)
  /\ limited \in BOOLEAN

(* A step of the search keeps the types of its variables. *)
LEMMA SearchTypes ==
  ASSUME TypeInv, PopLimited \/ PopRoute \/ PopCycle \/ PopType
  PROVE  SearchOK'
<1>1. /\ Searching /\ SearchOK /\ visited_steps' = visited_steps + 1
  BY DEF PopLimited, PopRoute, PopCycle, PopType, TypeInv, TypeOK, SearchOK, Refs
<1>2. /\ Current \in Items /\ Front(pending) \in Seq(Items)
  BY <1>1, Popped
<1>3. visited_steps' \in Nat
  BY <1>1 DEF SearchOK
<1>4. CASE PopLimited \/ PopCycle
  <2>1. pending' = Front(pending) /\ routes' = routes /\ limited' \in BOOLEAN
    BY <1>1, <1>4 DEF PopLimited, PopCycle, SearchOK
  <2> QED BY <1>1, <1>2, <1>3, <2>1 DEF SearchOK
<1>5. CASE PopRoute
  <2>1. /\ pending' = Front(pending) /\ limited' = limited
        /\ routes' = routes \cup {Current.steps}
    BY <1>5 DEF PopRoute
  <2>2. Current.steps \in Seq(Refs)
    BY <1>2 DEF Items, Refs
  <2> QED BY <1>1, <1>2, <1>3, <2>1, <2>2 DEF SearchOK
<1>6. CASE PopType
  <2>1. PICK kept \in Seq(Refs \cap Owned(Searched, Current.type)) :
          pending' = Front(pending) \o Pushed(Current, kept)
    BY <1>6, TypePopped
  <2>2. kept \in Seq(Refs) /\ Current.type \in Types
    BY <1>2 DEF Items
  <2>3. Pushed(Current, kept) \in Seq(Items)
    BY <1>2, <2>2, PushedItems
  <2>4. pending' \in Seq(Items)
    BY <1>2, <2>1, <2>3
  <2>5. limited' \in BOOLEAN /\ routes' = routes
    BY <1>6 DEF PopType
  <2> QED BY <1>1, <1>3, <2>4, <2>5 DEF SearchOK
<1> QED BY <1>4, <1>5, <1>6

(* Every step of the trace keeps the types. *)
LEMMA TypesStep == TypeInv /\ [Next]_vars => TypeInv'
<1> SUFFICES ASSUME TypeInv, [Next]_vars PROVE TypeInv'
  OBVIOUS
<1>1. /\ limits' = limits /\ source' = source /\ target' = target
  BY ArtifactsFixed DEF artifacts
<1> SUFFICES /\ pc' \in {"source", "target"} => pair' \in Pairs(source, target)
             /\ pc' \in {"next", "source", "target", "done"}
             /\ todo' \subseteq Pairs(source, target)
             /\ SearchOK'
             /\ limit_exceeded' \in BOOLEAN
             /\ source_routes' \subseteq Seq(Refs)
  BY <1>1 DEF TypeInv, TypeOK, SearchOK, Refs
<1>2. /\ pc \in {"source", "target"} => pair \in Pairs(source, target)
      /\ pc \in {"next", "source", "target", "done"}
      /\ todo \subseteq Pairs(source, target)
      /\ SearchOK
      /\ limit_exceeded \in BOOLEAN
      /\ source_routes \subseteq Seq(Refs)
  BY DEF TypeInv, TypeOK, SearchOK, Refs
<1>3. CASE UNCHANGED vars
  BY <1>2, <1>3 DEF vars, search, report, SearchOK
<1>4. ASSUME NEW p \in todo, TracePair(p)
      PROVE  /\ pc' = "source" /\ pair' = p /\ todo' \subseteq todo /\ SearchOK'
             /\ UNCHANGED <<source_routes, limit_exceeded>>
  <2>1. StartSearch(source, RootType(source, p.boundary))
    BY <1>4 DEF TracePair
  <2>2. SearchOK'
    <3>1. DOMAIN source.types \subseteq Types
      BY DEF TypeInv
    <3>2. /\ pending' \in Seq(Items) /\ visited_steps' = 0 /\ routes' = {} /\ limited' = FALSE
      BY <2>1, <3>1, Started
    <3> QED BY <3>2 DEF SearchOK
  <2> QED BY <1>4, <2>2 DEF TracePair, report
<1>5. CASE PopLimited \/ PopRoute \/ PopCycle \/ PopType
  <2>1. SearchOK'
    BY <1>5, SearchTypes
  <2>2. UNCHANGED <<pc, pair, todo, limit_exceeded, source_routes>>
    BY <1>5 DEF PopLimited, PopRoute, PopCycle, PopType, FrameSearch, report
  <2> QED BY <1>2, <2>1, <2>2
<1>6. CASE SourceTraced
  <2>1. /\ pc = "source" /\ pc' = "target" /\ UNCHANGED <<todo, pair>>
        /\ source_routes' = routes /\ limit_exceeded' = (limit_exceeded \/ limited)
        /\ StartSearch(target, RootType(target, pair.boundary))
    BY <1>6 DEF SourceTraced
  <2>2. SearchOK'
    <3>1. DOMAIN target.types \subseteq Types
      BY DEF TypeInv
    <3>2. /\ pending' \in Seq(Items) /\ visited_steps' = 0 /\ routes' = {} /\ limited' = FALSE
      BY <2>1, <3>1, Started
    <3> QED BY <3>2 DEF SearchOK
  <2> QED BY <1>2, <2>1, <2>2 DEF SearchOK
<1>7. CASE TargetTraced
  <2>1. /\ pc' = "next" /\ UNCHANGED <<todo, pair, search, source_routes>>
        /\ limit_exceeded' = (limit_exceeded \/ limited)
    BY <1>7 DEF TargetTraced, OrLimit
  <2> QED BY <1>2, <2>1 DEF SearchOK, search
<1>8. CASE Finish
  BY <1>2, <1>8 DEF Finish, SearchOK, search, report
<1>9. CASE Terminated
  BY <1>3, <1>9 DEF Terminated
<1> QED BY <1>2, <1>3, <1>4, <1>5, <1>6, <1>7, <1>8, <1>9 DEF Next, Step

(* The variables of the trace keep their types: every search starts from a  *)
(* type of the artifacts and follows references to types (routes_to_type). *)
THEOREM TraceTypeCorrect == Spec => []TypeOK
<1>1. TypeInv => TypeOK
  BY DEF TypeInv
<1> QED BY <1>1, InitTypes, TypesStep, PTL DEF Spec

----------------------------------------------------------------------------
(* The limits.                                                              *)

WorkInv == TypeInv /\ WorkBounded /\ IsFiniteSet(routes)

(* Nothing is counted before the first search. *)
LEMMA InitWork == Init => WorkInv
<1> SUFFICES ASSUME Init PROVE WorkInv
  OBVIOUS
<1>1. TypeInv
  BY InitTypes
<1>2. /\ visited_steps = 0 /\ pending = <<>> /\ routes = {}
  BY DEF Init
<1>3. MaxSteps \in Nat \ {0} /\ MaxDepth \in Nat /\ MaxPaths \in Nat
  BY <1>1, PublicImpactAssumption DEF TypeInv, MaxSteps, MaxDepth, MaxPaths
<1>4. IsFiniteSet(routes) /\ Cardinality(routes) = 0
  BY <1>2, FS_EmptySet
<1> QED BY <1>1, <1>2, <1>3, <1>4 DEF WorkInv, WorkBounded

(* Every step keeps the search within its limits. *)
LEMMA WorkStep == WorkInv /\ [Next]_vars => WorkInv'
<1> SUFFICES ASSUME WorkInv, [Next]_vars PROVE WorkInv'
  OBVIOUS
<1> DEFINE Bounded(v, p, r) ==
             /\ v + Len(p) <= MaxSteps
             /\ Cardinality(r) <= MaxPaths /\ IsFiniteSet(r)
             /\ \A steps \in r : Len(steps) <= MaxDepth
<1>1. TypeInv /\ TypeInv' /\ limits' = limits
  BY TypesStep, ArtifactsFixed DEF WorkInv, artifacts
<1> SUFFICES Bounded(visited_steps', pending', routes')
  BY <1>1 DEF WorkInv, WorkBounded, MaxSteps, MaxDepth, MaxPaths
<1>2. Bounded(visited_steps, pending, routes)
  BY DEF WorkInv, WorkBounded
<1>3. MaxSteps \in Nat \ {0} /\ MaxDepth \in Nat /\ MaxPaths \in Nat \ {0}
  BY <1>1, PublicImpactAssumption DEF TypeInv, MaxSteps, MaxDepth, MaxPaths
<1>4. visited_steps \in Nat /\ pending \in Seq(Items)
  BY <1>1 DEF TypeInv, TypeOK
<1>5. CASE UNCHANGED search
  BY <1>2, <1>5 DEF search
<1>6. ASSUME NEW a, DOMAIN a.types \subseteq Types, NEW root, StartSearch(a, root)
      PROVE  Bounded(visited_steps', pending', routes')
  <2>1. /\ pending' \in Seq(Items) /\ Len(pending') <= 1
        /\ visited_steps' = 0 /\ routes' = {}
    BY <1>6, Started
  <2>2. 0 + Len(pending') <= MaxSteps
    BY <1>3, <2>1
  <2>3. IsFiniteSet(routes') /\ Cardinality(routes') = 0
    BY <2>1, FS_EmptySet
  <2> QED BY <1>3, <2>1, <2>2, <2>3
<1>7. ASSUME Searching
      PROVE  /\ Len(pending) \in Nat \ {0} /\ Front(pending) \in Seq(Items)
             /\ Len(Front(pending)) = Len(pending) - 1 /\ Current \in Items
  BY <1>1, <1>7, Popped
<1>8. CASE PopLimited \/ PopCycle
  <2>1. /\ Searching /\ pending' = Front(pending) /\ visited_steps' = visited_steps + 1
        /\ routes' = routes
    BY <1>8 DEF PopLimited, PopCycle
  <2>2. visited_steps' + Len(pending') = visited_steps + Len(pending)
    BY <1>4, <1>7, <2>1
  <2> QED BY <1>2, <2>1, <2>2
<1>9. CASE PopRoute
  <2>1. /\ Searching /\ pending' = Front(pending) /\ visited_steps' = visited_steps + 1
        /\ routes' = routes \cup {Current.steps}
        /\ Len(Current.steps) <= MaxDepth \/ Len(Current.steps) \notin Nat
        /\ ~(Cardinality(routes) >= MaxPaths)
    BY <1>3, <1>9 DEF PopRoute, LimitHit
  <2>2. visited_steps' + Len(pending') = visited_steps + Len(pending)
    BY <1>4, <1>7, <2>1
  <2>3. Len(Current.steps) \in Nat
    BY <1>7, <2>1 DEF Items
  <2>4. Cardinality(routes) \in Nat
    BY <1>2, FS_CardinalityType
  <2>5. IsFiniteSet(routes') /\ Cardinality(routes') <= Cardinality(routes) + 1
    <3>1. IsFiniteSet(routes)
      BY <1>2
    <3>2. /\ IsFiniteSet(routes \cup {Current.steps})
          /\ Cardinality(routes \cup {Current.steps}) =
               IF Current.steps \in routes THEN Cardinality(routes) ELSE Cardinality(routes) + 1
      BY <3>1, FS_AddElement, Zenon
    <3> HIDE DEF Bounded
    <3> QED BY <2>1, <2>4, <3>2
  <2>6. Cardinality(routes') \in Nat
    BY <2>5, FS_CardinalityType
  <2>7. Cardinality(routes') <= MaxPaths
    BY <1>3, <2>1, <2>4, <2>5, <2>6
  <2> QED BY <1>2, <2>1, <2>2, <2>3, <2>5, <2>7
<1>10. CASE PopType
  <2>1. Searching /\ visited_steps' = visited_steps + 1 /\ routes' = routes
    BY <1>10 DEF PopType
  <2>2. PICK kept \in Seq(Refs \cap Owned(Searched, Current.type)) :
          /\ pending' = Front(pending) \o Pushed(Current, kept)
          /\ Len(kept) <= Room(Front(pending))
    BY <1>1, <1>10, TypePopped
  <2>3. /\ Pushed(Current, kept) \in Seq(Items) /\ Len(Pushed(Current, kept)) = Len(kept)
    <3>1. kept \in Seq(Refs) /\ Current.type \in Types
      BY <1>7, <2>1 DEF Items
    <3> QED BY <1>7, <2>1, <3>1, PushedItems
  <2> HIDE DEF Bounded
  <2>4. Len(pending') = Len(pending) - 1 + Len(kept) /\ Len(kept) \in Nat
    BY <1>7, <2>1, <2>2, <2>3
  <2> DEFINE used == Len(pending) - 1 + visited_steps + 1
  <2>5. Len(kept) <= IF used >= MaxSteps THEN 0 ELSE MaxSteps - used
    BY <1>7, <2>1, <2>2 DEF Room
  <2>6. visited_steps + Len(pending) <= MaxSteps
    BY <1>2 DEF Bounded
  <2>7. visited_steps' + Len(pending') <= MaxSteps
    BY <1>3, <1>4, <1>7, <2>1, <2>4, <2>5, <2>6
  <2> QED BY <1>2, <2>1, <2>7 DEF Bounded
<1> HIDE DEF Bounded
<1>11. DOMAIN source.types \subseteq Types /\ DOMAIN target.types \subseteq Types
  BY <1>1 DEF TypeInv
<1>12. ASSUME NEW p \in todo, TracePair(p) PROVE Bounded(visited_steps', pending', routes')
  BY <1>6, <1>11, <1>12 DEF TracePair
<1>13. CASE SourceTraced
  BY <1>6, <1>11, <1>13 DEF SourceTraced
<1>14. CASE TargetTraced \/ Finish \/ Terminated \/ UNCHANGED vars
  BY <1>5, <1>14 DEF TargetTraced, Finish, Terminated, vars, search
<1> QED BY <1>8, <1>9, <1>10, <1>12, <1>13, <1>14 DEF Next, Step

(* However the types fan out, a search never holds more than its step limit *)
(* in popped and queued items, nor more or longer routes than its limits    *)
(* allow: the check before each push and after each pop is enough           *)
(* (routes_to_type). *)
THEOREM SearchBounded == Spec => []WorkBounded
<1>1. WorkInv => WorkBounded
  BY DEF WorkInv
<1> QED BY <1>1, InitWork, WorkStep, PTL DEF Spec

----------------------------------------------------------------------------
(* Walks.                                                                   *)

\* A type owns its references.
WellOwned(a) ==
  /\ DOMAIN a.types \subseteq Types
  /\ \A t \in DOMAIN a.types : a.types[t].refs \subseteq OwnRefs(t)
Owners(w) == {w[i].owner_type : i \in DOMAIN w}

(* A walk leaves each type once, so it is no longer than there are types. *)
LEMMA WalkIsShort ==
  ASSUME NEW a, NEW root, NEW goal, NEW w \in Seq(Refs), IsWalk(a, root, goal, w)
  PROVE  w \in Walks(a, root, goal)
<1> DEFINE n == Len(w)
           leaves == [i \in 1 .. n |-> w[i].owner_type]
<1>1. n \in Nat /\ DOMAIN w = 1 .. n /\ w \in [1 .. n -> Refs]
  OBVIOUS
<1>2. \A i \in 1 .. n : w[i].owner_type \in Types
  BY <1>1, RefTypes
<1>3. ASSUME NEW i \in 1 .. n, NEW j \in 1 .. n, w[i].owner_type = w[j].owner_type
      PROVE  i = j
  <2>1. ~(j \in 1 .. i - 1)
    BY <1>1, <1>3 DEF IsWalk
  <2>2. ~(i \in 1 .. j - 1)
    BY <1>1, <1>3 DEF IsWalk
  <2> QED BY <1>1, <2>1, <2>2
<1>4. leaves \in Injection(1 .. n, Types)
  BY <1>2, <1>3 DEF Injection, IsInjective
<1>5. Cardinality(1 .. n) <= Cardinality(Types)
  BY <1>4, FS_Injection, PublicImpactAssumption
<1>6. Cardinality(1 .. n) = n /\ Cardinality(Types) \in Nat
  <2>1. Cardinality(1 .. n) = IF 1 > n THEN 0 ELSE n - 1 + 1
    <3>1. 1 \in Int /\ n \in Int
      BY <1>1
    <3> QED BY <3>1, FS_Interval, Zenon
  <2>2. Cardinality(Types) \in Nat
    BY FS_CardinalityType, PublicImpactAssumption
  <2> QED BY <1>1, <2>1, <2>2
<1>7. n \in 0 .. Cardinality(Types)
  BY <1>1, <1>5, <1>6
<1> QED BY <1>1, <1>7 DEF Walks, Refs

(* The search starts with the walk of no steps. *)
LEMMA EmptyWalk ==
  ASSUME NEW a, NEW root \in DOMAIN a.types, NEW goal
  PROVE  /\ IsWalk(a, root, goal, <<>>) /\ Ends(root, <<>>) = root
         /\ Owners(<<>>) = {}
BY DEF IsWalk, Ends, Owners

(* A walk goes on by a reference of the type it ends in, unless it has been *)
(* there or has arrived. *)
LEMMA WalkGoesOn ==
  ASSUME NEW a, WellOwned(a), NEW root, NEW goal, NEW w \in Seq(Refs),
         IsWalk(a, root, goal, w),
         Ends(root, w) # goal, Ends(root, w) \notin Owners(w),
         NEW e \in Refs \cap Owned(a, Ends(root, w))
  PROVE  /\ IsWalk(a, root, goal, Append(w, e))
         /\ Ends(root, Append(w, e)) = e.target_type
         /\ Owners(Append(w, e)) = Owners(w) \cup {Ends(root, w)}
<1> DEFINE n == Len(w)
           v == Append(w, e)
           last == Ends(root, w)
<1>1. /\ n \in Nat /\ DOMAIN w = 1 .. n /\ DOMAIN v = 1 .. n + 1 /\ Len(v) = n + 1
      /\ v[n + 1] = e /\ \A i \in 1 .. n : v[i] = w[i]
  OBVIOUS
<1>2. /\ last \in DOMAIN a.types /\ e \in a.types[last].refs
      /\ e.owner_type = last
  BY DEF Owned, WellOwned, OwnRefs
<1>3. last = IF n = 0 THEN root ELSE w[n].target_type
  BY <1>1 DEF Ends, Last
<1> HIDE DEF v, last
<1>4. ASSUME NEW i \in 1 .. n + 1
      PROVE  /\ v[i].owner_type \in DOMAIN a.types /\ v[i] \in a.types[v[i].owner_type].refs
             /\ v[i].owner_type = IF i = 1 THEN root ELSE v[i - 1].target_type
             /\ v[i].owner_type # goal
             /\ \A j \in 1 .. i - 1 : v[j].owner_type # v[i].owner_type
  <2>1. CASE i \in 1 .. n
    <3>1. /\ w[i].owner_type \in DOMAIN a.types /\ w[i] \in a.types[w[i].owner_type].refs
          /\ w[i].owner_type = IF i = 1 THEN root ELSE w[i - 1].target_type
          /\ w[i].owner_type # goal
          /\ \A j \in 1 .. i - 1 : w[j].owner_type # w[i].owner_type
      BY <1>1, <2>1 DEF IsWalk
    <3>2. v[i] = w[i] /\ \A j \in 1 .. i - 1 : v[j] = w[j]
      BY <1>1, <2>1
    <3>3. i # 1 => i - 1 \in 1 .. i - 1
      BY <2>1
    <3> QED BY <3>1, <3>2, <3>3
  <2>2. CASE i = n + 1
    <3>1. v[i] = e /\ \A j \in 1 .. i - 1 : v[j] = w[j] /\ j \in DOMAIN w
      BY <1>1, <2>2
    <3>2. last = IF i = 1 THEN root ELSE v[i - 1].target_type
      <4>1. i # 1 => i - 1 = n /\ v[i - 1] = w[n]
        BY <1>1, <2>2
      <4>2. i = 1 <=> n = 0
        BY <1>1, <2>2
      <4> QED BY <1>3, <4>1, <4>2
    <3>3. last # goal /\ last \notin Owners(w)
      BY DEF last
    <3> QED BY <1>2, <3>1, <3>2, <3>3 DEF Owners
  <2> QED BY <1>1, <2>1, <2>2
<1>5. IsWalk(a, root, goal, v)
  BY <1>1, <1>4 DEF IsWalk
<1>6. Ends(root, v) = e.target_type
  BY <1>1 DEF Ends, Last
<1>7. Owners(v) = Owners(w) \cup {last}
  <2>1. ASSUME NEW x \in Owners(v) PROVE x \in Owners(w) \cup {last}
    <3>1. PICK i \in 1 .. n + 1 : x = v[i].owner_type
      BY <1>1 DEF Owners
    <3> QED BY <1>1, <1>2, <3>1 DEF Owners
  <2>2. ASSUME NEW x \in Owners(w) PROVE x \in Owners(v)
    <3>1. PICK i \in 1 .. n : x = w[i].owner_type
      BY <1>1 DEF Owners
    <3>2. i \in DOMAIN v /\ x = v[i].owner_type
      BY <1>1, <3>1
    <3> QED BY <3>2 DEF Owners
  <2>3. last \in Owners(v)
    <3>1. n + 1 \in DOMAIN v /\ v[n + 1].owner_type = last
      BY <1>1, <1>2
    <3> QED BY <3>1 DEF Owners
  <2> QED BY <2>1, <2>2, <2>3
<1> QED BY <1>5, <1>6, <1>7 DEF v, last

----------------------------------------------------------------------------
(* The search.                                                              *)

\* Walk v is the beginning of walk w.
Begins(v, w) == Len(v) <= Len(w) /\ \A i \in 1 .. Len(v) : v[i] = w[i]

\* An item of the stack is a walk, with the type it ends in and those it left.
IsItem(a, root, goal, item) ==
  /\ IsWalk(a, root, goal, item.steps)
  /\ item.type = Ends(root, item.steps)
  /\ item.active = Owners(item.steps)

\* Every route was found or begins with a walk that is still on the stack.
Covered(route, stack, found) ==
  route \in found \/ \E i \in DOMAIN stack : Begins(stack[i].steps, route)

\* A search for the routes of pair p in artifact a.
SearchedTo(a, p, stack, found, cut) ==
  LET root == RootType(a, p.boundary) IN
  /\ \A i \in DOMAIN stack : IsItem(a, root, p.changed, stack[i])
  /\ found \subseteq PairRoutes(a, p)
  /\ ~cut => \A route \in PairRoutes(a, p) : Covered(route, stack, found)

(* A route is a walk that arrives. *)
LEMMA RouteIsWalk ==
  ASSUME NEW a, NEW root, NEW goal, NEW r \in Routes(a, root, goal)
  PROVE  /\ r \in Seq(Refs) /\ IsWalk(a, root, goal, r) /\ Ends(root, r) = goal
<1>1. PICK n \in 0 .. Cardinality(Types) : r \in [1 .. n -> ToSet(References)]
  BY DEF Routes, Walks
<1>2. n \in Nat
  BY FS_CardinalityType, PublicImpactAssumption
<1> QED BY <1>1, <1>2 DEF Routes, Walks, Refs

(* A walk goes on after its beginning w by a reference of where w ends. *)
LEMMA NextReference ==
  ASSUME NEW a, NEW root, NEW goal, NEW r \in Seq(Refs), IsWalk(a, root, goal, r),
         NEW w \in Seq(Refs), Begins(w, r), Len(w) < Len(r)
  PROVE  /\ Ends(root, w) # goal /\ Ends(root, w) \notin Owners(w)
         /\ r[Len(w) + 1] \in Refs \cap Owned(a, Ends(root, w))
         /\ Begins(Append(w, r[Len(w) + 1]), r)
<1> DEFINE n == Len(w)
           e == r[n + 1]
<1>1. /\ n \in Nat /\ n + 1 \in 1 .. Len(r) /\ DOMAIN r = 1 .. Len(r)
      /\ DOMAIN w = 1 .. n /\ \A i \in 1 .. n : w[i] = r[i]
  BY DEF Begins
<1>2. /\ e.owner_type \in DOMAIN a.types /\ e \in a.types[e.owner_type].refs
      /\ e.owner_type = IF n + 1 = 1 THEN root ELSE r[n + 1 - 1].target_type
      /\ e.owner_type # goal
      /\ \A j \in 1 .. n + 1 - 1 : r[j].owner_type # e.owner_type
  BY <1>1 DEF IsWalk
<1>3. Ends(root, w) = IF n = 0 THEN root ELSE w[n].target_type
  BY <1>1 DEF Ends, Last
<1> HIDE DEF e
<1>4. e.owner_type = Ends(root, w)
  BY <1>1, <1>2, <1>3
<1>5. Ends(root, w) \notin Owners(w)
  BY <1>1, <1>2, <1>4 DEF Owners
<1>6. e \in Refs
  BY <1>1 DEF e
<1>7. Begins(Append(w, e), r)
  <2>1. /\ Len(Append(w, e)) = n + 1 /\ Append(w, e)[n + 1] = e
        /\ \A i \in 1 .. n : Append(w, e)[i] = w[i]
    BY <1>1, <1>6
  <2>2. 1 .. n + 1 = (1 .. n) \cup {n + 1}
    BY <1>1
  <2>3. e = r[n + 1] /\ n + 1 <= Len(r)
    BY <1>1 DEF e
  <2> QED BY <1>1, <2>1, <2>2, <2>3 DEF Begins
<1> QED BY <1>2, <1>4, <1>5, <1>6, <1>7 DEF Owned, e

(* A walk that has arrived is the only route that begins with it; one that  *)
(* has not goes on, but not from a type it was at before. *)
LEMMA RouteBegins ==
  ASSUME NEW a, NEW root, NEW goal, NEW r \in Routes(a, root, goal),
         NEW w \in Seq(Refs), Begins(w, r)
  PROVE  /\ Ends(root, w) = goal => r = w
         /\ Ends(root, w) # goal =>
              /\ Ends(root, w) \notin Owners(w)
              /\ \E e \in Refs \cap Owned(a, Ends(root, w)) : Begins(Append(w, e), r)
<1>1. r \in Seq(Refs) /\ IsWalk(a, root, goal, r) /\ Ends(root, r) = goal
  BY RouteIsWalk
<1>2. Len(w) \in Nat /\ Len(r) \in Nat /\ Len(w) <= Len(r)
  BY <1>1 DEF Begins
<1>3. CASE Len(w) = Len(r)
  <2>1. w = r
    BY <1>1, <1>3 DEF Begins
  <2> QED BY <1>1, <2>1
<1>4. CASE Len(w) < Len(r)
  BY <1>1, <1>4, NextReference
<1> QED BY <1>2, <1>3, <1>4

(* A search that starts covers every route by its root. *)
LEMMA SearchStarts ==
  ASSUME NEW a, NEW p, StartSearch(a, RootType(a, p.boundary))
  PROVE  SearchedTo(a, p, pending', routes', limited')
<1> DEFINE root == RootType(a, p.boundary)
<1>1. routes' = {} /\ limited' = FALSE
  BY DEF StartSearch
<1>2. CASE root \in DOMAIN a.types
  <2> DEFINE item == Item(root, <<>>, {})
  <2>1. /\ pending' = <<item>>
        /\ item.type = root /\ item.steps = <<>> /\ item.active = {}
    BY <1>2 DEF StartSearch, Item
  <2>2. IsItem(a, root, p.changed, item)
    BY <1>2, <2>1, EmptyWalk DEF IsItem
  <2> HIDE DEF item, root
  <2>3. DOMAIN pending' = {1} /\ pending'[1] = item
    BY <2>1
  <2>4. \A r \in PairRoutes(a, p) : Begins(item.steps, r)
    <3> SUFFICES ASSUME NEW r \in PairRoutes(a, p) PROVE Begins(<<>>, r)
      BY <2>1
    <3>1. r \in Seq(Refs)
      BY RouteIsWalk DEF PairRoutes
    <3> QED BY <3>1 DEF Begins
  <2> QED BY <1>1, <2>2, <2>3, <2>4 DEF SearchedTo, Covered, root
<1>3. CASE root \notin DOMAIN a.types
  <2>1. pending' = <<>>
    BY <1>3 DEF StartSearch
  <2>2. PairRoutes(a, p) = {}
    BY <1>3, RouteIsWalk DEF PairRoutes, IsWalk
  <2> QED BY <1>1, <2>1, <2>2 DEF SearchedTo
<1> QED BY <1>2, <1>3

(* Popping the top of the stack without its routes leaves the others covered. *)
LEMMA CoveredBelow ==
  ASSUME TypeInv, Searching, NEW r, NEW found, NEW stack,
         Covered(r, pending, routes), routes \subseteq found,
         Len(stack) >= Len(pending) - 1, stack \in Seq(Items),
         \A i \in 1 .. Len(pending) - 1 : stack[i] = pending[i],
         Begins(Current.steps, r) => Covered(r, stack, found)
  PROVE  Covered(r, stack, found)
<1>1. Len(pending) \in Nat \ {0} /\ Current = pending[Len(pending)] /\ pending \in Seq(Items)
  BY Popped DEF TypeInv, TypeOK
<1>2. CASE r \in routes
  BY <1>2 DEF Covered
<1>3. ASSUME NEW i \in DOMAIN pending, Begins(pending[i].steps, r)
      PROVE  Covered(r, stack, found)
  <2>1. CASE i = Len(pending)
    BY <1>1, <1>3, <2>1
  <2>2. CASE i \in 1 .. Len(pending) - 1
    <3>1. i \in DOMAIN stack /\ stack[i] = pending[i]
      BY <1>1, <2>2
    <3> QED BY <1>3, <3>1 DEF Covered
  <2> QED BY <1>1, <2>1, <2>2
<1> QED BY <1>2, <1>3 DEF Covered

(* A step of the search keeps what the search has found and can still find. *)
LEMMA SearchGoesOn ==
  ASSUME TypeInv, WellOwned(Searched), SearchedTo(Searched, pair, pending, routes, limited),
         PopLimited \/ PopRoute \/ PopCycle \/ PopType
  PROVE  SearchedTo(Searched, pair, pending', routes', limited')
<1> DEFINE a == Searched
           root == RootType(a, pair.boundary)
           popped == Front(pending)
<1>1. Searching /\ pending \in Seq(Items)
  BY DEF PopLimited, PopRoute, PopCycle, PopType, TypeInv, TypeOK
<1>2. /\ Current \in Items /\ Current = pending[Len(pending)]
      /\ Len(pending) \in Nat \ {0}
      /\ popped \in Seq(Items) /\ Len(popped) = Len(pending) - 1
      /\ \A i \in 1 .. Len(pending) - 1 : popped[i] = pending[i]
  BY <1>1, Popped
<1>3. /\ IsItem(a, root, Goal, Current)
      /\ \A i \in DOMAIN popped : IsItem(a, root, Goal, popped[i])
  BY <1>1, <1>2 DEF SearchedTo, Goal
<1>4. Current.steps \in Seq(Refs) /\ Current.type \in Types
  BY <1>2 DEF Items, Refs
<1>5. /\ routes \subseteq PairRoutes(a, pair)
      /\ ~limited /\ \A r \in PairRoutes(a, pair) : Covered(r, pending, routes)
  BY <1>1 DEF SearchedTo, Searching
<1> HIDE DEF a, popped
<1>6. CASE PopLimited
  <2>1. pending' = popped /\ routes' = routes /\ limited' = TRUE
    BY <1>6 DEF PopLimited, popped
  <2> QED BY <1>3, <1>5, <2>1 DEF SearchedTo, Goal, a
<1>7. CASE PopRoute
  <2>1. /\ pending' = popped /\ routes' = routes \cup {Current.steps}
        /\ Current.type = Goal
    BY <1>7 DEF PopRoute, popped
  <2>2. IsWalk(a, root, Goal, Current.steps) /\ Ends(root, Current.steps) = Goal
    BY <1>3, <2>1 DEF IsItem
  <2>3. Current.steps \in PairRoutes(a, pair)
    BY <1>4, <2>2, WalkIsShort DEF PairRoutes, Routes, Goal
  <2>4. ASSUME NEW r \in PairRoutes(a, pair) PROVE Covered(r, pending', routes')
    <3>1. Begins(Current.steps, r) => r = Current.steps
      BY <1>4, <2>2, RouteBegins DEF PairRoutes, Goal
    <3>2. Begins(Current.steps, r) => Covered(r, pending', routes')
      BY <2>1, <3>1 DEF Covered
    <3> QED BY <1>1, <1>2, <1>5, <2>1, <3>2, CoveredBelow
  <2> QED BY <1>3, <1>5, <2>1, <2>3, <2>4 DEF SearchedTo, Goal, a
<1>8. CASE PopCycle
  <2>1. /\ pending' = popped /\ routes' = routes /\ limited' = limited
        /\ Current.type # Goal /\ Current.type \in Current.active
    BY <1>8 DEF PopCycle, popped
  <2>2. ASSUME NEW r \in PairRoutes(a, pair) PROVE Covered(r, pending', routes')
    <3>1. ~Begins(Current.steps, r)
      BY <1>3, <1>4, <2>1, RouteBegins DEF PairRoutes, Goal, IsItem
    <3> QED BY <1>1, <1>2, <1>5, <2>1, <3>1, CoveredBelow
  <2> QED BY <1>3, <1>5, <2>1, <2>2 DEF SearchedTo, Goal, a
<1>9. CASE PopType
  <2>1. routes' = routes /\ Current.type # Goal /\ Current.type \notin Current.active
    BY <1>9 DEF PopType
  <2>2. PICK kept \in Seq(Refs \cap Owned(a, Current.type)) :
          /\ pending' = popped \o Pushed(Current, kept)
          /\ ~limited' => kept = Edges(a, Current.type)
    BY <1>9, TypePopped DEF a, popped
  <2> DEFINE pushed == Pushed(Current, kept)
             n == Len(popped)
  <2>3. kept \in Seq(Refs)
    BY <2>2
  <2>4. /\ pushed \in Seq(Items) /\ Len(pushed) = Len(kept)
        /\ \A i \in 1 .. Len(kept) :
             pushed[i] = Item(kept[i].target_type, Append(Current.steps, kept[i]),
                              Current.active \cup {Current.type})
    BY <1>2, <1>4, <2>3, PushedItems
  <2> HIDE DEF pushed
  <2>5. /\ pending' \in Seq(Items) /\ Len(pending') = n + Len(kept)
        /\ n \in Nat /\ Len(kept) \in Nat
        /\ \A i \in 1 .. n : pending'[i] = popped[i]
        /\ \A i \in 1 .. Len(kept) : pending'[n + i] = pushed[i]
    <3>1. pending' = popped \o pushed /\ popped \in Seq(Items) /\ pushed \in Seq(Items)
      BY <1>2, <2>2, <2>4 DEF pushed
    <3>2. Len(pushed) = Len(kept)
      BY <2>4
    <3> HIDE DEF Items
    <3>3. /\ popped \o pushed \in Seq(Items) /\ Len(popped \o pushed) = n + Len(pushed)
          /\ n \in Nat /\ Len(pushed) \in Nat
          /\ \A i \in 1 .. n : (popped \o pushed)[i] = popped[i]
          /\ \A i \in 1 .. Len(pushed) : (popped \o pushed)[n + i] = pushed[i]
      BY <3>1
    <3> QED BY <3>1, <3>2, <3>3
  <2>6. /\ IsWalk(a, root, Goal, Current.steps)
        /\ Ends(root, Current.steps) = Current.type
        /\ Current.active = Owners(Current.steps)
    BY <1>3 DEF IsItem
  <2>7. ASSUME NEW i \in 1 .. Len(kept) PROVE IsItem(a, root, Goal, pushed[i])
    <3>1. kept[i] \in Refs \cap Owned(a, Current.type)
      BY <2>2, <2>7
    <3>2. /\ IsWalk(a, root, Goal, Append(Current.steps, kept[i]))
          /\ Ends(root, Append(Current.steps, kept[i])) = kept[i].target_type
          /\ Owners(Append(Current.steps, kept[i])) = Owners(Current.steps) \cup {Current.type}
      BY <1>4, <2>1, <2>6, <3>1, WalkGoesOn DEF a
    <3>3. /\ pushed[i].type = kept[i].target_type
          /\ pushed[i].steps = Append(Current.steps, kept[i])
          /\ pushed[i].active = Current.active \cup {Current.type}
      <4>1. pushed[i] = Item(kept[i].target_type, Append(Current.steps, kept[i]),
                             Current.active \cup {Current.type})
        BY <2>4, <2>7
      <4> QED BY <4>1 DEF Item
    <3> QED BY <2>6, <3>2, <3>3 DEF IsItem
  <2>8. ASSUME NEW i \in DOMAIN pending' PROVE IsItem(a, root, Goal, pending'[i])
    <3>1. CASE i \in 1 .. n
      BY <1>2, <1>3, <2>5, <3>1
    <3>2. CASE i \in n + 1 .. n + Len(kept)
      <4>1. i - n \in 1 .. Len(kept) /\ pending'[n + (i - n)] = pushed[i - n] /\ n + (i - n) = i
        BY <2>5, <3>2
      <4> QED BY <2>7, <4>1
    <3> QED BY <2>5, <3>1, <3>2
  <2>9. ASSUME ~limited', NEW r \in PairRoutes(a, pair) PROVE Covered(r, pending', routes')
    <3>1. ASSUME Begins(Current.steps, r) PROVE Covered(r, pending', routes')
      <4>1. PICK e \in Refs \cap Owned(a, Current.type) : Begins(Append(Current.steps, e), r)
        BY <1>4, <2>1, <2>6, <3>1, RouteBegins DEF PairRoutes, Goal
      <4>2. PICK k \in DOMAIN kept : kept[k] = e
        BY <2>2, <2>9, <4>1, EdgesOf DEF Refs
      <4>3. k \in 1 .. Len(kept) /\ pushed[k].steps = Append(Current.steps, e)
        <5>1. k \in 1 .. Len(kept)
          BY <2>3, <4>2
        <5>2. pushed[k] = Item(kept[k].target_type, Append(Current.steps, kept[k]),
                               Current.active \cup {Current.type})
          BY <2>4, <5>1
        <5> QED BY <4>2, <5>1, <5>2 DEF Item
      <4>4. n + k \in DOMAIN pending' /\ pending'[n + k] = pushed[k]
        BY <2>5, <4>3
      <4> QED BY <4>1, <4>3, <4>4 DEF Covered
    <3>2. \A i \in 1 .. Len(pending) - 1 : pending'[i] = pending[i]
      BY <1>2, <2>5
    <3>3. Len(pending') >= Len(pending) - 1
      BY <1>2, <2>5
    <3> QED BY <1>1, <1>5, <2>1, <2>5, <3>1, <3>2, <3>3, CoveredBelow
  <2> QED BY <1>5, <2>1, <2>8, <2>9 DEF SearchedTo, Goal, a
<1> QED BY <1>6, <1>7, <1>8, <1>9

----------------------------------------------------------------------------
(* The trace.                                                               *)

ImpactsOf(p) ==
  {Impact(p, steps) : steps \in PairRoutes(source, p) \cap PairRoutes(target, p)}

SearchInv ==
  pc \in {"source", "target"} => SearchedTo(Searched, pair, pending, routes, limited)
SourceInv ==
  pc = "target" =>
    /\ source_routes \subseteq PairRoutes(source, pair)
    /\ ~limit_exceeded => PairRoutes(source, pair) \subseteq source_routes
SoundInv == impacts \subseteq ExpectedImpacts
\* A pair is still to be traced, being traced, or in the report.
CompleteInv ==
  /\ ~limit_exceeded =>
       \A p \in Pairs(source, target) :
         \/ p \in todo
         \/ pc \in {"source", "target"} /\ p = pair
         \/ ImpactsOf(p) \subseteq impacts
  /\ pc = "done" => todo = {}
IInv ==
  /\ TypeInv
  /\ WellOwned(source) /\ WellOwned(target)
  /\ SearchInv /\ SourceInv /\ SoundInv /\ CompleteInv

(* The report is empty and no pair of types is done. *)
LEMMA InitTrace == Init => IInv
<1> SUFFICES ASSUME Init PROVE IInv
  OBVIOUS
<1>1. TypeInv
  BY InitTypes
<1>2. WellOwned(source)
  BY <1>1 DEF Init, Artifacts, TypeTables, WellOwned, TypeInv
<1>3. WellOwned(target)
  <2>1. PICK S \in SUBSET Types : target \in Artifacts(S, Shapes)
    BY DEF Init
  <2> QED BY <1>1, <2>1 DEF Artifacts, TypeTables, WellOwned, TypeInv
<1>4. /\ pc = "next" /\ todo = Pairs(source, target) /\ impacts = {}
  BY DEF Init
<1> QED BY <1>1, <1>2, <1>3, <1>4 DEF IInv, SearchInv, SourceInv, SoundInv, CompleteInv

(* A search that is over has found routes only, and all of them unless a    *)
(* limit stopped it. *)
LEMMA SearchEnds ==
  ASSUME NEW a, NEW p, SearchedTo(a, p, pending, routes, limited), SearchOver
  PROVE  /\ routes \subseteq PairRoutes(a, p)
         /\ ~limited => PairRoutes(a, p) \subseteq routes
<1>1. ASSUME ~limited, NEW r \in PairRoutes(a, p) PROVE r \in routes
  <2>1. DOMAIN pending = {}
    BY <1>1 DEF SearchOver
  <2> QED BY <1>1, <2>1 DEF SearchedTo, Covered
<1> QED BY <1>1 DEF SearchedTo

(* Every step keeps what is said of the search and the report. *)
LEMMA TraceStep == IInv /\ [Next]_vars => IInv'
<1> SUFFICES ASSUME IInv, [Next]_vars PROVE IInv'
  OBVIOUS
<1>1. /\ TypeInv /\ TypeInv' /\ source' = source /\ target' = target
      /\ WellOwned(source) /\ WellOwned(target)
      /\ SearchInv /\ SourceInv /\ SoundInv /\ CompleteInv
  BY TypesStep, ArtifactsFixed DEF IInv, artifacts
<1> SUFFICES SearchInv' /\ SourceInv' /\ SoundInv' /\ CompleteInv'
  BY <1>1 DEF IInv
<1>2. /\ \A p : PairRoutes(source', p) = PairRoutes(source, p)
      /\ \A p : PairRoutes(target', p) = PairRoutes(target, p)
      /\ \A p : ImpactsOf(p)' = ImpactsOf(p)
      /\ Pairs(source', target') = Pairs(source, target)
      /\ ExpectedImpacts' = ExpectedImpacts
  BY <1>1 DEF ImpactsOf, ExpectedImpacts
<1>3. CASE UNCHANGED vars
  <2>1. UNCHANGED <<pc, todo, pair, pending, routes, limited, source_routes, impacts,
                    limit_exceeded>>
    BY <1>3 DEF vars, search, report
  <2>2. Searched' = Searched
    BY <1>1, <2>1 DEF Searched
  <2> QED BY <1>1, <1>2, <2>1, <2>2 DEF SearchInv, SourceInv, SoundInv, CompleteInv
<1>4. ASSUME NEW p \in todo, TracePair(p)
      PROVE  SearchInv' /\ SourceInv' /\ SoundInv' /\ CompleteInv'
  <2>1. /\ pc' = "source" /\ pair' = p /\ todo' = todo \ {p} /\ pc = "next"
        /\ UNCHANGED <<impacts, limit_exceeded>>
        /\ StartSearch(source, RootType(source, p.boundary))
    BY <1>4 DEF TracePair, report
  <2>2. SearchedTo(source, p, pending', routes', limited')
    BY <2>1, SearchStarts
  <2>3. SearchInv'
    BY <1>1, <2>1, <2>2 DEF SearchInv, Searched
  <2> QED BY <1>1, <1>2, <2>1, <2>3 DEF SourceInv, SoundInv, CompleteInv
<1>5. CASE PopLimited \/ PopRoute \/ PopCycle \/ PopType
  <2>1. /\ pc \in {"source", "target"}
        /\ UNCHANGED <<pc, todo, pair, source_routes, impacts, limit_exceeded>>
    BY <1>5 DEF PopLimited, PopRoute, PopCycle, PopType, FrameSearch, Searching, report
  <2>2. Searched' = Searched /\ WellOwned(Searched)
    BY <1>1, <2>1 DEF Searched
  <2>3. SearchedTo(Searched, pair, pending', routes', limited')
    BY <1>1, <1>5, <2>1, <2>2, SearchGoesOn DEF SearchInv
  <2>4. SearchInv'
    BY <2>1, <2>2, <2>3 DEF SearchInv
  <2> QED BY <1>1, <1>2, <2>1, <2>4 DEF SourceInv, SoundInv, CompleteInv
<1>6. CASE SourceTraced
  <2>1. /\ pc = "source" /\ pc' = "target" /\ SearchOver /\ source_routes' = routes
        /\ limit_exceeded' = (limit_exceeded \/ limited)
        /\ UNCHANGED <<todo, pair, impacts>>
        /\ StartSearch(target, RootType(target, pair.boundary))
    BY <1>6 DEF SourceTraced
  <2>2. SearchInv'
    <3>1. SearchedTo(target, pair, pending', routes', limited')
      BY <2>1, SearchStarts
    <3> QED BY <1>1, <2>1, <3>1 DEF SearchInv, Searched
  <2>3. /\ routes \subseteq PairRoutes(source, pair)
        /\ ~limited => PairRoutes(source, pair) \subseteq routes
    BY <1>1, <2>1, SearchEnds DEF SearchInv, Searched
  <2>4. SourceInv'
    BY <1>2, <2>1, <2>3 DEF SourceInv
  <2> QED BY <1>1, <1>2, <2>1, <2>2, <2>4 DEF SoundInv, CompleteInv
<1>7. CASE TargetTraced
  <2>1. /\ pc = "target" /\ pc' = "next" /\ SearchOver
        /\ impacts' = impacts \cup {Impact(pair, steps) : steps \in CommonRoutes}
        /\ limit_exceeded' = (limit_exceeded \/ limited)
        /\ UNCHANGED <<todo, pair>>
    BY <1>7 DEF TargetTraced, OrLimit
  <2>2. /\ routes \subseteq PairRoutes(target, pair)
        /\ ~limited => PairRoutes(target, pair) \subseteq routes
    BY <1>1, <2>1, SearchEnds DEF SearchInv, Searched
  <2>3. /\ source_routes \subseteq PairRoutes(source, pair)
        /\ ~limit_exceeded => PairRoutes(source, pair) \subseteq source_routes
    BY <1>1, <2>1 DEF SourceInv
  <2>4. /\ CommonRoutes \subseteq PairRoutes(source, pair) \cap PairRoutes(target, pair)
        /\ ~limit_exceeded' =>
             PairRoutes(source, pair) \cap PairRoutes(target, pair) \subseteq CommonRoutes
    BY <2>1, <2>2, <2>3 DEF CommonRoutes
  <2>5. pair \in Pairs(source, target)
    BY <1>1, <2>1 DEF TypeInv
  <2>6. /\ {Impact(pair, steps) : steps \in CommonRoutes} \subseteq ImpactsOf(pair)
        /\ ~limit_exceeded' =>
             ImpactsOf(pair) \subseteq {Impact(pair, steps) : steps \in CommonRoutes}
    BY <2>4 DEF ImpactsOf
  <2>7. ImpactsOf(pair) \subseteq ExpectedImpacts
    BY <2>5 DEF ImpactsOf, ExpectedImpacts
  <2>8. SoundInv'
    BY <1>1, <1>2, <2>1, <2>6, <2>7 DEF SoundInv
  <2>9. CompleteInv'
    BY <1>1, <1>2, <2>1, <2>6 DEF CompleteInv
  <2> QED BY <2>1, <2>8, <2>9 DEF SearchInv, SourceInv
<1>8. CASE Finish
  <2>1. /\ pc = "next" /\ todo = {} /\ pc' = "done"
        /\ UNCHANGED <<todo, pair, impacts, limit_exceeded>>
    BY <1>8 DEF Finish, report
  <2> QED BY <1>1, <1>2, <2>1 DEF SearchInv, SourceInv, SoundInv, CompleteInv
<1>9. CASE Terminated
  BY <1>3, <1>9 DEF Terminated
<1> QED BY <1>3, <1>4, <1>5, <1>6, <1>7, <1>8, <1>9 DEF Next, Step

(* At every moment of the trace the search and the report are as described. *)
LEMMA AlwaysTraced == Spec => []IInv
BY InitTrace, TraceStep, PTL DEF Spec

(* Whatever the graph and wherever a limit cuts a search short, a reported  *)
(* impact is a chain without a repeated type in both artifacts, from an     *)
(* unchanged function to a changed type (trace_public_impacts). *)
THEOREM ImpactsAreReal == Spec => []ImpactsSound
<1>1. IInv => ImpactsSound
  BY DEF IInv, SoundInv, ImpactsSound
<1> QED BY <1>1, AlwaysTraced, PTL

(* A report without RES001 holds every such chain: cutting recursion short  *)
(* at a repeated type loses no route (trace_public_impacts). *)
THEOREM NothingMissedSilently == Spec => []NoImpactMissedSilently
<1>1. IInv => NoImpactMissedSilently
  <2> SUFFICES ASSUME IInv, pc = "done", ~limit_exceeded PROVE ExpectedImpacts \subseteq impacts
    BY DEF NoImpactMissedSilently
  <2>1. \A p \in Pairs(source, target) : ImpactsOf(p) \subseteq impacts
    BY DEF IInv, CompleteInv
  <2> QED BY <2>1 DEF ExpectedImpacts, ImpactsOf
<1> QED BY <1>1, AlwaysTraced, PTL

----------------------------------------------------------------------------
(* What a limit says of the graph.                                          *)

\* Every walk that a search may push.
WalksOf(a, p) == Walks(a, RootType(a, p.boundary), p.changed)
\* Walks in the order in which the search pops them.
Precedes(v, w) ==
  \E i \in DOMAIN v \cap DOMAIN w : (\A j \in 1 .. i - 1 : v[j] = w[j]) /\ Earlier(v[i], w[i])

Justified(a, p) ==
  \/ \E w \in WalksOf(a, p) : Len(w) > MaxDepth
  \/ Cardinality(WalksOf(a, p)) > MaxSteps
  \/ \E w \in WalksOf(a, p) :
       Cardinality({r \in PairRoutes(a, p) : Before(r, w)}) >= MaxPaths

\* The walks seen by a search, pushed or popped, and those popped; the stack
\* and the routes are in the order of the walks.
Progress(a, p, popped, stack, found, seen, done) ==
  /\ seen \subseteq WalksOf(a, p) /\ IsFiniteSet(seen) /\ done \subseteq seen
  /\ Cardinality(seen) = popped + Len(stack)
  /\ \A w \in seen : w # <<>> => Front(w) \in done
  /\ \A i \in DOMAIN stack : stack[i].steps \in seen \ done
  /\ \A i, j \in DOMAIN stack : i < j => Precedes(stack[j].steps, stack[i].steps)
  /\ \A r \in found, i \in DOMAIN stack : Precedes(r, stack[i].steps)
LimitMeans(a, p, popped, stack, found, cut) ==
  /\ cut => Justified(a, p)
  /\ ~cut => \E seen, done : Progress(a, p, popped, stack, found, seen, done)

(* Walks are sequences of references, and there are finitely many. *)
LEMMA WalksFinite ==
  ASSUME NEW a, NEW p
  PROVE  IsFiniteSet(WalksOf(a, p)) /\ WalksOf(a, p) \subseteq Seq(Refs)
<1> DEFINE c == Cardinality(Types)
           W == WalksOf(a, p)
           Pairing == [w \in W |-> {<<i, w[i]>> : i \in DOMAIN w}]
           Cells == (1 .. c) \X Refs
<1>1. c \in Nat
  BY FS_CardinalityType, PublicImpactAssumption
<1>2. ASSUME NEW w \in W PROVE \E n \in 0 .. c : w \in [1 .. n -> Refs]
  BY DEF WalksOf, Walks, Refs
<1>3. IsFiniteSet(Cells)
  <2>1. IsFiniteSet(1 .. c)
    <3>1. 1 \in Int /\ c \in Int
      BY <1>1
    <3> QED BY <3>1, FS_Interval, Zenon
  <2>2. IsFiniteSet(Refs)
    <3> DEFINE N == Len(References)
    <3>1. References \in Surjection(1 .. N, Refs)
      BY PublicImpactAssumption DEF Surjection, Refs, ToSet
    <3>2. IsFiniteSet(1 .. N)
      <4>1. 1 \in Int /\ N \in Int
        BY PublicImpactAssumption
      <4> QED BY <4>1, FS_Interval, Zenon
    <3> QED BY <3>1, <3>2, FS_Surjection
  <2> QED BY <2>1, <2>2, FS_Product
<1>4. IsFiniteSet(SUBSET Cells)
  BY <1>3, FS_SUBSET
<1>5. Pairing \in [W -> SUBSET Cells]
  <2> SUFFICES ASSUME NEW w \in W, NEW i \in DOMAIN w PROVE <<i, w[i]>> \in Cells
    OBVIOUS
  <2>1. PICK n \in 0 .. c : w \in [1 .. n -> Refs]
    BY <1>2
  <2> QED BY <1>1, <2>1
<1>6. ASSUME NEW v \in W, NEW w \in W, Pairing[v] = Pairing[w] PROVE v = w
  <2>1. PICK m \in 0 .. c : v \in [1 .. m -> Refs]
    BY <1>2
  <2>2. PICK n \in 0 .. c : w \in [1 .. n -> Refs]
    BY <1>2
  <2>3. {<<i, v[i]>> : i \in DOMAIN v} = {<<i, w[i]>> : i \in DOMAIN w}
    BY <1>6
  <2>4. ASSUME NEW i \in DOMAIN v PROVE i \in DOMAIN w /\ v[i] = w[i]
    <3>1. <<i, v[i]>> \in {<<k, w[k]>> : k \in DOMAIN w}
      BY <2>3
    <3> QED BY <3>1
  <2>5. ASSUME NEW i \in DOMAIN w PROVE i \in DOMAIN v
    <3>1. <<i, w[i]>> \in {<<k, v[k]>> : k \in DOMAIN v}
      BY <2>3
    <3> QED BY <3>1
  <2>6. DOMAIN v = DOMAIN w
    BY <2>4, <2>5
  <2> QED BY <2>1, <2>2, <2>4, <2>6
<1>7. Pairing \in Injection(W, SUBSET Cells)
  BY <1>5, <1>6 DEF Injection, IsInjective
<1>8. IsFiniteSet(W)
  BY <1>4, <1>7, FS_Injection
<1>9. ASSUME NEW w \in W PROVE w \in Seq(Refs)
  <2>1. PICK n \in 0 .. c : w \in [1 .. n -> Refs]
    BY <1>2
  <2>2. n \in Nat
    BY <1>1
  <2> QED BY <2>1, <2>2
<1> QED BY <1>8, <1>9

(* A finite sequence without repetition has as many elements as places. *)
LEMMA Counted ==
  ASSUME NEW S, NEW s \in Seq(S), \A i, j \in DOMAIN s : s[i] = s[j] => i = j
  PROVE  IsFiniteSet({s[i] : i \in DOMAIN s}) /\ Cardinality({s[i] : i \in DOMAIN s}) = Len(s)
<1> DEFINE n == Len(s)
           T == {s[i] : i \in DOMAIN s}
<1>1. n \in Nat /\ DOMAIN s = 1 .. n
  OBVIOUS
<1>2. IsFiniteSet(1 .. n) /\ Cardinality(1 .. n) = n
  <2>1. 1 \in Int /\ n \in Int
    BY <1>1
  <2>2. IsFiniteSet(1 .. n) /\ Cardinality(1 .. n) = IF 1 > n THEN 0 ELSE n - 1 + 1
    BY <2>1, FS_Interval, Zenon
  <2> QED BY <1>1, <2>2
<1>3. s \in [1 .. n -> T] /\ \A t \in T : \E i \in 1 .. n : s[i] = t
  BY <1>1
<1>4. s \in Surjection(1 .. n, T)
  BY <1>3 DEF Surjection
<1>5. s \in Injection(1 .. n, T)
  BY <1>1, <1>3 DEF Injection, IsInjective
<1> HIDE DEF T, n
<1>6. IsFiniteSet(T) /\ Cardinality(T) = Cardinality(1 .. n)
  BY <1>2, <1>4, <1>5, FS_Surjection
<1> QED BY <1>2, <1>6 DEF T, n

(* Sets without a common element add up. *)
LEMMA CountedTogether ==
  ASSUME NEW S, NEW T, IsFiniteSet(S), IsFiniteSet(T), S \cap T = {}
  PROVE  IsFiniteSet(S \cup T) /\ Cardinality(S \cup T) = Cardinality(S) + Cardinality(T)
<1>1. /\ IsFiniteSet(S \cup T)
      /\ Cardinality(S \cup T) = Cardinality(S) + Cardinality(T) - Cardinality(S \cap T)
  BY FS_Union, Zenon
<1>2. Cardinality(S \cap T) = 0
  BY FS_EmptySet
<1>3. Cardinality(S) \in Nat /\ Cardinality(T) \in Nat
  BY FS_CardinalityType
<1> QED BY <1>1, <1>2, <1>3

(* References have one place each. *)
LEMMA EarlierIrreflexive == \A e : ~Earlier(e, e)
<1> SUFFICES ASSUME NEW m \in DOMAIN References, NEW n \in DOMAIN References, m < n,
                    References[m] = References[n]
             PROVE  FALSE
  BY DEF Earlier
<1>1. m = n /\ m \in Nat
  BY PublicImpactAssumption
<1> QED BY <1>1

(* No walk precedes itself. *)
LEMMA PrecedesIrreflexive == \A w : ~Precedes(w, w)
BY EarlierIrreflexive DEF Precedes

(* The order of the search is that of the reference definition. *)
LEMMA PrecedesBefore ==
  ASSUME NEW v \in Seq(Refs), NEW w \in Seq(Refs), Precedes(v, w)
  PROVE  Before(v, w)
<1>1. PICK i \in DOMAIN v \cap DOMAIN w :
        (\A j \in 1 .. i - 1 : v[j] = w[j]) /\ Earlier(v[i], w[i])
  BY DEF Precedes
<1>2. SubSeq(v, 1, i - 1) = SubSeq(w, 1, i - 1)
  <2>1. i \in 1 .. Len(v) /\ i \in 1 .. Len(w) /\ Len(v) \in Nat /\ Len(w) \in Nat
    OBVIOUS
  <2>2. /\ SubSeq(v, 1, i - 1) = [j \in 1 .. i - 1 |-> v[j]]
        /\ SubSeq(w, 1, i - 1) = [j \in 1 .. i - 1 |-> w[j]]
    BY <2>1
  <2> QED BY <1>1, <2>2
<1>3. \E m, n \in DOMAIN References :
        m < n /\ References[m] = v[i] /\ References[n] = w[i]
  BY <1>1 DEF Earlier
<1> QED BY <1>2, <1>3 DEF Before

(* The order does not change when one of two ordered walks goes on. *)
LEMMA PrecedesOnwards ==
  ASSUME NEW v \in Seq(Refs), NEW w \in Seq(Refs), Precedes(v, w), NEW e \in Refs
  PROVE  Precedes(Append(v, e), w) /\ Precedes(v, Append(w, e))
<1>1. PICK i \in DOMAIN v \cap DOMAIN w :
        (\A j \in 1 .. i - 1 : v[j] = w[j]) /\ Earlier(v[i], w[i])
  BY DEF Precedes
<1>2. i \in 1 .. Len(v) /\ i \in 1 .. Len(w) /\ Len(v) \in Nat /\ Len(w) \in Nat
  OBVIOUS
<1>3. /\ i \in DOMAIN Append(v, e) /\ i \in DOMAIN Append(w, e)
      /\ \A j \in 1 .. i : Append(v, e)[j] = v[j] /\ Append(w, e)[j] = w[j]
  BY <1>2
<1>4. 1 .. i - 1 \subseteq 1 .. i /\ i \in 1 .. i
  BY <1>2
<1> QED BY <1>1, <1>3, <1>4 DEF Precedes

(* What is pushed for the earlier reference is popped earlier. *)
LEMMA PrecedesNext ==
  ASSUME NEW w \in Seq(Refs), NEW e \in Refs, NEW f \in Refs, Earlier(e, f)
  PROVE  Precedes(Append(w, e), Append(w, f))
<1> DEFINE n == Len(w)
<1>1. /\ n \in Nat /\ n + 1 \in DOMAIN Append(w, e) /\ n + 1 \in DOMAIN Append(w, f)
      /\ Append(w, e)[n + 1] = e /\ Append(w, f)[n + 1] = f
      /\ \A j \in 1 .. n : Append(w, e)[j] = w[j] /\ Append(w, f)[j] = w[j]
  OBVIOUS
<1>2. 1 .. (n + 1) - 1 = 1 .. n
  BY <1>1
<1> QED BY <1>1, <1>2 DEF Precedes

(* A search that starts has seen its root, at most. *)
LEMMA LimitStarts ==
  ASSUME NEW a, NEW p, StartSearch(a, RootType(a, p.boundary))
  PROVE  LimitMeans(a, p, visited_steps', pending', routes', limited')
<1> DEFINE root == RootType(a, p.boundary)
<1>1. visited_steps' = 0 /\ routes' = {} /\ limited' = FALSE
  BY DEF StartSearch
<1>2. CASE root \in DOMAIN a.types
  <2> DEFINE item == Item(root, <<>>, {})
             seen == {<<>>}
  <2>1. pending' = <<item>> /\ item.steps = <<>>
    BY <1>2 DEF StartSearch, Item
  <2>2. <<>> \in WalksOf(a, p)
    <3>1. <<>> \in Seq(Refs) /\ IsWalk(a, root, p.changed, <<>>)
      BY <1>2, EmptyWalk
    <3> QED BY <3>1, WalkIsShort DEF WalksOf
  <2>3. IsFiniteSet(seen) /\ Cardinality(seen) = 1
    BY FS_Singleton
  <2> HIDE DEF item
  <2>4. Len(pending') = 1 /\ DOMAIN pending' = {1} /\ pending'[1].steps = <<>>
    BY <2>1
  <2>5. Progress(a, p, 0, pending', {}, seen, {})
    BY <2>2, <2>3, <2>4 DEF Progress
  <2> QED BY <1>1, <2>5 DEF LimitMeans
<1>3. CASE root \notin DOMAIN a.types
  <2>1. pending' = <<>>
    BY <1>3 DEF StartSearch
  <2>2. IsFiniteSet({}) /\ Cardinality({}) = 0
    BY FS_EmptySet
  <2>3. Len(pending') = 0 /\ DOMAIN pending' = {}
    BY <2>1
  <2>4. Progress(a, p, 0, pending', {}, {}, {})
    BY <2>2, <2>3 DEF Progress
  <2> QED BY <1>1, <2>4 DEF LimitMeans
<1> QED BY <1>2, <1>3

(* Taking the top off the stack keeps the order of what is below. *)
LEMMA LimitPopped ==
  ASSUME TypeInv, Searching, NEW a, NEW seen, NEW done, NEW found,
         Progress(a, pair, visited_steps, pending, routes, seen, done),
         found \subseteq routes \cup {Current.steps}
  PROVE  Progress(a, pair, visited_steps + 1, Front(pending), found, seen,
                  done \cup {Current.steps})
<1> DEFINE n == Len(pending)
           rest == Front(pending)
           stepped == done \cup {Current.steps}
<1>1. /\ n \in Nat \ {0} /\ Current = pending[n] /\ DOMAIN pending = 1 .. n
      /\ rest \in Seq(Items) /\ Len(rest) = n - 1 /\ DOMAIN rest = 1 .. n - 1
      /\ \A i \in 1 .. n - 1 : rest[i] = pending[i]
      /\ visited_steps \in Nat
  BY Popped DEF TypeInv, TypeOK
<1> HIDE DEF rest, n
<1>2. /\ seen \subseteq WalksOf(a, pair) /\ IsFiniteSet(seen) /\ done \subseteq seen
      /\ Cardinality(seen) = visited_steps + n
      /\ \A w \in seen : w # <<>> => Front(w) \in done
      /\ \A i \in DOMAIN pending : pending[i].steps \in seen \ done
      /\ \A i, j \in DOMAIN pending : i < j => Precedes(pending[j].steps, pending[i].steps)
      /\ \A r \in routes, i \in DOMAIN pending : Precedes(r, pending[i].steps)
  BY DEF Progress, n
<1>3. ASSUME NEW i \in DOMAIN rest
      PROVE  i \in DOMAIN pending /\ n \in DOMAIN pending /\ i < n /\ rest[i] = pending[i]
  BY <1>1
<1>4. Cardinality(seen) = visited_steps + 1 + Len(rest)
  BY <1>1, <1>2
<1>5. ASSUME NEW i \in DOMAIN rest PROVE rest[i].steps \in seen \ stepped
  <2>1. Precedes(Current.steps, rest[i].steps)
    BY <1>1, <1>2, <1>3
  <2>2. Current.steps # rest[i].steps
    BY <2>1, PrecedesIrreflexive
  <2> QED BY <1>2, <1>3, <2>2
<1>6. ASSUME NEW i \in DOMAIN rest, NEW j \in DOMAIN rest, i < j
      PROVE  Precedes(rest[j].steps, rest[i].steps)
  BY <1>2, <1>3, <1>6
<1>7. ASSUME NEW r \in found, NEW i \in DOMAIN rest PROVE Precedes(r, rest[i].steps)
  <2>1. CASE r \in routes
    BY <1>2, <1>3, <2>1
  <2>2. CASE r = Current.steps
    BY <1>1, <1>2, <1>3, <2>2
  <2> QED BY <2>1, <2>2
<1>8. done \cup {Current.steps} \subseteq seen
  BY <1>1, <1>2
<1>9. \A w \in seen : w # <<>> => Front(w) \in done \cup {Current.steps}
  BY <1>2
<1> QED BY <1>2, <1>4, <1>5, <1>6, <1>7, <1>8, <1>9 DEF Progress, rest

(* A limit that stops a pop: the walk is too deep, or enough routes come    *)
(* before it. The step limit never stops a pop: the stack has room for what  *)
(* it holds. *)
LEMMA PopLimitJustified ==
  ASSUME TypeInv, WorkBounded, PopLimited, NEW a, NEW seen, NEW done,
         routes \subseteq PairRoutes(a, pair), IsFiniteSet(routes),
         Progress(a, pair, visited_steps, pending, routes, seen, done)
  PROVE  Justified(a, pair)
<1>1. Searching /\ LimitHit
  BY DEF PopLimited
<1>2. Len(pending) \in Nat \ {0} /\ Current = pending[Len(pending)] /\ visited_steps \in Nat
  BY <1>1, Popped DEF TypeInv, TypeOK
<1>3. MaxSteps \in Nat /\ MaxPaths \in Nat
  BY PublicImpactAssumption DEF TypeInv, MaxSteps, MaxPaths
<1>4. Len(pending) \in DOMAIN pending
  BY <1>1, <1>2 DEF TypeInv, TypeOK
<1>5. Current.steps \in WalksOf(a, pair) /\ Current.steps \in Seq(Refs)
  BY <1>2, <1>4, WalksFinite DEF Progress
<1>6. CASE visited_steps + 1 > MaxSteps
  BY <1>2, <1>3, <1>6 DEF WorkBounded
<1>7. CASE Len(Current.steps) > MaxDepth
  BY <1>5, <1>7 DEF Justified
<1>8. CASE Cardinality(routes) >= MaxPaths
  <2> DEFINE before == {r \in PairRoutes(a, pair) : Before(r, Current.steps)}
  <2>1. PairRoutes(a, pair) \subseteq WalksOf(a, pair)
    BY DEF PairRoutes, Routes, WalksOf
  <2>2. ASSUME NEW r \in routes PROVE r \in before
    <3>1. Precedes(r, Current.steps) /\ r \in Seq(Refs)
      BY <1>2, <1>4, <2>1, WalksFinite DEF Progress
    <3> QED BY <1>5, <3>1, PrecedesBefore
  <2>3. IsFiniteSet(before)
    <3>1. before \in SUBSET WalksOf(a, pair)
      BY <2>1
    <3> QED BY <3>1, WalksFinite, FS_Subset
  <2>4. Cardinality(routes) <= Cardinality(before)
    <3>1. routes \in SUBSET before
      BY <2>2
    <3> HIDE DEF before
    <3> QED BY <2>3, <3>1, FS_Subset
  <2>5. Cardinality(before) \in Nat /\ Cardinality(routes) \in Nat
    BY <2>3, FS_CardinalityType
  <2>6. Cardinality(before) >= MaxPaths
    <3> HIDE DEF before
    <3> QED BY <1>3, <1>8, <2>4, <2>5
  <2> QED BY <1>5, <2>6 DEF Justified
<1> QED BY <1>1, <1>6, <1>7, <1>8 DEF LimitHit

\* The walks that the type on top of the stack adds.
NewWalks ==
  LET edges == Edges(Searched, Current.type)
  IN  {Append(Current.steps, edges[k]) : k \in DOMAIN edges}

(* A type that is entered adds one new walk for each of its references. *)
LEMMA NewWalksCounted ==
  ASSUME TypeInv, Searching, WellOwned(Searched), NEW seen, NEW done,
         IsItem(Searched, RootType(Searched, pair.boundary), Goal, Current),
         Current.type # Goal, Current.type \notin Current.active,
         Progress(Searched, pair, visited_steps, pending, routes, seen, done)
  PROVE  /\ NewWalks \subseteq WalksOf(Searched, pair) /\ NewWalks \cap seen = {}
         /\ IsFiniteSet(NewWalks)
         /\ Cardinality(NewWalks) = Len(Edges(Searched, Current.type))
<1> DEFINE a == Searched
           root == RootType(a, pair.boundary)
           edges == Edges(a, Current.type)
           steps == Current.steps
           new == [k \in 1 .. Len(edges) |-> Append(steps, edges[k])]
<1>1. /\ Current \in Items /\ Current = pending[Len(pending)] /\ Len(pending) \in Nat \ {0}
      /\ Len(pending) \in DOMAIN pending
  BY Popped DEF TypeInv, TypeOK
<1>2. steps \in Seq(Refs) /\ Current.type \in Types
  BY <1>1 DEF Items, Refs
<1>3. /\ IsWalk(a, root, Goal, steps) /\ Ends(root, steps) = Current.type
      /\ Current.active = Owners(steps)
  BY DEF IsItem
<1>4. edges \in Seq(Refs \cap Owned(a, Current.type))
  BY EdgesOf DEF Refs
<1> HIDE DEF edges
<1>5. /\ Len(edges) \in Nat /\ DOMAIN edges = 1 .. Len(edges)
      /\ \A k \in DOMAIN edges : edges[k] \in Refs \cap Owned(a, Current.type)
  BY <1>4
<1>6. ASSUME NEW k \in DOMAIN edges
      PROVE  /\ Append(steps, edges[k]) \in Seq(Refs)
             /\ Append(steps, edges[k]) \in WalksOf(a, pair)
             /\ Append(steps, edges[k]) # <<>>
             /\ Front(Append(steps, edges[k])) = steps
             /\ Last(Append(steps, edges[k])) = edges[k]
  <2> DEFINE e == edges[k]
             v == Append(steps, e)
  <2>1. e \in Refs /\ e \in Refs \cap Owned(a, Current.type)
    BY <1>5
  <2>2. IsWalk(a, root, Goal, v)
    BY <1>2, <1>3, <2>1, WalkGoesOn DEF a
  <2> HIDE DEF e
  <2>3. /\ v \in Seq(Refs) /\ Len(v) = Len(steps) + 1 /\ Len(steps) \in Nat
        /\ v[Len(steps) + 1] = e /\ \A j \in 1 .. Len(steps) : v[j] = steps[j]
    BY <1>2, <2>1
  <2>4. v \in WalksOf(a, pair)
    BY <2>2, <2>3, WalkIsShort DEF WalksOf, Goal
  <2>5. v # <<>>
    BY <2>3
  <2>6. Front(v) = steps /\ Last(v) = e
    <3>1. Len(v) - 1 = Len(steps)
      BY <2>3
    <3>2. Front(v) = [j \in 1 .. Len(steps) |-> v[j]]
      BY <2>3, <3>1 DEF Front
    <3>3. steps = [j \in 1 .. Len(steps) |-> steps[j]]
      BY <1>2
    <3>4. Front(v) = steps
      BY <2>3, <3>2, <3>3
    <3> QED BY <2>3, <3>4 DEF Last
  <2> QED BY <2>3, <2>4, <2>5, <2>6 DEF e
<1>7. NewWalks = {new[k] : k \in DOMAIN new}
  BY <1>5 DEF NewWalks, edges
<1>8. new \in Seq(Seq(Refs)) /\ Len(new) = Len(edges) /\ DOMAIN new = DOMAIN edges
  BY <1>5, <1>6
<1>9. ASSUME NEW k \in DOMAIN new, NEW l \in DOMAIN new, new[k] = new[l] PROVE k = l
  <2>1. edges[k] = edges[l]
    BY <1>5, <1>6, <1>9
  <2>2. ~(k < l) /\ ~(l < k)
    BY <1>8, <2>1, EdgesDescend, EarlierIrreflexive DEF edges
  <2> QED BY <1>5, <1>8, <2>2
<1>10. IsFiniteSet(NewWalks) /\ Cardinality(NewWalks) = Len(edges)
  <2> HIDE DEF new
  <2> QED BY <1>7, <1>8, <1>9, Counted
<1>11. ASSUME NEW w \in NewWalks PROVE w \in WalksOf(a, pair) /\ w \notin seen
  <2>1. PICK k \in DOMAIN edges : w = Append(steps, edges[k])
    BY <1>11 DEF NewWalks, edges
  <2>2. w \in WalksOf(a, pair) /\ w # <<>> /\ Front(w) = steps
    BY <1>6, <2>1
  <2>3. steps \notin done
    BY <1>1 DEF Progress
  <2> QED BY <2>2, <2>3 DEF Progress
<1> QED BY <1>10, <1>11 DEF edges

(* A limit that stops the pushes: popped, queued and new walks are more     *)
(* than the search may pop. *)
LEMMA PushLimitJustified ==
  ASSUME TypeInv, WorkBounded, PopType, limited', WellOwned(Searched), NEW seen, NEW done,
         IsItem(Searched, RootType(Searched, pair.boundary), Goal, Current),
         Progress(Searched, pair, visited_steps, pending, routes, seen, done)
  PROVE  Justified(Searched, pair)
<1> DEFINE edges == Edges(Searched, Current.type)
           more == Len(edges)
           W == WalksOf(Searched, pair)
           n == Len(pending)
<1>1. /\ Searching /\ Current.type # Goal /\ Current.type \notin Current.active
      /\ more > Room(Front(pending))
  BY DEF PopType
<1>2. /\ n \in Nat \ {0} /\ Len(Front(pending)) = n - 1 /\ visited_steps \in Nat
  BY <1>1, Popped DEF TypeInv, TypeOK
<1>3. MaxSteps \in Nat /\ visited_steps + n <= MaxSteps
  BY PublicImpactAssumption DEF TypeInv, MaxSteps, WorkBounded
<1>4. more \in Nat
  <2>1. edges \in Seq(ToSet(References) \cap Owned(Searched, Current.type))
    BY EdgesOf
  <2> QED BY <2>1
<1>5. Room(Front(pending)) = MaxSteps - (n - 1 + visited_steps + 1)
  BY <1>2, <1>3 DEF Room
<1> HIDE DEF n, more
<1>6. visited_steps + n + more > MaxSteps
  BY <1>1, <1>2, <1>3, <1>4, <1>5
<1>7. /\ NewWalks \subseteq W /\ NewWalks \cap seen = {}
      /\ IsFiniteSet(NewWalks) /\ Cardinality(NewWalks) = more
  BY <1>1, NewWalksCounted DEF more
<1>8. /\ seen \subseteq W /\ IsFiniteSet(seen) /\ Cardinality(seen) = visited_steps + n
  BY DEF Progress, n
<1>9. IsFiniteSet(seen \cup NewWalks)
      /\ Cardinality(seen \cup NewWalks) = visited_steps + n + more
  BY <1>7, <1>8, CountedTogether
<1>10. Cardinality(seen \cup NewWalks) <= Cardinality(W) /\ Cardinality(W) \in Nat
  <2>1. seen \cup NewWalks \in SUBSET W /\ IsFiniteSet(W)
    BY <1>7, <1>8, WalksFinite
  <2> HIDE DEF W
  <2> QED BY <2>1, FS_Subset, FS_CardinalityType
<1>11. Cardinality(W) > MaxSteps
  <2> HIDE DEF W
  <2> QED BY <1>2, <1>3, <1>4, <1>6, <1>9, <1>10
<1> QED BY <1>11 DEF Justified

(* Pushing all references of a type keeps the stack in order: new walks go  *)
(* on from the one popped, the earliest reference on top. *)
LEMMA LimitPushed ==
  ASSUME TypeInv, PopType, ~limited', WellOwned(Searched), NEW seen, NEW done,
         IsItem(Searched, RootType(Searched, pair.boundary), Goal, Current),
         Progress(Searched, pair, visited_steps, pending, routes, seen, done)
  PROVE  Progress(Searched, pair, visited_steps + 1, pending', routes,
                  seen \cup NewWalks, done \cup {Current.steps})
<1> DEFINE a == Searched
           edges == Edges(a, Current.type)
           steps == Current.steps
           rest == Front(pending)
           pushed == Pushed(Current, edges)
           m == Len(rest)
           n == Len(edges)
           stepped == done \cup {steps}
<1>1. /\ Searching /\ Current.type # Goal /\ Current.type \notin Current.active
  BY DEF PopType
<1>2. /\ Current \in Items /\ Current = pending[Len(pending)]
      /\ Len(pending) \in Nat \ {0} /\ Len(pending) \in DOMAIN pending
      /\ rest \in Seq(Items) /\ m = Len(pending) - 1 /\ visited_steps \in Nat
      /\ \A i \in 1 .. m : rest[i] = pending[i] /\ i \in DOMAIN pending
  BY <1>1, Popped DEF TypeInv, TypeOK
<1>3. steps \in Seq(Refs) /\ Current.type \in Types
  BY <1>2 DEF Items, Refs
<1>4. edges \in Seq(Refs \cap Owned(a, Current.type)) /\ edges \in Seq(Refs)
  <2>1. edges \in Seq(Refs \cap Owned(a, Current.type))
    BY EdgesOf DEF Refs
  <2> HIDE DEF edges
  <2> QED BY <2>1
<1>5. pending' = rest \o pushed
  BY TypePopped
<1>6. /\ pushed \in Seq(Items) /\ Len(pushed) = n
      /\ \A k \in 1 .. n : pushed[k].steps = Append(steps, edges[k])
  <2>1. \A k \in 1 .. n : pushed[k] = Item(edges[k].target_type, Append(steps, edges[k]),
                                            Current.active \cup {Current.type})
    BY <1>2, <1>3, <1>4, PushedItems
  <2>2. pushed \in Seq(Items) /\ Len(pushed) = n
    BY <1>2, <1>3, <1>4, PushedItems
  <2> HIDE DEF pushed, edges
  <2>3. \A k \in 1 .. n : pushed[k].steps = Append(steps, edges[k])
    <3> SUFFICES ASSUME NEW k \in 1 .. n PROVE pushed[k].steps = Append(steps, edges[k])
      OBVIOUS
    <3>1. pushed[k] = [type |-> edges[k].target_type, steps |-> Append(steps, edges[k]),
                       active |-> Current.active \cup {Current.type}]
      BY <2>1 DEF Item
    <3> QED BY <3>1
  <2> QED BY <2>2, <2>3
<1>7. /\ Progress(a, pair, visited_steps + 1, rest, routes, seen, stepped)
  BY <1>1, LimitPopped
<1>8. /\ NewWalks \subseteq WalksOf(a, pair) /\ NewWalks \cap seen = {}
      /\ IsFiniteSet(NewWalks) /\ Cardinality(NewWalks) = n
  BY <1>1, NewWalksCounted
<1>9. NewWalks = {Append(steps, edges[k]) : k \in DOMAIN edges}
  BY DEF NewWalks
<1> HIDE DEF rest, pushed, edges, stepped
<1>10. /\ DOMAIN edges = 1 .. n /\ n \in Nat /\ m \in Nat
       /\ \A k \in 1 .. n : edges[k] \in Refs
  BY <1>2, <1>4
<1>11. /\ Len(pending') = m + n /\ DOMAIN pending' = 1 .. m + n
       /\ \A i \in 1 .. m : pending'[i] = rest[i]
       /\ \A k \in 1 .. n : pending'[m + k] = pushed[k]
  <2>1. /\ pending' = rest \o pushed /\ rest \in Seq(Items) /\ pushed \in Seq(Items)
        /\ Len(pushed) = n
    BY <1>2, <1>5, <1>6
  <2> HIDE DEF Items
  <2>2. /\ Len(rest \o pushed) = m + Len(pushed)
        /\ rest \o pushed \in Seq(Items) /\ m \in Nat /\ Len(pushed) \in Nat
        /\ \A i \in 1 .. m : (rest \o pushed)[i] = rest[i]
        /\ \A k \in 1 .. Len(pushed) : (rest \o pushed)[m + k] = pushed[k]
    BY <2>1
  <2>3. DOMAIN (rest \o pushed) = 1 .. Len(rest \o pushed)
    BY <2>2
  <2> QED BY <2>1, <2>2, <2>3
<1>12. ASSUME NEW i \in 1 .. m + n, i > m
       PROVE  /\ i - m \in 1 .. n /\ pending'[i].steps = Append(steps, edges[i - m])
  <2>1. i - m \in 1 .. n /\ m + (i - m) = i
    BY <1>10, <1>12
  <2> QED BY <1>6, <1>11, <2>1
<1>13. /\ seen \subseteq WalksOf(a, pair) /\ IsFiniteSet(seen)
       /\ Cardinality(seen) = visited_steps + 1 + m /\ stepped \subseteq seen
       /\ \A w \in seen : w # <<>> => Front(w) \in stepped
       /\ \A i \in 1 .. m : rest[i].steps \in seen \ stepped
       /\ \A i, j \in 1 .. m : i < j => Precedes(rest[j].steps, rest[i].steps)
       /\ \A r \in routes, i \in 1 .. m : Precedes(r, rest[i].steps)
  <2>1. DOMAIN rest = 1 .. m
    BY <1>2
  <2> QED BY <1>7, <2>1 DEF Progress
<1>14. /\ IsFiniteSet(seen \cup NewWalks)
       /\ Cardinality(seen \cup NewWalks) = visited_steps + 1 + Len(pending')
  <2>1. /\ IsFiniteSet(seen \cup NewWalks)
        /\ Cardinality(seen \cup NewWalks) = visited_steps + 1 + m + n
    <3>1. IsFiniteSet(seen) /\ IsFiniteSet(NewWalks) /\ seen \cap NewWalks = {}
      BY <1>8, <1>13
    <3>2. Cardinality(seen \cup NewWalks) = Cardinality(seen) + Cardinality(NewWalks)
      BY <3>1, CountedTogether
    <3>3. IsFiniteSet(seen \cup NewWalks)
      BY <3>1, CountedTogether
    <3>4. Cardinality(seen) = visited_steps + 1 + m /\ Cardinality(NewWalks) = n
      BY <1>8, <1>13
    <3> QED BY <3>2, <3>3, <3>4
  <2> QED BY <1>2, <1>10, <1>11, <2>1
<1>15. /\ seen \cup NewWalks \subseteq Seq(Refs) /\ routes \subseteq Seq(Refs)
  <2>1. routes \subseteq Seq(Refs)
    BY DEF TypeInv, TypeOK, Refs
  <2> QED BY <1>8, <1>13, <2>1, WalksFinite
<1>16. ASSUME NEW k \in 1 .. n
       PROVE  /\ Append(steps, edges[k]) \in NewWalks /\ Append(steps, edges[k]) # <<>>
              /\ Front(Append(steps, edges[k])) = steps
              /\ Append(steps, edges[k]) \notin stepped
  <2> DEFINE e == edges[k]
             v == Append(steps, e)
  <2>1. e \in Refs /\ v \in NewWalks
    BY <1>9, <1>10
  <2> HIDE DEF e
  <2>2. /\ v \in Seq(Refs) /\ Len(v) = Len(steps) + 1 /\ Len(steps) \in Nat
        /\ \A j \in 1 .. Len(steps) : v[j] = steps[j]
    BY <1>3, <2>1
  <2>3. v # <<>> /\ v # steps
    <3>1. Len(v) # 0 /\ Len(v) # Len(steps)
      BY <2>2
    <3> QED BY <3>1
  <2>4. Front(v) = steps
    <3>1. Len(v) - 1 = Len(steps)
      BY <2>2
    <3>2. Front(v) = [j \in 1 .. Len(steps) |-> v[j]]
      BY <2>2, <3>1 DEF Front
    <3>3. steps = [j \in 1 .. Len(steps) |-> steps[j]]
      BY <1>3
    <3> QED BY <2>2, <3>2, <3>3
  <2>5. v \notin done
    BY <1>7, <1>8, <2>1 DEF Progress, stepped
  <2> QED BY <2>1, <2>3, <2>4, <2>5 DEF stepped, e
<1>17. ASSUME NEW i \in DOMAIN pending'
       PROVE  pending'[i].steps \in (seen \cup NewWalks) \ stepped
  <2>1. CASE i \in 1 .. m
    BY <1>11, <1>13, <2>1
  <2>2. CASE i > m
    <3>1. i \in 1 .. m + n
      BY <1>11
    <3>2. i - m \in 1 .. n /\ pending'[i].steps = Append(steps, edges[i - m])
      BY <1>12, <2>2, <3>1
    <3> QED BY <1>16, <3>2
  <2> QED BY <1>10, <1>11, <2>1, <2>2
<1>18. ASSUME NEW w \in seen \cup NewWalks, w # <<>> PROVE Front(w) \in stepped
  <2>1. CASE w \in seen
    BY <1>13, <1>18, <2>1
  <2>2. CASE w \in NewWalks
    <3>1. PICK k \in 1 .. n : w = Append(steps, edges[k])
      BY <1>9, <1>10, <2>2
    <3> QED BY <1>16, <3>1 DEF stepped
  <2> QED BY <2>1, <2>2
\* What is popped before a walk below the type is popped before its new walks.
<1>19. ASSUME NEW k \in 1 .. n
       PROVE  /\ \A i \in 1 .. m : Precedes(Append(steps, edges[k]), rest[i].steps)
              /\ \A r \in routes : Precedes(r, Append(steps, edges[k]))
  <2>1. edges[k] \in Refs
    BY <1>10
  <2>2. \A r \in routes : Precedes(r, steps) /\ r \in Seq(Refs)
    BY <1>2, <1>15 DEF Progress
  <2>3. \A r \in routes : Precedes(r, Append(steps, edges[k]))
    BY <1>3, <2>1, <2>2, PrecedesOnwards
  <2>4. ASSUME NEW i \in 1 .. m PROVE Precedes(Append(steps, edges[k]), rest[i].steps)
    <3>1. /\ i \in DOMAIN pending /\ Len(pending) \in DOMAIN pending /\ i < Len(pending)
          /\ rest[i] = pending[i]
      BY <1>2
    <3>2. Precedes(steps, rest[i].steps)
      BY <1>2, <3>1 DEF Progress
    <3>3. rest[i].steps \in Seq(Refs)
      BY <1>13, <1>15
    <3> QED BY <1>3, <2>1, <3>2, <3>3, PrecedesOnwards
  <2> QED BY <2>3, <2>4
<1>20. ASSUME NEW i \in DOMAIN pending', NEW j \in DOMAIN pending', i < j
       PROVE  Precedes(pending'[j].steps, pending'[i].steps)
  <2>1. i \in 1 .. m + n /\ j \in 1 .. m + n
    BY <1>11
  <2>2. CASE j <= m
    <3>1. i \in 1 .. m /\ j \in 1 .. m
      BY <1>10, <1>20, <2>1, <2>2
    <3> QED BY <1>11, <1>13, <1>20, <3>1
  <2>3. CASE i <= m /\ j > m
    <3>1. i \in 1 .. m /\ pending'[i] = rest[i]
      BY <1>10, <1>11, <2>1, <2>3
    <3>2. j - m \in 1 .. n /\ pending'[j].steps = Append(steps, edges[j - m])
      BY <1>12, <2>1, <2>3
    <3> QED BY <1>19, <3>1, <3>2
  <2>4. CASE i > m
    <3>1. j > m
      BY <1>10, <1>20, <2>1, <2>4
    <3>2. i - m \in 1 .. n /\ pending'[i].steps = Append(steps, edges[i - m])
      BY <1>12, <2>1, <2>4
    <3>3. j - m \in 1 .. n /\ pending'[j].steps = Append(steps, edges[j - m])
      BY <1>12, <2>1, <3>1
    <3>4. i - m < j - m
      BY <1>10, <1>20, <2>1
    <3>5. Earlier(edges[j - m], edges[i - m])
      BY <1>10, <3>2, <3>3, <3>4, EdgesDescend DEF edges
    <3> QED BY <1>3, <1>10, <3>2, <3>3, <3>5, PrecedesNext
  <2> QED BY <1>10, <2>1, <2>2, <2>3, <2>4
<1>21. ASSUME NEW r \in routes, NEW i \in DOMAIN pending'
       PROVE  Precedes(r, pending'[i].steps)
  <2>1. CASE i \in 1 .. m
    BY <1>11, <1>13, <2>1
  <2>2. CASE i > m
    <3>1. i - m \in 1 .. n /\ pending'[i].steps = Append(steps, edges[i - m])
      BY <1>11, <1>12, <2>2
    <3> QED BY <1>19, <3>1
  <2> QED BY <1>10, <1>11, <2>1, <2>2
<1>22. /\ seen \cup NewWalks \subseteq WalksOf(a, pair) /\ stepped \subseteq seen \cup NewWalks
  BY <1>8, <1>13
<1> QED BY <1>14, <1>17, <1>18, <1>20, <1>21, <1>22 DEF Progress, stepped

(* A step of the search keeps what a limit means. *)
LEMMA LimitGoesOn ==
  ASSUME TypeInv, WorkInv, WellOwned(Searched),
         SearchedTo(Searched, pair, pending, routes, limited),
         LimitMeans(Searched, pair, visited_steps, pending, routes, limited),
         PopLimited \/ PopRoute \/ PopCycle \/ PopType
  PROVE  LimitMeans(Searched, pair, visited_steps', pending', routes', limited')
<1> DEFINE a == Searched
           root == RootType(a, pair.boundary)
<1>1. Searching /\ visited_steps' = visited_steps + 1
  BY DEF PopLimited, PopRoute, PopCycle, PopType
<1>2. PICK seen, done : Progress(a, pair, visited_steps, pending, routes, seen, done)
  BY <1>1 DEF LimitMeans, Searching
<1>3. IsItem(a, root, Goal, Current)
  <2>1. Len(pending) \in DOMAIN pending /\ Current = pending[Len(pending)]
    <3>1. pending \in Seq(Items)
      BY DEF TypeInv, TypeOK
    <3> QED BY <1>1, <3>1, Popped
  <2> QED BY <2>1 DEF SearchedTo, Goal
<1>4. WorkBounded /\ IsFiniteSet(routes) /\ routes \subseteq PairRoutes(a, pair)
  BY DEF WorkInv, SearchedTo
<1> HIDE DEF a, root
<1>5. CASE PopLimited
  <2>1. Justified(a, pair)
    BY <1>2, <1>4, <1>5, PopLimitJustified
  <2>2. limited'
    BY <1>5 DEF PopLimited
  <2> QED BY <2>1, <2>2 DEF LimitMeans, a
<1>6. CASE PopRoute
  <2>1. /\ pending' = Front(pending) /\ routes' = routes \cup {Current.steps} /\ ~limited'
    BY <1>6 DEF PopRoute, Searching
  <2>2. Progress(a, pair, visited_steps + 1, Front(pending), routes', seen,
                 done \cup {Current.steps})
    BY <1>1, <1>2, <2>1, LimitPopped
  <2> QED BY <1>1, <2>1, <2>2 DEF LimitMeans, a
<1>7. CASE PopCycle
  <2>1. /\ pending' = Front(pending) /\ routes' = routes /\ ~limited'
    BY <1>7 DEF PopCycle, Searching
  <2>2. Progress(a, pair, visited_steps + 1, Front(pending), routes', seen,
                 done \cup {Current.steps})
    BY <1>1, <1>2, <2>1, LimitPopped
  <2> QED BY <1>1, <2>1, <2>2 DEF LimitMeans, a
<1>8. CASE PopType /\ limited'
  <2>1. Justified(a, pair)
    BY <1>2, <1>3, <1>4, <1>8, PushLimitJustified DEF a, root
  <2> QED BY <1>8, <2>1 DEF LimitMeans, a
<1>9. CASE PopType /\ ~limited'
  <2>1. Progress(a, pair, visited_steps + 1, pending', routes,
                 seen \cup NewWalks, done \cup {Current.steps})
    BY <1>2, <1>3, <1>9, LimitPushed DEF a, root
  <2>2. routes' = routes
    BY <1>9 DEF PopType
  <2> QED BY <1>1, <1>9, <2>1, <2>2 DEF LimitMeans, a
<1> QED BY <1>5, <1>6, <1>7, <1>8, <1>9

\* RES001 stands for a search that a limit stopped for a reason.
LimitInv ==
  /\ pc \in {"source", "target"} =>
       LimitMeans(Searched, pair, visited_steps, pending, routes, limited)
  /\ limit_exceeded => \E p \in Pairs(source, target), a \in {source, target} : Justified(a, p)

(* Every step keeps it. *)
LEMMA LimitStep == IInv /\ WorkInv /\ LimitInv /\ [Next]_vars => LimitInv'
<1> SUFFICES ASSUME IInv, WorkInv, LimitInv, [Next]_vars PROVE LimitInv'
  OBVIOUS
<1> DEFINE Stopped == \E p \in Pairs(source, target), a \in {source, target} : Justified(a, p)
<1>1. /\ TypeInv /\ TypeInv' /\ source' = source /\ target' = target /\ limits' = limits
      /\ WellOwned(source) /\ WellOwned(target) /\ SearchInv
  BY TypesStep, ArtifactsFixed DEF IInv, artifacts
<1>2. /\ \A a, p : Justified(a, p)' = Justified(a, p)
      /\ Stopped' = Stopped
  BY <1>1 DEF Justified, MaxSteps, MaxDepth, MaxPaths
<1> HIDE DEF Stopped
<1>3. limit_exceeded => Stopped
  BY DEF LimitInv, Stopped
<1>4. SUFFICES /\ pc' \in {"source", "target"} =>
                    LimitMeans(Searched', pair', visited_steps', pending', routes', limited')
               /\ limit_exceeded' => Stopped
  <2>1. ASSUME NEW a, NEW p, NEW v, NEW k, NEW r, NEW c
        PROVE  LimitMeans(a, p, v, k, r, c)' = LimitMeans(a', p', v', k', r', c')
    BY <1>2 DEF LimitMeans
  <2> QED BY <1>2, <2>1 DEF LimitInv, Stopped
<1>5. CASE UNCHANGED vars
  <2>1. UNCHANGED <<pc, pair, visited_steps, pending, routes, limited, limit_exceeded>>
        /\ Searched' = Searched
    BY <1>1, <1>5 DEF vars, search, report, Searched
  <2> QED BY <1>3, <2>1 DEF LimitInv
<1>6. ASSUME NEW p \in todo, TracePair(p)
      PROVE  /\ LimitMeans(Searched', pair', visited_steps', pending', routes', limited')
             /\ limit_exceeded' = limit_exceeded
  <2>1. /\ pc' = "source" /\ pair' = p /\ UNCHANGED limit_exceeded
        /\ StartSearch(source, RootType(source, p.boundary))
    BY <1>6 DEF TracePair, report
  <2>2. Searched' = source
    BY <1>1, <2>1 DEF Searched
  <2> QED BY <2>1, <2>2, LimitStarts
<1>7. CASE PopLimited \/ PopRoute \/ PopCycle \/ PopType
  <2>1. pc \in {"source", "target"} /\ UNCHANGED <<pc, pair, limit_exceeded>>
    BY <1>7 DEF PopLimited, PopRoute, PopCycle, PopType, FrameSearch, Searching, report
  <2>2. Searched' = Searched /\ WellOwned(Searched)
    BY <1>1, <2>1 DEF Searched
  <2>3. LimitMeans(Searched, pair, visited_steps', pending', routes', limited')
    BY <1>1, <1>7, <2>1, <2>2, LimitGoesOn DEF LimitInv, SearchInv
  <2> QED BY <1>3, <2>1, <2>2, <2>3
<1>8. CASE SourceTraced
  <2>1. /\ pc = "source" /\ pc' = "target" /\ pair' = pair
        /\ limit_exceeded' = (limit_exceeded \/ limited)
        /\ StartSearch(target, RootType(target, pair.boundary))
    BY <1>8 DEF SourceTraced
  <2>2. Searched' = target /\ Searched = source
    BY <1>1, <2>1 DEF Searched
  <2>3. limited => Stopped
    BY <1>1, <2>1, <2>2 DEF LimitInv, LimitMeans, Stopped, TypeInv
  <2> QED BY <1>3, <2>1, <2>2, <2>3, LimitStarts
<1>9. CASE TargetTraced
  <2>1. /\ pc = "target" /\ pc' = "next"
        /\ limit_exceeded' = (limit_exceeded \/ limited)
    BY <1>9 DEF TargetTraced, OrLimit
  <2>2. limited => Stopped
    BY <1>1, <2>1 DEF LimitInv, LimitMeans, Stopped, TypeInv, Searched
  <2> QED BY <1>3, <2>1, <2>2
<1>10. CASE Finish
  BY <1>3, <1>10 DEF Finish, report
<1>11. CASE Terminated
  BY <1>5, <1>11 DEF Terminated
<1> QED BY <1>3, <1>5, <1>6, <1>7, <1>8, <1>9, <1>10, <1>11 DEF Next, Step

(* RES001 is never raised without cause: some search has a walk that is too *)
(* deep, more walks than it may pop, or a walk left over after as many      *)
(* routes as it may keep (routes_to_type). *)
THEOREM LimitsAreJustified == Spec => []LimitJustified
<1>1. Init => LimitInv
  BY DEF Init, LimitInv
<1>2. LimitInv => LimitJustified
  BY DEF LimitInv, LimitJustified, Justified, WalksOf
<1> QED BY <1>1, <1>2, LimitStep, AlwaysTraced, InitWork, WorkStep, PTL DEF Spec
=============================================================================
