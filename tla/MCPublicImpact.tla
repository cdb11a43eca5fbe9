--------------------------- MODULE MCPublicImpact ---------------------------
(***************************************************************************)
(* Three mutually recursive types: A refers to B twice over (directly and   *)
(* through C) and B back to A.  Each type may be changed in shape, lose     *)
(* references or disappear in the target.                                   *)
(***************************************************************************)
EXTENDS PublicImpact

Ref(owner, member, to) == [owner_type |-> owner, member |-> member, target_type |-> to]

MCReferences == << Ref("A", "x", "C"), Ref("A", "y", "B"),
                   Ref("B", "z", "A"), Ref("C", "u", "B") >>

Limit(steps, depth, paths) == [steps |-> steps, depth |-> depth, paths |-> paths]

\* Limits that cut searches short, each of them, and limits no search reaches.
MCLimits == {Limit(3, 1, 1), Limit(12, 3, 3)}
\* A path limit of one, with room for every search.
MCOnePath == {Limit(12, 3, 1)}
=============================================================================
