-------------------------- MODULE MCAccountRollout --------------------------
(***************************************************************************)
(* Small builds and policies for module AccountRollout: what SDK 27 makes   *)
(* of the three sources, and what a CAP-0086 SDK may make of the second.    *)
(***************************************************************************)
EXTENDS AccountRollout

Build(layout, read, write, elsewhere, version) ==
  [layout |-> layout, read |-> read, write |-> write, elsewhere |-> elsewhere,
   version |-> version]
MCBuilds ==
  {Build("v1", "dense", "dense", e, v) : e \in BOOLEAN, v \in 1 .. 3}
    \cup {Build("v2", r, w, e, v) :
            r \in {"dense", "sparse"}, w \in {"dense", "sparse"}, e \in BOOLEAN, v \in 1 .. 3}
    \cup {Build("unsafe", "dense", "dense", FALSE, v) : v \in 1 .. 3}

\* Declarations of storage and history are the subject of ReleaseChain.
Undeclared == Protections \ {"require_storage_schema", "require_schema_history"}
MCPolicies ==
  {[supported |-> TRUE, on |-> Undeclared],
   [supported |-> TRUE, on |-> Undeclared \ {"deny_changed_user_types"}]}
MCAmounts == {-1, 1, 2}
MCMinBalance == -2
=============================================================================
