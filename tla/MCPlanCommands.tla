--------------------------- MODULE MCPlanCommands ---------------------------
(***************************************************************************)
(* Two contents per file.  The release is safe when the target differs from *)
(* the source, the policy is the first one, and the network runs at least   *)
(* protocol 2 (as a build for protocol 2 needs).                            *)
(***************************************************************************)
EXTENDS PlanCommands, TLC

CONSTANTS v1, v2  \* contents

MCContents == {v1, v2}
MCSafeEvidence ==
  {e \in [files : [Inputs -> MCContents], protocol : Protocols] :
     e.files["source_wasm"] # e.files["target_wasm"] /\ e.files["policy"] = v1 /\ e.protocol >= 2}

\* Three changes of the environment around one run of `plan`; two runs write the
\* file in an environment that holds still, from evidence of either kind.
MCMaxEvents == [started \in 0 .. 2 |-> IF started = 2 THEN 0 ELSE 3]

Symmetry == Permutations(Planners) \cup Permutations(Networks)
=============================================================================
