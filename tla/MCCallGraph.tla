---------------------------- MODULE MCCallGraph ----------------------------
(***************************************************************************)
(* Small code sections: every body holds at most MaxCalls direct calls, to  *)
(* any index of the module (itself, another body, an import or nothing).   *)
(***************************************************************************)
EXTENDS CallGraph

CONSTANT MaxCalls

MCCallLists == UNION {[1 .. n -> Index] : n \in 0 .. MaxCalls}
=============================================================================
