------------------------- MODULE MCWorktreeStoreRoot -------------------------
(* Two directories a and b, a link l to a, and a file s in a. *)
EXTENDS WorktreeStoreRoot, TLC

MCPaths == {"a", "b", "l", "s"}
MCCanonical == [p \in MCPaths |-> IF p = "l" THEN "a" ELSE p]
MCAbove == [p \in MCPaths |-> IF p = "s" THEN {"a", "s"} ELSE {p}]
Symmetry == Permutations(Opens)
=============================================================================
