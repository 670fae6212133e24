------------------------ MODULE MCPersistentChildStore ------------------------
(* PersistentChildStore for TLC: two children in one file, and every fault. *)
EXTENDS PersistentChildStore, TLC

CONSTANTS a, b, x, y, v1, v2

Both == {a, b}
Bytes == {x, y}
Versions == {v1, v2}
Symmetric == Permutations(Bytes) \cup Permutations(Versions) \cup Permutations(Both)
=============================================================================
