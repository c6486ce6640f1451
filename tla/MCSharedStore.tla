--------------------------- MODULE MCSharedStore ---------------------------
(* Small instances of the ch16 store for TLC. *)
EXTENDS SharedStore

Symmetry == Permutations(Worker) \cup Permutations(Key) \cup Permutations(Value)
=============================================================================
