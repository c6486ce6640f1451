----------------------------- MODULE MCTtlServer -----------------------------
(* Small instances of the ch14 server for TLC. *)
EXTENDS TtlServer

Symmetry == Permutations(Key) \cup Permutations(Value)
=============================================================================
