------------------------- MODULE MCThreadPoolServer -------------------------
(* Small instances of the ch16 server for TLC. *)
EXTENDS ThreadPoolServer, TLC

Symmetry == Permutations(Client) \cup Permutations(Worker)
=============================================================================
