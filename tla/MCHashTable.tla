----------------------------- MODULE MCHashTable -----------------------------
(***************************************************************************)
(* A small instance of the hash tables of ch9 and ch10 for TLC: four keys  *)
(* that share one of two buckets at first and separate, but for a pair, as *)
(* the table grows.                                                        *)
(***************************************************************************)
EXTENDS HashTable

CONSTANTS k1, k2, k3, k4

Keys4 == {k1, k2, k3, k4}
Hashes == (k1 :> 0) @@ (k2 :> 2) @@ (k3 :> 6) @@ (k4 :> 8)
=============================================================================
