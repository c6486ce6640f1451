----------------------------- MODULE MCSkipList -----------------------------
(* A small instance of the skip list for TLC: scores on either side of 0.  *)
EXTENDS SkipList

Scores == {-1, 0, NaN}
=============================================================================
