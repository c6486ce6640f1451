----------------------------- MODULE Arrangement -----------------------------
(***************************************************************************)
(* The elements of a finite set in an order, and the part of a sequence    *)
(* that stands at some of its positions.  They say by the choice of an     *)
(* arrangement what SortSeq and SelectSeq compute, of which the provers    *)
(* know nothing.                                                           *)
(***************************************************************************)
EXTENDS Naturals, FiniteSets

\* The elements of S, each before those it is Before.
Arrange(S, Before(_, _)) ==
  CHOOSE f \in [1..Cardinality(S) -> S] :
    \A p, q \in 1..Cardinality(S) : p < q => Before(f[p], f[q])

\* The elements of s at the positions I, in the order in which they are in s.
PartAt(s, I) ==
  LET at == Arrange(I, LAMBDA i, j : i < j)
  IN  [p \in 1..Cardinality(I) |-> s[at[p]]]
=============================================================================
