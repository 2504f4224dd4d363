------------------------------ MODULE Ordering ------------------------------
(***************************************************************************)
(* Sets of numbers in ascending order: the order in which a std::map keeps *)
(* its keys and a list is filtered.  The definitions are not recursive, so *)
(* that the proofs can use them (SelectSeq and SetToSortSeq are).          *)
(***************************************************************************)
EXTENDS Integers, Sequences, FiniteSets

\* The elements of S, least first.
Ascending(S) ==
  CHOOSE f \in [1 .. Cardinality(S) -> S] : \A i, j \in DOMAIN f : i < j => f[i] < f[j]

\* The items of q at the places of S, in the order they have in q.
Picked(q, S) ==
  LET order == Ascending(S)
  IN  [k \in DOMAIN order |-> q[order[k]]]
=============================================================================
