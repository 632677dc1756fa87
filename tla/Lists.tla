------------------------------- MODULE Lists -------------------------------
(* Numbers in order.  SetToSortSeq of the community modules rests on an operator
   of TLC that has no definition in TLA+, so nothing could be proved of it. *)
EXTENDS Integers, FiniteSets

\* The elements of a set of numbers, the least first.
Ascending(S) ==
  [k \in 1 .. Cardinality(S) |-> CHOOSE x \in S : Cardinality({y \in S : y < x}) = k - 1]
=============================================================================
