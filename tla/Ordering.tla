------------------------------ MODULE Ordering ------------------------------
(***************************************************************************)
(* What sorting by a strict order returns.                                 *)
(***************************************************************************)
EXTENDS Integers, FiniteSets

(* S in the order of a relation: the n-th has n - 1 before it.             *)
InOrder(S, before) ==
  [n \in 1..Cardinality(S) |->
     CHOOSE x \in S : Cardinality({y \in S : <<y, x>> \in before}) = n - 1]
=============================================================================
