------------------------------- MODULE Selection -------------------------------
(***************************************************************************)
(* What a list comprehension with a condition selects: the values at some  *)
(* positions, in the order of the positions.                               *)
(***************************************************************************)
EXTENDS Naturals, FiniteSets

(* The k-th smallest of a finite set of numbers.                           *)
Nth(P, k) == CHOOSE p \in P : Cardinality({q \in P : q < p}) = k - 1

Selected(f, P) == [k \in 1..Cardinality(P) |-> f[Nth(P, k)]]
================================================================================
