------------------------------ MODULE Ranking ------------------------------
(* Sorted lists: the place of an element is the number of those before it. *)
EXTENDS Integers, FiniteSets

Before(x, S, order) == {y \in S : <<y, x>> \in order}

\* The elements of S, those that order puts first at the front.
Ranked(S, order) ==
    [k \in 1..Cardinality(S) |-> CHOOSE x \in S : Cardinality(Before(x, S, order)) = k - 1]

=============================================================================
