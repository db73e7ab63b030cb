------------------------------ MODULE Positions ------------------------------
(* The members of a finite set of numbers in increasing order: what a loop *)
(* over a list that keeps some of its items yields, as positions in it.    *)
(* Defined by rank, without recursion, so that it can be reasoned about.   *)
EXTENDS Naturals, FiniteSets

Below(number, set) == {other \in set : other < number}

InOrder(set) ==
    [k \in 1..Cardinality(set) |->
        CHOOSE number \in set : Cardinality(Below(number, set)) = k - 1]
=============================================================================
