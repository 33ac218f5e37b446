------------------------------- MODULE Ranking -------------------------------
(***************************************************************************)
(* Counting off a finite set of numbers: the order in which a loop that    *)
(* runs upwards comes to them.                                             *)
(***************************************************************************)
EXTENDS Integers, FiniteSets

\* The elements of S, upwards: the i-th has i elements up to it.
Ascending(S) ==
    [i \in 1 .. Cardinality(S) |->
        CHOOSE n \in S : Cardinality({m \in S : m =< n}) = i]
=============================================================================
