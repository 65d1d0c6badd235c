-------------------------------- MODULE Selection --------------------------------
(***************************************************************************)
(* The part of a sequence at a set of its places, and the ranking of a     *)
(* finite set by an order.  SelectSeq and SortSeq take operators; here the *)
(* places and the order are sets, which a proof can reason about.          *)
(***************************************************************************)
EXTENDS Naturals, FiniteSets

\* The n-th of a set of places, counted from the lowest.
Nth(places, n) == CHOOSE i \in places : Cardinality({j \in places : j <= i}) = n

\* What s holds at these places, in their order.
Selection(s, places) == [n \in 1 .. Cardinality(places) |-> s[Nth(places, n)]]

\* The elements of S in the order of the pairs before: the n-th has n - 1 before it.
Ranked(S, before) ==
    [n \in 1 .. Cardinality(S) |->
        CHOOSE x \in S : Cardinality({y \in S : y = x \/ <<y, x>> \in before}) = n]
================================================================================
