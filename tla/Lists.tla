--------------------------------- MODULE Lists ---------------------------------
(* Lists as functions of the positions they take their elements from.  The        *)
(* provers know nothing of SelectSeq and SetToSortSeq, of these they do.          *)
EXTENDS Naturals, FiniteSets, Sequences

\* the numbers of a set, from the smallest to the largest
InOrder(S) == [i \in 1..Cardinality(S) |-> CHOOSE n \in S : Cardinality({m \in S : m <= n}) = i]

\* the elements of a sequence at some of its positions, in their order
Picked(s, at) == LET order == InOrder(at) IN [k \in DOMAIN order |-> s[order[k]]]
===============================================================================
