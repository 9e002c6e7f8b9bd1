------------------------------- MODULE Places -------------------------------
(***************************************************************************)
(* Elements in order: what ORDER BY, sort_by, sort_by_key, a filter and a  *)
(* loop whose position only grows have in common.                          *)
(***************************************************************************)
EXTENDS Integers, FiniteSets

\* The place of n in the order of N, from 0.
Place(N, n) == Cardinality({m \in N : m < n})

\* The same when R holds the pairs of which the first comes before the second.
PlaceBy(R, N, n) == Cardinality({m \in N : <<m, n>> \in R})

\* The elements of N in the order of R, and numbers in ascending order.
Arranged(R, N) == [k \in 1..Cardinality(N) |-> CHOOSE n \in N : PlaceBy(R, N, n) = k - 1]
Less(N) == {p \in N \X N : p[1] < p[2]}
Ascending(N) == Arranged(Less(N), N)

\* The elements of s that are at the places in K.
Selected(s, K) == LET order == Ascending(K) IN [k \in DOMAIN order |-> s[order[k]]]
=============================================================================
