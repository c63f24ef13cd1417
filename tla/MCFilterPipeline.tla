-------------------------- MODULE MCFilterPipeline --------------------------
(* Instances of FilterPipeline for TLC: the threads are model values, so    *)
(* the threads of one filter are interchangeable.                           *)
EXTENDS FilterPipeline, TLC

CONSTANTS a1, a2, b1, b2, c1, d1

\* Two filters with two threads each.
TwoFilters == (a1 :> 0) @@ (a2 :> 0) @@ (b1 :> 1) @@ (b2 :> 1)

\* Four filters, the second with two threads, the others with one.
FourFilters == (a1 :> 0) @@ (b1 :> 1) @@ (b2 :> 1) @@ (c1 :> 2) @@ (d1 :> 3)

Symmetry == {g @@ h : g \in Permutations({a1, a2}), h \in Permutations({b1, b2})}
=============================================================================
