------------------------------- MODULE MCOptimize -------------------------------
(* Instances of Optimize for TLC: two columns, two rows that they order
   differently, filters and aggregations on them. *)
EXTENDS Optimize, TLC

CONSTANTS c1, c2

TwoRows == {<<1, 2>>, <<2, 1>>}
WithHole == {<<<<2, 1>>, Deleted>>}
Empty == {<<>>}
TwoQueries == {[filters |-> {2}, groups |-> {}], [filters |-> {}, groups |-> {1}]}
OneQuery == {[filters |-> {}, groups |-> {1}]}

\* Calls of raw_optimize do not overlap, nor do those of raw_project.
OneOfEach == {<<f, f>> : f \in {"optimize", "project"}}

\* Rewrites beside a projection; projections made of projections; saves and loads
\* that overlap, beside raw_project's own query.
Budget(optimize, project, save, load) ==
    [optimize |-> optimize, project |-> project, save |-> save, load |-> load]
ThreeWays == {Budget(2, 1, 0, 0), Budget(1, 2, 0, 0), Budget(0, 1, 2, 2)}
ManyRewrites == {Budget(3, 1, 0, 0)}

Symmetry == Permutations(Calls)
================================================================================
