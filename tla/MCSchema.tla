-------------------------------- MODULE MCSchema --------------------------------
(* Instances of SchemaEvolution for TLC. *)
EXTENDS SchemaEvolution, TLC

CONSTANTS s1, s2

V(d, k) == [depth |-> d, kind |-> k]
Column(c, S) == c :> S

\* Numbers that widen, a list that makes the column JSON, lists of arrays of
\* objects and a payload without columns; lists of dates and lists of
\* timestamps share a shape, and no TIMESTAMP holds the far date.
SomePayloads ==
    { Column("a", {V(0, "int")}),
      Column("a", {V(1, "date"), V(1, "null")}),
      Column("a", {V(1, "far_date"), V(1, "timestamp")}),
      Column("a", {V(0, "real"), V(0, "null")}) @@ Column("b", {V(2, "object")}),
      <<>> }

UserTables == { Column("a", LIST(0, "INTEGER")) }

Symmetry == Permutations(Sessions)
================================================================================
