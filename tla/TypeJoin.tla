-------------------------------- MODULE TypeJoin --------------------------------
(***************************************************************************)
(* Types of columns and values (raw_json.cpp, raw_ingest.cpp): what type a *)
(* batch of JSON values is inferred to have, how a column's type is joined *)
(* with an incoming one, and which values FillVector can store in a column *)
(* of a given type without turning them into NULL.                         *)
(*                                                                         *)
(* A type is a nesting depth of LIST and the base type inside.  A JSON     *)
(* value is reduced to its paths: an array stands for its elements one     *)
(* level down, an empty array or one of nulls for a null one level down.   *)
(* Inference and extraction treat the elements of an array one by one, so  *)
(* the set of the paths is all they depend on.                             *)
(***************************************************************************)
EXTENDS Naturals, FiniteSetsExt

Scalars == {"BOOLEAN", "BIGINT", "DOUBLE", "DATE", "TIMESTAMP", "VARCHAR"}
InferredBases == Scalars \union {"JSON"}

\* Types only a user's own CREATE TABLE gives a column: narrow integers stand
\* for each other, OTHER for every type RawDuck does not widen.
DeclaredBases == InferredBases \union {"INTEGER", "HUGEINT", "FLOAT", "OTHER"}

InferredTypes == [depth : Nat, base : InferredBases]
ColumnTypes == [depth : Nat, base : DeclaredBases]

LIST(d, b) == [depth |-> d, base |-> b]

--------------------------------------------------------------------------------
(* Joining the type of a column with an incoming type *)

IsIntegerType(b) == b \in {"INTEGER", "BIGINT", "HUGEINT"}
IsPlainScalar(b) == IsIntegerType(b) \/ b \in Scalars \union {"FLOAT"}
IsNumeric(b) == IsIntegerType(b) \/ b \in {"FLOAT", "DOUBLE"}
IsTemporal(b) == b \in {"DATE", "TIMESTAMP"}

\* Neither is a list.
JoinBases(existing, incoming) ==
    IF existing = incoming THEN existing
    ELSE IF "JSON" \in {existing, incoming} THEN "JSON"
    ELSE IF ~IsPlainScalar(existing) THEN existing
    ELSE IF IsIntegerType(existing) /\ IsIntegerType(incoming)
         THEN IF existing = "HUGEINT" THEN existing ELSE incoming
    ELSE IF IsNumeric(existing) /\ IsNumeric(incoming) THEN "DOUBLE"
    ELSE IF IsTemporal(existing) /\ IsTemporal(incoming) THEN "TIMESTAMP"
    ELSE "VARCHAR"

\* The lists both types begin with are peeled off together; where only one of
\* them goes on as a list the join is JSON, unless the column is of a type that
\* is never widened.
JoinColumnTypes(existing, incoming) ==
    IF existing.depth = incoming.depth
    THEN LIST(existing.depth, JoinBases(existing.base, incoming.base))
    ELSE LET shallow == IF existing.depth < incoming.depth THEN existing ELSE incoming
         IN IF shallow.base = "JSON" \/ IsPlainScalar(shallow.base)
            THEN LIST(shallow.depth, "JSON")
            ELSE existing

--------------------------------------------------------------------------------
(* Inference and extraction *)

\* What SniffScalarKind tells apart, null and object included.  "huge" is an
\* integer beyond BIGINT, "far_date" a date beyond TIMESTAMP.
Kinds == {"null", "bool", "int", "huge", "real", "date", "far_date", "timestamp", "string", "object"}
Paths == [depth : Nat, kind : Kinds]

SniffScalarKind(k) ==
    CASE k = "bool" -> "BOOLEAN"
      [] k = "int" -> "BIGINT"
      [] k \in {"huge", "real"} -> "DOUBLE"
      [] k \in {"date", "far_date"} -> "DATE"
      [] k = "timestamp" -> "TIMESTAMP"
      [] OTHER -> "VARCHAR"

\* JoinScalarKinds of all the kinds that met in one node.
JoinScalarKinds(K) ==
    IF \E b \in K : K = {b} THEN CHOOSE b \in K : K = {b}
    ELSE IF \A b \in K : IsNumeric(b) THEN "DOUBLE"
    ELSE IF \A b \in K : IsTemporal(b) THEN "TIMESTAMP"
    ELSE "VARCHAR"

\* MergeValue of all the values of a column into one node, then NodeToType.
\* Down to level d the node is an array; there it is unset, a scalar, or an
\* object or a mixture, which is kept as JSON together with the array it is in.
InferType(S) ==
    LET solid == {v \in S : v.kind # "null"}
        d == IF solid # {} THEN Min({v.depth : v \in solid}) ELSE Max({v.depth : v \in S})
        here == {v \in solid : v.depth = d}
        deeper == {v \in S : v.depth > d}
    IN IF here = {} THEN LIST(d, "VARCHAR")
       ELSE IF deeper = {} /\ \A v \in here : v.kind # "object"
       THEN LIST(d, JoinScalarKinds({SniffScalarKind(v.kind) : v \in here}))
       ELSE LIST(IF d = 0 THEN 0 ELSE d - 1, "JSON")

\* The types FillVector can write without a cast.
RawFillSupported(t) == t.base \in InferredBases

\* FillVector on a scalar that is not null and a base type that is neither
\* VARCHAR nor JSON.
FillsScalar(b, k) ==
    \/ b = "BOOLEAN" /\ k = "bool"
    \/ b = "BIGINT" /\ k = "int"
    \/ b = "DOUBLE" /\ k \in {"int", "huge", "real"}
    \/ b = "DATE" /\ k \in {"date", "far_date"}
    \/ b = "TIMESTAMP" /\ k \in {"date", "timestamp"}

\* FillVector keeps the value: it is not turned into NULL.  VARCHAR and JSON
\* render whatever they are given; a LIST needs an array.
FillVector(t, v) ==
    \/ v.kind = "null" /\ v.depth <= t.depth
    \/ v.depth >= t.depth /\ t.base \in {"VARCHAR", "JSON"}
    \/ v.depth = t.depth /\ FillsScalar(t.base, v.kind)

\* A date for which a TIMESTAMP column has no value.
OutOfRange(t, v) == v.depth = t.depth /\ t.base = "TIMESTAMP" /\ v.kind = "far_date"

\* FillVector keeps the value, as far as the type can.
Fits(t, v) == FillVector(t, v) \/ OutOfRange(t, v)
================================================================================
