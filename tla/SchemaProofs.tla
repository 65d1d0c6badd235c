------------------------------ MODULE SchemaProofs ------------------------------
(***************************************************************************)
(* Theorems about SchemaEvolution, for any number of sessions, columns and *)
(* payloads and any nesting depth: first the laws of JoinColumnTypes.      *)
(***************************************************************************)
EXTENDS SchemaEvolution, QueueFacts, FunctionTheorems

--------------------------------------------------------------------------------
(* Types and their joins *)

USE DEF InferredTypes, ColumnTypes, InferredBases, DeclaredBases, Scalars, LIST,
        IsIntegerType, IsPlainScalar, IsNumeric, IsTemporal

\* The join of base types is a join: commutative, associative, idempotent.
LEMMA BasesJoin ==
    ASSUME NEW a \in InferredBases, NEW b \in InferredBases, NEW c \in InferredBases
    PROVE  /\ JoinBases(a, b) \in InferredBases
           /\ JoinBases(a, a) = a
           /\ JoinBases(a, b) = JoinBases(b, a)
           /\ JoinBases(JoinBases(a, b), c) = JoinBases(a, JoinBases(b, c))
  BY DEF JoinBases

\* The inferred types are closed under join.
THEOREM JoinClosed ==
    ASSUME NEW x \in InferredTypes, NEW y \in InferredTypes
    PROVE  JoinColumnTypes(x, y) \in InferredTypes
  BY BasesJoin DEF JoinColumnTypes

\* Which of two batches arrives first does not matter to a column's type.
THEOREM JoinCommutes ==
    ASSUME NEW x \in InferredTypes, NEW y \in InferredTypes
    PROVE  JoinColumnTypes(x, y) = JoinColumnTypes(y, x)
  BY BasesJoin DEF JoinColumnTypes

\* What the join of two inferred types is made of.
LEMMA JoinParts ==
    ASSUME NEW x \in InferredTypes, NEW y \in InferredTypes
    PROVE  /\ x.depth \in Nat /\ x.base \in InferredBases
           /\ x.depth = y.depth => JoinColumnTypes(x, y) = [depth |-> x.depth, base |-> JoinBases(x.base, y.base)]
           /\ x.depth < y.depth => JoinColumnTypes(x, y) = [depth |-> x.depth, base |-> "JSON"]
           /\ y.depth < x.depth => JoinColumnTypes(x, y) = [depth |-> y.depth, base |-> "JSON"]
           /\ x.depth <= y.depth => JoinColumnTypes(x, y).depth = x.depth
           /\ y.depth <= x.depth => JoinColumnTypes(x, y).depth = y.depth
  BY DEF JoinColumnTypes

LEMMA JSONAbsorbs ==
    ASSUME NEW b \in InferredBases
    PROVE  JoinBases("JSON", b) = "JSON" /\ JoinBases(b, "JSON") = "JSON"
  BY DEF JoinBases

\* Nor does it matter how a sequence of batches is cut.
THEOREM JoinAssociates ==
    ASSUME NEW x \in InferredTypes, NEW y \in InferredTypes, NEW z \in InferredTypes
    PROVE  JoinColumnTypes(JoinColumnTypes(x, y), z) = JoinColumnTypes(x, JoinColumnTypes(y, z))
  <1> DEFINE xy == JoinColumnTypes(x, y)
             yz == JoinColumnTypes(y, z)
  <1>1. /\ x.depth \in Nat /\ x.base \in InferredBases
        /\ y.depth \in Nat /\ y.base \in InferredBases
        /\ z.depth \in Nat /\ z.base \in InferredBases
        /\ xy \in InferredTypes /\ yz \in InferredTypes
    BY JoinParts, JoinClosed
  <1> HIDE DEF xy, yz
  <1>2. CASE x.depth = y.depth
    <2>1. xy = [depth |-> x.depth, base |-> JoinBases(x.base, y.base)]
      BY <1>2, JoinParts DEF xy
    <2>2. CASE y.depth = z.depth
      <3>1. yz = [depth |-> x.depth, base |-> JoinBases(y.base, z.base)]
        BY <1>2, <2>2, JoinParts DEF yz
      <3>2. JoinColumnTypes(xy, z) = [depth |-> x.depth, base |-> JoinBases(JoinBases(x.base, y.base), z.base)]
        BY <1>1, <1>2, <2>1, <2>2, JoinParts
      <3>3. JoinColumnTypes(x, yz) = [depth |-> x.depth, base |-> JoinBases(x.base, JoinBases(y.base, z.base))]
        BY <1>1, <3>1, JoinParts
      <3> QED BY <1>1, <3>2, <3>3, BasesJoin DEF xy, yz
    <2>3. CASE y.depth < z.depth
      <3>1. yz = [depth |-> x.depth, base |-> "JSON"]
        BY <1>2, <2>3, JoinParts DEF yz
      <3>2. JoinColumnTypes(xy, z) = [depth |-> x.depth, base |-> "JSON"]
        BY <1>1, <1>2, <2>1, <2>3, JoinParts
      <3>3. JoinColumnTypes(x, yz) = [depth |-> x.depth, base |-> "JSON"]
        BY <1>1, <3>1, JoinParts, JSONAbsorbs
      <3> QED BY <3>2, <3>3 DEF xy, yz
    <2>4. CASE z.depth < y.depth
      <3>1. yz = [depth |-> z.depth, base |-> "JSON"]
        BY <2>4, JoinParts DEF yz
      <3>2. JoinColumnTypes(xy, z) = [depth |-> z.depth, base |-> "JSON"]
        BY <1>1, <1>2, <2>1, <2>4, JoinParts
      <3>3. JoinColumnTypes(x, yz) = [depth |-> z.depth, base |-> "JSON"]
        BY <1>1, <1>2, <2>4, <3>1, JoinParts
      <3> QED BY <3>2, <3>3 DEF xy, yz
    <2> QED BY <1>1, <2>2, <2>3, <2>4
  <1>3. CASE x.depth < y.depth
    <2>1. xy = [depth |-> x.depth, base |-> "JSON"]
      BY <1>3, JoinParts DEF xy
    <2>2. CASE x.depth < z.depth
      <3>1. x.depth < yz.depth
        BY <1>1, <1>3, <2>2, JoinParts DEF yz
      <3>2. JoinColumnTypes(xy, z) = [depth |-> x.depth, base |-> "JSON"]
        BY <1>1, <2>1, <2>2, JoinParts
      <3>3. JoinColumnTypes(x, yz) = [depth |-> x.depth, base |-> "JSON"]
        BY <1>1, <3>1, JoinParts
      <3> QED BY <3>2, <3>3 DEF xy, yz
    <2>3. CASE z.depth <= x.depth
      <3>1. yz = [depth |-> z.depth, base |-> "JSON"]
        BY <1>1, <1>3, <2>3, JoinParts DEF yz
      <3>2. JoinColumnTypes(xy, z) = [depth |-> z.depth, base |-> "JSON"]
        BY <1>1, <2>1, <2>3, JoinParts, JSONAbsorbs
      <3>3. JoinColumnTypes(x, yz) = [depth |-> z.depth, base |-> "JSON"]
        BY <1>1, <2>3, <3>1, JoinParts, JSONAbsorbs
      <3> QED BY <3>2, <3>3 DEF xy, yz
    <2> QED BY <1>1, <2>2, <2>3
  <1>4. CASE y.depth < x.depth
    <2>1. xy = [depth |-> y.depth, base |-> "JSON"]
      BY <1>4, JoinParts DEF xy
    <2>2. CASE y.depth <= z.depth
      <3>1. yz.depth = y.depth
        BY <1>1, <2>2, JoinParts DEF yz
      <3>2. JoinColumnTypes(xy, z) = [depth |-> y.depth, base |-> "JSON"]
        BY <1>1, <2>1, <2>2, JoinParts, JSONAbsorbs
      <3>3. JoinColumnTypes(x, yz) = [depth |-> y.depth, base |-> "JSON"]
        BY <1>1, <1>4, <3>1, JoinParts
      <3> QED BY <3>2, <3>3 DEF xy, yz
    <2>3. CASE z.depth < y.depth
      <3>1. yz = [depth |-> z.depth, base |-> "JSON"]
        BY <2>3, JoinParts DEF yz
      <3>2. JoinColumnTypes(xy, z) = [depth |-> z.depth, base |-> "JSON"]
        BY <1>1, <2>1, <2>3, JoinParts
      <3>3. JoinColumnTypes(x, yz) = [depth |-> z.depth, base |-> "JSON"]
        BY <1>1, <1>4, <2>3, <3>1, JoinParts
      <3> QED BY <3>2, <3>3 DEF xy, yz
    <2> QED BY <1>1, <2>2, <2>3
  <1> QED BY <1>1, <1>2, <1>3, <1>4

\* A column that was just widened for a payload needs no further ALTER for it,
\* also when a user declared the column: absorbing the shape is right.
THEOREM JoinAbsorbs ==
    ASSUME NEW x \in ColumnTypes, NEW y \in InferredTypes
    PROVE  JoinColumnTypes(JoinColumnTypes(x, y), y) = JoinColumnTypes(x, y)
  BY DEF JoinColumnTypes, JoinBases

\* A column type, a declared one too, is as wide as itself.
LEMMA SameWidth ==
    ASSUME NEW x \in ColumnTypes
    PROVE  JoinColumnTypes(x, x) = x
  BY DEF JoinColumnTypes, JoinBases

\* A base wider than a is still wider after another join, and one that is wider
\* than JSON, or than a base that is widened to JSON, is so itself.
LEMMA WiderBases ==
    ASSUME NEW a \in DeclaredBases, NEW b \in DeclaredBases, NEW c \in InferredBases
    PROVE  /\ JoinBases(a, b) = b => JoinBases(a, JoinBases(b, c)) = JoinBases(b, c)
           /\ JoinBases(a, "JSON") = "JSON"
           /\ JoinBases(a, b) = b /\ ~(b = "JSON" \/ IsPlainScalar(b)) => a = b
  BY DEF JoinBases

\* A type wider than x is still wider after another payload was joined to it.
LEMMA WiderStill ==
    ASSUME NEW x \in ColumnTypes, NEW y \in ColumnTypes, NEW z \in InferredTypes,
           JoinColumnTypes(x, y) = y
    PROVE  JoinColumnTypes(x, JoinColumnTypes(y, z)) = JoinColumnTypes(y, z)
  <1> DEFINE yz == JoinColumnTypes(y, z)
  <1>1. CASE yz = y
    BY <1>1
  <1>2. CASE y.depth = z.depth
    <2>1. yz = [depth |-> y.depth, base |-> JoinBases(y.base, z.base)]
      BY <1>2 DEF JoinColumnTypes
    <2>2. CASE x.depth = y.depth
      <3>1. JoinBases(x.base, y.base) = y.base
        BY <2>2 DEF JoinColumnTypes
      <3> QED BY <2>1, <2>2, <3>1, WiderBases DEF JoinColumnTypes
    <2>3. CASE x.depth # y.depth
      <3>1. y.base = "JSON" /\ y.depth < x.depth
        BY <2>3 DEF JoinColumnTypes
      <3>2. JoinBases(y.base, z.base) = "JSON"
        BY <3>1, JSONAbsorbs
      <3> QED BY <1>1, <2>1, <3>1, <3>2
    <2> QED BY <2>2, <2>3
  <1>3. CASE y.depth # z.depth /\ yz # y
    <2>1. /\ yz.base = "JSON" /\ yz.depth <= y.depth /\ yz \in ColumnTypes
      BY <1>3 DEF JoinColumnTypes
    <2>2. y.depth <= x.depth
      BY DEF JoinColumnTypes
    <2>3. CASE yz.depth = x.depth
      <3>1. JoinBases(x.base, "JSON") = "JSON"
        BY WiderBases
      <3> QED BY <2>1, <2>3, <3>1 DEF JoinColumnTypes
    <2>4. CASE yz.depth < x.depth
      BY <2>1, <2>4 DEF JoinColumnTypes
    <2> QED BY <2>1, <2>2, <2>3, <2>4
  <1> QED BY <1>1, <1>2, <1>3

\* A value that fits a type still fits after the column was widened, but for a date
\* that a TIMESTAMP cannot hold.
THEOREM JoinKeepsFit ==
    ASSUME NEW x \in InferredTypes, NEW y \in InferredTypes, NEW v \in Paths,
           Fits(x, v)
    PROVE  Fits(JoinColumnTypes(x, y), v)
  BY DEF JoinColumnTypes, JoinBases, Fits, OutOfRange, FillVector, FillsScalar, Paths, Kinds

--------------------------------------------------------------------------------
(* Inference *)

\* A finite, non-empty set of values has a deepest one: otherwise a smallest
\* subset without one would lose nothing by giving up an element.
LEMMA DeepestExists ==
    ASSUME NEW S \in SUBSET Paths, IsFiniteSet(S), S # {}
    PROVE  \E v \in S : \A w \in S : w.depth <= v.depth
  <1> DEFINE Deepest(T, v) == v \in T /\ \A w \in T : w.depth <= v.depth
             Bad == {T \in SUBSET S : T # {} /\ ~\E v \in T : Deepest(T, v)}
  <1>1. SUFFICES ASSUME Bad # {} PROVE FALSE
    OBVIOUS
  <1>2. IsWellFoundedOn(StrictSubsetOrdering(S), SUBSET S)
    BY FS_StrictSubsetOrderingWellFounded, FS_FiniteSubsetsOfFinite
  <1>3. PICK T \in Bad : \A U \in Bad : ~(<<U, T>> \in StrictSubsetOrdering(S))
    <2>1. Bad \subseteq SUBSET S
      OBVIOUS
    <2> HIDE DEF Bad
    <2> QED BY <1>1, <1>2, <2>1, WFMin
  <1>4. PICK x \in T : TRUE
    OBVIOUS
  <1>5. T \ {x} \notin Bad
    BY <1>3, <1>4 DEF StrictSubsetOrdering
  <1>6. CASE T \ {x} = {}
    BY <1>4, <1>6 DEF Paths
  <1>7. CASE T \ {x} # {}
    <2>1. PICK m \in T \ {x} : Deepest(T \ {x}, m)
      BY <1>5, <1>7
    <2>2. x.depth \in Nat /\ m.depth \in Nat /\ \A w \in T : w.depth \in Nat
      BY <1>3, <1>4, <2>1 DEF Paths
    <2>3. Deepest(T, IF m.depth < x.depth THEN x ELSE m)
      BY <1>4, <2>1, <2>2
    <2> QED BY <2>3
  <1> QED BY <1>6, <1>7

\* A non-empty set of values has a least deep one.
LEMMA ShallowestExists ==
    ASSUME NEW S \in SUBSET Paths, S # {}
    PROVE  \E v \in S : \A w \in S : v.depth <= w.depth
  <1> DEFINE D == {v.depth : v \in S}
  <1>1. D \subseteq Nat /\ D # {}
    BY DEF Paths
  <1>2. PICK d \in D : \A e \in D : ~(<<e, d>> \in OpToRel(<, Nat))
    <2> HIDE DEF D
    <2> QED BY <1>1, NatLessThanWellFounded, WFMin
  <1>3. \A e \in D : d <= e
    <2>1. TAKE e \in D
    <2> HIDE DEF D
    <2>2. e \in Nat /\ d \in Nat
      BY <1>1
    <2>3. ~(e < d)
      BY <1>2, <2>2 DEF OpToRel
    <2> QED BY <2>2, <2>3
  <1> QED BY <1>3

\* Inference guarantees that values fit the column type: the comment of FillVector
\* is true of the payload a type was inferred from, at every depth, but for dates out
\* of TIMESTAMP's range that meet timestamps in a column.
THEOREM InferenceFits ==
    ASSUME NEW S \in SUBSET Paths, IsFiniteSet(S), S # {}
    PROVE  /\ InferType(S) \in InferredTypes
           /\ \A v \in S : Fits(InferType(S), v)
  <1> DEFINE solid == {v \in S : v.kind # "null"}
             least == Min({v.depth : v \in solid})
             most == Max({v.depth : v \in S})
             d == IF solid # {} THEN least ELSE most
             here == {v \in solid : v.depth = d}
             deeper == {v \in S : v.depth > d}
  <1>1. \A v \in S : v.depth \in Nat /\ v.kind \in Kinds
    BY DEF Paths
  <1>2. solid # {} => /\ least \in {v.depth : v \in solid}
                      /\ \A v \in solid : least <= v.depth
    <2>1. SUFFICES ASSUME solid # {}
                   PROVE  /\ least \in {v.depth : v \in solid}
                          /\ \A v \in solid : least <= v.depth
      OBVIOUS
    <2>2. PICK m \in solid : \A w \in solid : m.depth <= w.depth
      BY <2>1, ShallowestExists
    <2> DEFINE D == {v.depth : v \in solid}
    <2>3. m.depth \in D /\ \A e \in D : m.depth <= e
      BY <2>2
    <2> HIDE DEF D
    <2>4. Min(D) \in D /\ \A e \in D : Min(D) <= e
      BY <2>3 DEF Min
    <2> QED BY <2>4 DEF D
  <1>3. most \in {v.depth : v \in S} /\ \A v \in S : v.depth <= most
    <2>1. PICK m \in S : \A w \in S : w.depth <= m.depth
      BY DeepestExists
    <2> DEFINE D == {v.depth : v \in S}
    <2>2. m.depth \in D /\ \A e \in D : e <= m.depth
      BY <2>1
    <2>3. D \subseteq Nat
      BY <1>1
    <2> HIDE DEF D
    <2>4. \A e \in D : m.depth >= e
      BY <2>2, <2>3
    <2>5. Max(D) \in D /\ \A e \in D : Max(D) >= e
      BY <2>2, <2>4 DEF Max
    <2>6. \A e \in D : e <= Max(D)
      BY <2>3, <2>5
    <2> QED BY <2>5, <2>6 DEF D
  <1> HIDE DEF least, most
  <1>4. d \in Nat
    BY <1>1, <1>2, <1>3
  <1>5. CASE solid = {}
    <2>1. InferType(S) = [depth |-> d, base |-> "VARCHAR"]
      BY <1>5 DEF InferType, least, most
    <2> QED BY <1>1, <1>3, <1>4, <1>5, <2>1 DEF Fits, FillVector
  <1>6. CASE solid # {} /\ deeper = {} /\ \A v \in here : v.kind # "object"
    <2> DEFINE K == {SniffScalarKind(v.kind) : v \in here}
    <2>1. here # {} /\ (\A v \in solid : v \in here) /\ \A v \in S : v.depth <= d
      BY <1>1, <1>2, <1>4, <1>6
    <2>2. InferType(S) = [depth |-> d, base |-> JoinScalarKinds(K)]
      BY <1>6, <2>1 DEF InferType, least, most
    <2>3. \A v \in here : /\ SniffScalarKind(v.kind) \in K
                          /\ SniffScalarKind(v.kind) \in Scalars
                          /\ FillsScalar(SniffScalarKind(v.kind), v.kind)
                                \/ SniffScalarKind(v.kind) = "VARCHAR"
      BY <1>1, <1>6 DEF SniffScalarKind, FillsScalar, Kinds
    <2>4. JoinScalarKinds(K) \in Scalars
      <3>1. K \subseteq Scalars
        BY <2>3
      <3> HIDE DEF K
      <3> QED BY <3>1 DEF JoinScalarKinds
    <2>5. \A v \in here : \/ FillsScalar(JoinScalarKinds(K), v.kind)
                          \/ JoinScalarKinds(K) = "VARCHAR"
                          \/ JoinScalarKinds(K) = "TIMESTAMP" /\ v.kind = "far_date"
      <3>1. TAKE v \in here
      <3> DEFINE k == SniffScalarKind(v.kind)
      <3>2. k \in K /\ K \subseteq Scalars /\ v.kind \in Kinds
        BY <1>1, <2>3
      <3>3. FillsScalar(k, v.kind) \/ k = "VARCHAR"
        BY <2>3
      <3> HIDE DEF K, k
      <3>4. JoinScalarKinds(K) = k \/ (IsNumeric(k) /\ JoinScalarKinds(K) = "DOUBLE")
              \/ (IsTemporal(k) /\ JoinScalarKinds(K) = "TIMESTAMP") \/ JoinScalarKinds(K) = "VARCHAR"
        BY <3>2 DEF JoinScalarKinds
      <3>5. IsNumeric(k) => FillsScalar("DOUBLE", v.kind)
        BY <3>3 DEF FillsScalar
      <3>6. IsTemporal(k) => FillsScalar("TIMESTAMP", v.kind) \/ v.kind = "far_date"
        BY <3>3 DEF FillsScalar
      <3> QED BY <3>3, <3>4, <3>5, <3>6
    <2> HIDE DEF K
    <2> QED BY <1>1, <1>4, <2>1, <2>2, <2>4, <2>5 DEF Fits, OutOfRange, FillVector
  <1>7. CASE solid # {} /\ ~(deeper = {} /\ \A v \in here : v.kind # "object")
    <2>1. here # {}
      BY <1>1, <1>2, <1>7
    <2>2. InferType(S) = [depth |-> IF d = 0 THEN 0 ELSE d - 1, base |-> "JSON"]
      BY <1>7, <2>1 DEF InferType, least, most
    <2>3. \A v \in S : v.kind # "null" => v.depth >= d
      BY <1>1, <1>2, <1>4, <1>7
    <2> QED BY <1>1, <1>4, <2>2, <2>3 DEF Fits, FillVector
  <1> QED BY <1>5, <1>6, <1>7

HIDE DEF InferredTypes, ColumnTypes, InferredBases, DeclaredBases, Scalars, LIST,
         IsIntegerType, IsPlainScalar, IsNumeric, IsTemporal

--------------------------------------------------------------------------------
(* Schemas *)

\* The type inferred for a column of a payload holds all of its values.
LEMMA PayloadFits ==
    ASSUME NEW p \in Payloads, NEW c \in DOMAIN p
    PROVE  /\ TypeOf(p, c) \in InferredTypes
           /\ \A v \in p[c] : Fits(TypeOf(p, c), v)
           /\ c \in Columns
  <1>1. p[c] \in SUBSET Paths /\ IsFiniteSet(p[c]) /\ p[c] # {}
    BY SchemaAssumption
  <1> QED BY <1>1, InferenceFits DEF TypeOf, Columns

\* A declared column stays within the column types when it is widened.
LEMMA ColumnJoinClosed ==
    ASSUME NEW x \in ColumnTypes, NEW y \in InferredTypes
    PROVE  JoinColumnTypes(x, y) \in ColumnTypes
  BY DEF ColumnTypes, InferredTypes, JoinColumnTypes, JoinBases, LIST,
         DeclaredBases, InferredBases, Scalars

\* A table that was just evolved for a payload, or created from it, fits it.
LEMMA EvolvedFits ==
    ASSUME NEW p \in Payloads, NEW cols, IsSchema(cols)
    PROVE  /\ IsSchema(Evolved(cols, p))
           /\ Evolved(Evolved(cols, p), p) = Evolved(cols, p)
  <1> DEFINE e == Evolved(cols, p)
  <1>1. DOMAIN e = DOMAIN cols \union DOMAIN p
    BY DEF Evolved
  <1>2. \A c \in DOMAIN cols : cols[c] \in ColumnTypes
    BY DEF IsSchema
  <1>3. \A c \in DOMAIN p : TypeOf(p, c) \in InferredTypes /\ TypeOf(p, c) \in ColumnTypes
    BY PayloadFits DEF InferredTypes, ColumnTypes, InferredBases, DeclaredBases
  <1>4. ASSUME NEW c \in DOMAIN e
        PROVE  /\ e[c] \in ColumnTypes
               /\ c \in DOMAIN p => JoinColumnTypes(e[c], TypeOf(p, c)) = e[c]
    <2>1. CASE c \notin DOMAIN cols
      <3>1. e[c] = TypeOf(p, c) /\ c \in DOMAIN p
        BY <1>1, <2>1 DEF Evolved
      <3>2. JoinColumnTypes(TypeOf(p, c), TypeOf(p, c)) = TypeOf(p, c)
        BY <1>3, <3>1 DEF JoinColumnTypes, JoinBases, LIST, InferredTypes
      <3> QED BY <1>3, <3>1, <3>2
    <2>2. CASE c \in DOMAIN cols /\ c \notin DOMAIN p
      BY <1>2, <2>2 DEF Evolved
    <2>3. CASE c \in DOMAIN cols /\ c \in DOMAIN p
      <3>1. e[c] = JoinColumnTypes(cols[c], TypeOf(p, c))
        BY <2>3 DEF Evolved
      <3> QED BY <1>2, <1>3, <2>3, <3>1, ColumnJoinClosed, JoinAbsorbs
    <2> QED BY <2>1, <2>2, <2>3
  <1>5. e \in [DOMAIN e -> ColumnTypes] /\ DOMAIN e \subseteq Columns
    BY <1>1, <1>4, PayloadFits DEF IsSchema, Evolved
  <1>6. Evolved(e, p) = e
    BY <1>1, <1>4, <1>5 DEF Evolved
  <1> QED BY <1>5, <1>6 DEF IsSchema

LEMMA CreatedFits ==
    ASSUME NEW p \in Payloads
    PROVE  /\ IsSchema(SchemaOf(p))
           /\ Evolved(SchemaOf(p), p) = SchemaOf(p)
  <1>1. IsSchema(NoColumns)
    BY DEF IsSchema, NoColumns
  <1>2. Evolved(NoColumns, p) = SchemaOf(p)
    BY DEF Evolved, NoColumns, SchemaOf
  <1> QED BY <1>1, <1>2, EvolvedFits

\* What one payload of a shape needs the others need too, unless they collide.
LEMMA SameShapeSameDelta ==
    ASSUME NEW p \in Payloads, NEW q \in Payloads,
           HashPayloadShape(p) = HashPayloadShape(q), ~Collide(p, q), NEW cols
    PROVE  Evolved(cols, p) = Evolved(cols, q)
  <1>1. SchemaOf(p) = SchemaOf(q)
    BY DEF Collide, HashPayloadShape
  <1>2. DOMAIN p = DOMAIN q /\ \A c \in DOMAIN p : TypeOf(p, c) = TypeOf(q, c)
    BY <1>1 DEF SchemaOf
  <1> QED BY <1>2 DEF Evolved

\* A table that needs no ALTER for a payload keeps all of its values.
LEMMA FittingKeepsValues ==
    ASSUME NEW p \in Payloads, NEW cols, IsSchema(cols), Evolved(cols, p) = cols
    PROVE  DOMAIN p \subseteq DOMAIN cols /\ FillsAll(cols, p)
  <1>1. DOMAIN p \subseteq DOMAIN cols
    BY DEF Evolved
  <1>2. ASSUME NEW c \in DOMAIN p, NEW v \in p[c]
        PROVE  Fits(IF RawFillSupported(cols[c]) THEN cols[c] ELSE TypeOf(p, c), v)
    <2>1. /\ cols[c] \in ColumnTypes
          /\ JoinColumnTypes(cols[c], TypeOf(p, c)) = cols[c]
          /\ TypeOf(p, c) \in InferredTypes
          /\ Fits(TypeOf(p, c), v)
          /\ v \in Paths
      BY <1>1, PayloadFits, SchemaAssumption DEF Evolved, IsSchema
    <2>2. CASE RawFillSupported(cols[c])
      <3>1. cols[c] \in InferredTypes
        BY <2>1, <2>2 DEF RawFillSupported, ColumnTypes, InferredTypes
      <3>2. JoinColumnTypes(TypeOf(p, c), cols[c]) = cols[c]
        BY <2>1, <3>1, JoinCommutes
      <3>3. Fits(cols[c], v)
        BY <2>1, <3>1, <3>2, JoinKeepsFit
      <3> QED BY <2>2, <3>3
    <2> QED BY <2>1, <2>2
  <1> QED BY <1>1, <1>2 DEF FillsAll

--------------------------------------------------------------------------------
(* Type correctness *)

LEMMA NoTableTyped == IsVersion(NoTable) /\ IsSchema(NoColumns)
  BY DEF IsVersion, IsSchema, NoTable, NoColumns

\* A session at work has a payload; nothing else starts work.
WorkInv == \A s \in Sessions : pc[s] \in Working => payload[s] \in Payloads

TypeInv == TypeOK /\ WorkInv

LEMMA TypeInit == Init => TypeInv
  <1> SUFFICES ASSUME Init PROVE TypeInv
    OBVIOUS
  <1>1. IsSchema(origin)
    <2>1. CASE origin = NoColumns
      BY <2>1, NoTableTyped
    <2>2. CASE origin \in Declared
      <3>1. origin \in [DOMAIN origin -> ColumnTypes]
        BY <2>2, SchemaAssumption
      <3>2. DOMAIN origin \subseteq Columns
        BY <2>2 DEF Columns
      <3> QED BY <3>1, <3>2 DEF IsSchema
    <2> QED BY <2>1, <2>2 DEF Init
  <1>2. IsVersion(catalog)
    BY <1>1, NoTableTyped DEF Init, IsVersion
  <1>3. layout = [s \in Sessions |-> NoLayout]
    BY DEF Init
  <1>4. misled \in [Sessions -> BOOLEAN] /\ recycled \in BOOLEAN
    BY DEF Init
  <1>5. WorkInv
    BY DEF Init, WorkInv, Working
  <1>6. /\ DOMAIN layout = Sessions /\ \A s \in Sessions : layout[s].token \in Nat /\ IsSchema(layout[s].types)
        /\ DOMAIN view = Sessions /\ \A s \in Sessions : IsVersion(view[s])
    BY <1>3, NoTableTyped DEF Init, NoLayout
  <1>7. /\ writer = None /\ cache \in [token : Nat, shapes : SUBSET Shapes]
        /\ pc \in [Sessions -> {"idle", "open", "internal"} \union Working]
        /\ payload \in [Sessions -> Payloads \union {NoColumns}]
        /\ held \in [Sessions -> SUBSET Nat]
        /\ batches \in [Sessions -> 0 .. MaxBatches]
        /\ appended \in [Sessions -> SUBSET Batches]
        /\ ingested \subseteq Batches /\ absorbed \subseteq Payloads
        /\ allocated \in Nat /\ started \in 0 .. MaxTxns
    BY SchemaAssumption DEF Init
  <1> QED
    BY <1>1, <1>2, <1>4, <1>5, <1>6, <1>7 DEF TypeInv, TypeOK

LEMMA ResetTyped ==
    ASSUME TypeInv, NEW s \in Sessions, NEW where \in {"idle", "open"}, NEW v, IsVersion(v),
           Reset(s, where, v)
    PROVE  /\ pc' \in [Sessions -> {"idle", "open", "internal"} \union Working]
           /\ payload' \in [Sessions -> Payloads \union {NoColumns}]
           /\ DOMAIN view' = Sessions /\ \A r \in Sessions : IsVersion(view'[r])
           /\ held' \in [Sessions -> SUBSET Nat]
           /\ DOMAIN layout' = Sessions /\ \A r \in Sessions :
                  layout'[r].token \in Nat /\ IsSchema(layout'[r].types)
           /\ batches' \in [Sessions -> 0 .. MaxBatches]
           /\ appended' \in [Sessions -> SUBSET Batches]
           /\ misled' \in [Sessions -> BOOLEAN]
           /\ WorkInv'
           /\ pc'[s] = where /\ \A r \in Sessions \ {s} : pc'[r] = pc[r]
  <1>1. pc' \in [Sessions -> {"idle", "open", "internal"} \union Working]
    BY DEF TypeInv, TypeOK, Reset
  <1>2. v.token \in Nat
    BY DEF IsVersion
  <1>3. DOMAIN view' = Sessions /\ \A r \in Sessions : IsVersion(view'[r])
    BY DEF TypeInv, TypeOK, Reset
  <1>4. DOMAIN layout' = Sessions /\ \A r \in Sessions :
            layout'[r].token \in Nat /\ IsSchema(layout'[r].types)
    BY NoTableTyped DEF TypeInv, TypeOK, Reset, NoLayout
  <1>5. held' \in [Sessions -> SUBSET Nat]
    BY <1>2 DEF TypeInv, TypeOK, Reset
  <1>6. batches' \in [Sessions -> 0 .. MaxBatches]
    BY SchemaAssumption DEF TypeInv, TypeOK, Reset
  <1>7. WorkInv'
    BY DEF TypeInv, TypeOK, WorkInv, Working, Reset
  <1> QED
    BY <1>1, <1>3, <1>4, <1>5, <1>6, <1>7 DEF TypeInv, TypeOK, Reset

LEMMA RollbackTyped ==
    ASSUME TypeInv, NEW s \in Sessions, Rollback(s)
    PROVE  TypeInv'
  <1>1. Reset(s, "idle", NoTable) /\ IsVersion(NoTable)
    BY NoTableTyped DEF Rollback
  <1>2. writer' # None => writer' \in Sessions \ {s} /\ pc[writer'] # "idle"
    BY DEF Rollback, TypeInv, TypeOK
  <1> QED
    BY <1>1, <1>2, ResetTyped DEF Rollback, TypeInv, TypeOK, entryVars, historyVars, boundVars

LEMMA NewVersionTyped ==
    ASSUME TypeInv, NEW s \in Sessions, NEW cols, IsSchema(cols), NewVersion(s, cols)
    PROVE  /\ DOMAIN view' = Sessions /\ \A r \in Sessions : IsVersion(view'[r])
           /\ held' \in [Sessions -> SUBSET Nat]
           /\ writer' = s
           /\ recycled' \in BOOLEAN
           /\ allocated' \in Nat
  <1>1. PICK t \in Fresh :
            /\ view' = [view EXCEPT ![s] = [token |-> t, cols |-> cols]]
            /\ held' = [held EXCEPT ![s] = @ \union {t}]
            /\ writer' = s
            /\ recycled' = (recycled \/ t = cache.token)
            /\ allocated' = IF t > allocated THEN t ELSE allocated
    BY DEF NewVersion
  <1>2. t \in Nat
    BY DEF Fresh, TypeInv, TypeOK
  <1>3. IsVersion([token |-> t, cols |-> cols])
    BY <1>2 DEF IsVersion
  <1> QED BY <1>1, <1>2, <1>3 DEF TypeInv, TypeOK

LEMMA TypeStep == TypeInv /\ [Next]_vars => TypeInv'
  <1> SUFFICES ASSUME TypeInv, [Next]_vars PROVE TypeInv'
    OBVIOUS
  <1>1. ASSUME NEW s \in Sessions, Begin(s) PROVE TypeInv'
    <2>1. Reset(s, "open", catalog) /\ IsVersion(catalog)
      BY <1>1 DEF Begin, TypeInv, TypeOK
    <2>2. started' \in 0 .. MaxTxns
      BY <1>1, SchemaAssumption DEF Begin, TypeInv, TypeOK
    <2>3. writer' # None => writer' \in Sessions /\ pc'[writer'] # "idle"
      BY <1>1, <2>1, ResetTyped DEF Begin, TypeInv, TypeOK, tableVars
    <2> QED
      BY <1>1, <2>1, <2>2, <2>3, ResetTyped
      DEF Begin, TypeInv, TypeOK, tableVars, entryVars, historyVars
  <1>2. ASSUME NEW s \in Sessions, NEW p \in Payloads, IngestNative(s, p) PROVE TypeInv'
    <2>1. batches' \in [Sessions -> 0 .. MaxBatches]
      BY <1>2, SchemaAssumption DEF IngestNative, TypeInv, TypeOK
    <2>2. /\ pc' \in [Sessions -> {"idle", "open", "internal"} \union Working]
          /\ pc'[s] # "idle" /\ \A r \in Sessions \ {s} : pc'[r] = pc[r]
      BY <1>2 DEF IngestNative, TypeInv, TypeOK, Working
    <2>3. payload' \in [Sessions -> Payloads \union {NoColumns}] /\ WorkInv'
      BY <1>2, <2>2 DEF IngestNative, TypeInv, TypeOK, WorkInv
    <2>4. misled' \in [Sessions -> BOOLEAN]
      BY <1>2 DEF IngestNative, TypeInv, TypeOK
    <2> QED
      BY <1>2, <2>1, <2>2, <2>3, <2>4
      DEF IngestNative, TypeInv, TypeOK, tableVars, entryVars, seenVars, appendVars, historyVars,
          boundVars
  <1>3. ASSUME NEW s \in Sessions, NEW p \in Payloads, RejectEmpty(s, p) PROVE TypeInv'
    BY <1>3, RollbackTyped DEF RejectEmpty
  <1>4. ASSUME NEW s \in Sessions, Create(s) PROVE TypeInv'
    <2>1. payload[s] \in Payloads
      BY <1>4 DEF Create, TypeInv, WorkInv, Working
    <2>2. NewVersion(s, SchemaOf(payload[s])) /\ IsSchema(SchemaOf(payload[s]))
      BY <1>4, <2>1, CreatedFits DEF Create
    <2> QED
      BY <1>4, <2>1, <2>2, NewVersionTyped
      DEF Create, TypeInv, TypeOK, WorkInv, Working, appendVars, historyVars
  <1>5. ASSUME NEW s \in Sessions, EvolveNothing(s) PROVE TypeInv'
    BY <1>5
    DEF EvolveNothing, TypeInv, TypeOK, WorkInv, Working, tableVars, entryVars, seenVars,
        appendVars, historyVars, boundVars
  <1>6. ASSUME NEW s \in Sessions, EvolveNative(s) PROVE TypeInv'
    <2>1. payload[s] \in Payloads /\ IsSchema(view[s].cols)
      BY <1>6 DEF EvolveNative, TypeInv, TypeOK, WorkInv, Working, IsVersion
    <2>2. /\ NewVersion(s, Evolved(view[s].cols, payload[s]))
          /\ IsSchema(Evolved(view[s].cols, payload[s]))
      BY <1>6, <2>1, EvolvedFits DEF EvolveNative
    <2> QED
      BY <1>6, <2>1, <2>2, NewVersionTyped
      DEF EvolveNative, TypeInv, TypeOK, WorkInv, Working, appendVars, historyVars
  <1>7. ASSUME NEW s \in Sessions, Absorb(s) PROVE TypeInv'
    <2>1. payload[s] \in Payloads /\ view[s].token \in Nat
      BY <1>7 DEF Absorb, TypeInv, TypeOK, WorkInv, Working, IsVersion
    <2>2. cache' \in [token : Nat, shapes : SUBSET Shapes]
      BY <1>7, <2>1 DEF Absorb, TypeInv, TypeOK, Shapes
    <2>3. absorbed' \subseteq Payloads /\ recycled' \in BOOLEAN
      BY <1>7, <2>1 DEF Absorb, TypeInv, TypeOK
    <2> QED
      BY <1>7, <2>2, <2>3
      DEF Absorb, TypeInv, TypeOK, WorkInv, Working, tableVars, seenVars, appendVars,
          historyVars, boundVars
  <1>8. ASSUME NEW s \in Sessions, AppendNative(s) PROVE TypeInv'
    <2> DEFINE l == ResolveAppendLayout(s)
    <2>1. payload[s] \in Payloads
      BY <1>8 DEF AppendNative, TypeInv, WorkInv, Working
    <2>2. l.token \in Nat /\ IsSchema(l.types)
      BY DEF ResolveAppendLayout, TypeInv, TypeOK, IsVersion
    <2> HIDE DEF l
    <2>4. /\ pc' \in [Sessions -> {"idle", "open", "internal"} \union Working]
          /\ pc'[s] \in {"open", "internal"} /\ \A r \in Sessions \ {s} : pc'[r] = pc[r]
      BY <1>8 DEF AppendNative, TypeInv, TypeOK
    <2>5. WorkInv'
      BY <1>8, <2>4 DEF AppendNative, TypeInv, WorkInv, Working
    <2>6. DOMAIN layout' = Sessions /\ \A r \in Sessions :
              layout'[r].token \in Nat /\ IsSchema(layout'[r].types)
      <3>1. layout' = layout \/ layout' = [layout EXCEPT ![s] = l]
        BY <1>8 DEF AppendNative, l
      <3> QED BY <2>2, <3>1 DEF TypeInv, TypeOK
    <2>7. appended' \in [Sessions -> SUBSET Batches]
      <3> DEFINE b == [payload |-> payload[s], misled |-> misled[s],
                       whole |-> FillsAll(l.types, payload[s])]
      <3>1. misled[s] \in BOOLEAN /\ FillsAll(l.types, payload[s]) \in BOOLEAN
        BY DEF TypeInv, TypeOK, FillsAll
      <3>2. b \in Batches
        BY <2>1, <3>1 DEF Batches
      <3>3. appended' = appended \/ appended' = [appended EXCEPT ![s] = @ \union {b}]
        BY <1>8 DEF AppendNative, l
      <3> QED BY <3>2, <3>3 DEF TypeInv, TypeOK
    <2> QED
      BY <1>8, <2>4, <2>5, <2>6, <2>7
      DEF AppendNative, TypeInv, TypeOK, tableVars, entryVars, seenVars, historyVars, boundVars
  <1>9. ASSUME NEW s \in Sessions, Fail(s) PROVE TypeInv'
    BY <1>9, RollbackTyped DEF Fail
  <1>10. ASSUME NEW s \in Sessions, Commit(s) PROVE TypeInv'
    <2>1. Reset(s, "idle", NoTable) /\ IsVersion(NoTable)
      BY <1>10, NoTableTyped DEF Commit
    <2>2. writer' # None => writer' \in Sessions \ {s} /\ pc[writer'] # "idle"
      BY <1>10 DEF Commit, TypeInv, TypeOK
    <2>3. IsVersion(catalog') /\ ingested' \subseteq Batches
      BY <1>10 DEF Commit, TypeInv, TypeOK
    <2> QED
      BY <1>10, <2>1, <2>2, <2>3, ResetTyped DEF Commit, TypeInv, TypeOK, entryVars, boundVars
  <1>11. ASSUME DropTable PROVE TypeInv'
    BY <1>11, NoTableTyped, SchemaAssumption
    DEF DropTable, TypeInv, TypeOK, WorkInv, entryVars, txnVars, seenVars, appendVars
  <1>12. ASSUME UNCHANGED vars PROVE TypeInv'
    BY <1>12
    DEF vars, TypeInv, TypeOK, WorkInv, tableVars, entryVars, txnVars, seenVars, appendVars,
        historyVars, boundVars
  <1> QED
    BY <1>1, <1>2, <1>3, <1>4, <1>5, <1>6, <1>7, <1>8, <1>9, <1>10, <1>11, <1>12 DEF Next

\* Type correctness of schema evolution; a session with an uncommitted CREATE or
\* ALTER is always inside a transaction.
THEOREM SchemaTypeCorrect == Spec => []TypeOK
  <1>1. TypeInv => TypeOK
    BY DEF TypeInv
  <1> QED BY <1>1, TypeInit, TypeStep, PTL DEF Spec

--------------------------------------------------------------------------------
(* The cache *)

AllVersions == Versions \union {NoTable}

\* A token stands for one version, and a transaction holds on to what it sees.
VersionInv ==
    /\ \A v, w \in AllVersions : v.token = w.token => v = w
    /\ \A s \in Sessions : {view[s].token, layout[s].token} \subseteq held[s] \union {0}

\* What a session relies on between its look at the schema and its append.
FitInv ==
    /\ \A s \in Sessions :
        /\ pc[s] \in {"evolve", "absorb", "append"} => view[s] # NoTable
        /\ pc[s] = "append" => misled[s] \/ Evolved(view[s].cols, payload[s]) = view[s].cols
        /\ pc[s] = "absorb" => Evolved(view[s].cols, payload[s]) = view[s].cols
        /\ pc[s] \in {"create", "evolve", "absorb"} => ~misled[s]
        /\ view[s] # NoTable /\ layout[s].token = view[s].token => layout[s].types = view[s].cols
        /\ \A b \in appended[s] : b.whole \/ b.misled
        /\ pc[s] = "internal" => misled[s]
    /\ \A b \in ingested : b.whole \/ b.misled

SafeInv == TypeInv /\ VersionInv /\ FitInv /\ CacheSound

\* A step that brings no new version and leaves the cache alone.
LEMMA OldVersions ==
    ASSUME CacheSound, AllVersions' \subseteq AllVersions, UNCHANGED entryVars
    PROVE  CacheSound'
  <1>1. \A v \in Versions' : v # NoTable => v \in Versions
    BY DEF AllVersions
  <1>2. \A p \in Payloads : Suspect(p) => Suspect(p)'
    BY DEF Suspect, entryVars
  <1> QED BY <1>1, <1>2 DEF CacheSound, entryVars

\* A session is reset to no table or to the committed version.
LEMMA ResetSafe ==
    ASSUME SafeInv, NEW s \in Sessions, NEW where \in {"idle", "open"}, NEW v \in AllVersions,
           Reset(s, where, v), catalog' \in AllVersions, UNCHANGED entryVars,
           ingested' \in {ingested, ingested \union appended[s]}
    PROVE  VersionInv' /\ FitInv' /\ CacheSound'
  <1>1. /\ view'[s] = v /\ \A r \in Sessions \ {s} : view'[r] = view[r] /\ held'[r] = held[r]
        /\ pc'[s] = where /\ \A r \in Sessions \ {s} : pc'[r] = pc[r] /\ payload'[r] = payload[r]
        /\ layout'[s] = NoLayout /\ \A r \in Sessions \ {s} : layout'[r] = layout[r]
        /\ appended'[s] = {} /\ \A r \in Sessions \ {s} : appended'[r] = appended[r]
        /\ held'[s] = {v.token} /\ \A r \in Sessions \ {s} : misled'[r] = misled[r]
    BY DEF SafeInv, TypeInv, TypeOK, Reset
  <1>2. AllVersions' \subseteq AllVersions
    BY <1>1 DEF AllVersions, Versions
  <1>3. NoLayout.token = 0
    BY DEF NoLayout
  <1>4. VersionInv'
    BY <1>1, <1>2, <1>3 DEF SafeInv, VersionInv
  <1>5. CacheSound'
    BY <1>2, OldVersions DEF SafeInv
  <1>6. v.token = 0 => v = NoTable
    <2>1. NoTable \in AllVersions /\ NoTable.token = 0
      BY DEF AllVersions, NoTable
    <2> QED BY <2>1 DEF SafeInv, VersionInv
  <1>7. \A b \in ingested' : b.whole \/ b.misled
    BY DEF SafeInv, FitInv
  <1>8. FitInv'
    BY <1>1, <1>3, <1>6, <1>7 DEF SafeInv, FitInv
  <1> QED BY <1>4, <1>5, <1>8

LEMMA RollbackSafe ==
    ASSUME SafeInv, NEW s \in Sessions, Rollback(s)
    PROVE  VersionInv' /\ FitInv' /\ CacheSound'
  <1>1. /\ Reset(s, "idle", NoTable) /\ NoTable \in AllVersions /\ catalog' \in AllVersions
        /\ UNCHANGED entryVars /\ ingested' = ingested
    BY DEF Rollback, AllVersions, Versions, historyVars
  <1> QED BY <1>1, ResetSafe

\* A new version has a token that nothing refers to.  It may be the cache's: then
\* the entry is suspect.
LEMMA NewVersionSafe ==
    ASSUME SafeInv, NEW s \in Sessions, NEW cols, NewVersion(s, cols),
           catalog' = catalog, cache' = cache, absorbed' = absorbed, layout' = layout
    PROVE  /\ VersionInv' /\ CacheSound'
           /\ view'[s].cols = cols /\ view'[s] # NoTable
           /\ layout[s].token # view'[s].token
           /\ \A r \in Sessions \ {s} : view'[r] = view[r]
  <1>1. PICK t \in Fresh :
            /\ view' = [view EXCEPT ![s] = [token |-> t, cols |-> cols]]
            /\ held' = [held EXCEPT ![s] = @ \union {t}]
            /\ recycled' = (recycled \/ t = cache.token)
    BY DEF NewVersion
  <1> DEFINE n == [token |-> t, cols |-> cols]
  <1>2. t # 0 /\ t # catalog.token /\ \A r \in Sessions : t \notin held[r]
    BY DEF Fresh, Live
  <1>3. /\ view'[s] = n /\ \A r \in Sessions \ {s} : view'[r] = view[r] /\ held'[r] = held[r]
        /\ held'[s] = held[s] \union {t}
    BY <1>1 DEF SafeInv, TypeInv, TypeOK
  <1>4. Versions' \subseteq Versions \union {n}
    BY <1>3 DEF Versions
  <1>5. n.token = t /\ n.cols = cols
    OBVIOUS
  <1> HIDE DEF n
  <1>6. \A r \in Sessions : view[r].token # t /\ layout[r].token # t
    BY <1>2 DEF SafeInv, VersionInv
  <1>7. \A v \in AllVersions : v.token # t
    BY <1>2, <1>6 DEF AllVersions, Versions, NoTable
  <1>8. AllVersions' \subseteq AllVersions \union {n}
    BY <1>4 DEF AllVersions
  <1>9. \A v, w \in AllVersions' : v.token = w.token => v = w
    BY <1>5, <1>7, <1>8 DEF SafeInv, VersionInv
  <1>10. \A r \in Sessions : {view'[r].token, layout'[r].token} \subseteq held'[r] \union {0}
    BY <1>3, <1>5 DEF SafeInv, VersionInv
  <1>11. VersionInv'
    BY <1>9, <1>10 DEF VersionInv
  <1>12. CacheSound'
    <2> SUFFICES ASSUME NEW v \in Versions', NEW p \in Payloads,
                        v # NoTable, v.token = cache.token,
                        HashPayloadShape(p) \in cache.shapes, Evolved(v.cols, p) # v.cols
                 PROVE  Suspect(p)'
      BY DEF CacheSound
    <2>1. CASE v = n
      BY <1>1, <1>5, <2>1 DEF Suspect
    <2>2. CASE v \in Versions
      <3>1. Suspect(p)
        BY <2>2 DEF SafeInv, CacheSound
      <3> QED BY <1>1, <3>1 DEF Suspect
    <2> QED BY <1>4, <2>1, <2>2
  <1>13. n # NoTable
    BY <1>2, <1>5 DEF NoTable
  <1> QED BY <1>3, <1>5, <1>6, <1>11, <1>12, <1>13

LEMMA SafeInit == Init => SafeInv
  <1> SUFFICES ASSUME Init PROVE SafeInv
    OBVIOUS
  <1>1. TypeInv
    BY TypeInit
  <1>2. AllVersions \subseteq {NoTable, [token |-> 1, cols |-> origin]}
    BY DEF Init, AllVersions, Versions
  <1>3. VersionInv
    <2>1. \A v, w \in AllVersions : v.token = w.token => v = w
      BY <1>2 DEF NoTable
    <2>2. \A s \in Sessions : view[s].token = 0 /\ layout[s].token = 0
      BY DEF Init, NoTable, NoLayout
    <2> QED BY <2>1, <2>2 DEF VersionInv
  <1>4. FitInv
    BY DEF Init, FitInv
  <1>5. CacheSound
    BY DEF Init, CacheSound
  <1> QED BY <1>1, <1>3, <1>4, <1>5 DEF SafeInv

LEMMA SafeStep == SafeInv /\ [Next]_vars => SafeInv'
  <1> SUFFICES ASSUME SafeInv, [Next]_vars PROVE SafeInv'
    OBVIOUS
  <1> DEFINE Rest == VersionInv' /\ FitInv' /\ CacheSound'
  <1>t. TypeInv'
    BY TypeStep DEF SafeInv
  <1>v. catalog \in AllVersions /\ NoTable \in AllVersions /\ \A s \in Sessions : view[s] \in AllVersions
    BY DEF AllVersions, Versions
  <1>w. \A s \in Sessions : pc[s] \in Working => payload[s] \in Payloads
    BY DEF SafeInv, TypeInv, WorkInv
  <1>c. \A s \in Sessions : IsVersion(view[s]) /\ IsSchema(view[s].cols)
    BY DEF SafeInv, TypeInv, TypeOK, IsVersion
  <1>1. ASSUME NEW s \in Sessions, Begin(s) PROVE Rest
    <2>1. /\ Reset(s, "open", catalog) /\ catalog' \in AllVersions
          /\ UNCHANGED entryVars /\ ingested' = ingested
      BY <1>1, <1>v DEF Begin, tableVars, historyVars
    <2> QED BY <2>1, <1>v, ResetSafe
  <1>2. ASSUME NEW s \in Sessions, NEW p \in Payloads, IngestNative(s, p) PROVE Rest
    <2>1. /\ AllVersions' = AllVersions /\ UNCHANGED entryVars
          /\ layout' = layout /\ view' = view /\ held' = held /\ appended' = appended /\ ingested' = ingested
      BY <1>2
      DEF IngestNative, AllVersions, Versions, tableVars, seenVars, appendVars, historyVars
    <2>2. VersionInv' /\ CacheSound'
      <3>1. VersionInv'
        BY <2>1 DEF SafeInv, VersionInv
      <3> QED BY <2>1, <3>1, OldVersions DEF SafeInv
    <2>3. /\ payload'[s] = p
          /\ pc'[s] \in {"open", "create", "append", "evolve"}
          /\ pc'[s] = "append" => view[s] # NoTable /\ Absorbed(s, p)
          /\ pc'[s] = "evolve" => view[s] # NoTable
          /\ \A r \in Sessions \ {s} : pc'[r] = pc[r] /\ payload'[r] = payload[r]
      BY <1>2 DEF IngestNative, SafeInv, TypeInv, TypeOK
    <2>4. /\ misled'[s] <=> /\ pc'[s] = "append"
                            /\ Evolved(view[s].cols, p) # view[s].cols
                            /\ Suspect(p)
          /\ \A r \in Sessions \ {s} : misled'[r] = misled[r]
      BY <1>2 DEF IngestNative, SafeInv, TypeInv, TypeOK
    <2>5. pc'[s] = "append" => misled'[s] \/ Evolved(view[s].cols, p) = view[s].cols
      BY <2>3, <2>4 DEF SafeInv, CacheSound, Absorbed, Versions
    <2>6. FitInv'
      <3> SUFFICES ASSUME NEW r \in Sessions
                   PROVE  /\ pc'[r] \in {"evolve", "absorb", "append"} => view[r] # NoTable
                          /\ pc'[r] = "append" => misled'[r] \/ Evolved(view[r].cols, payload'[r]) = view[r].cols
                          /\ pc'[r] = "absorb" => Evolved(view[r].cols, payload'[r]) = view[r].cols
                          /\ pc'[r] \in {"create", "evolve", "absorb"} => ~misled'[r]
                          /\ pc'[r] = "internal" => misled'[r]
        BY <2>1 DEF SafeInv, FitInv
      <3>1. CASE r = s
        BY <2>3, <2>4, <2>5, <3>1
      <3>2. CASE r # s
        BY <2>3, <2>4, <3>2 DEF SafeInv, FitInv
      <3> QED BY <3>1, <3>2
    <2> QED BY <2>2, <2>6
  <1>3. ASSUME NEW s \in Sessions, NEW p \in Payloads, RejectEmpty(s, p) PROVE Rest
    BY <1>3, RollbackSafe DEF RejectEmpty
  <1>4. ASSUME NEW s \in Sessions, Create(s) PROVE Rest
    <2>1. payload[s] \in Payloads
      BY <1>4, <1>w DEF Create, Working
    <2>2. /\ NewVersion(s, SchemaOf(payload[s]))
          /\ catalog' = catalog /\ cache' = cache /\ absorbed' = absorbed /\ layout' = layout
          /\ payload' = payload /\ appended' = appended /\ ingested' = ingested /\ misled' = misled
          /\ pc'[s] = "append" /\ \A r \in Sessions \ {s} : pc'[r] = pc[r]
      BY <1>4 DEF Create, SafeInv, TypeInv, TypeOK, appendVars, historyVars
    <2>3. Evolved(view'[s].cols, payload[s]) = view'[s].cols
      BY <2>1, <2>2, NewVersionSafe, CreatedFits
    <2>4. FitInv'
      BY <2>2, <2>3, NewVersionSafe DEF SafeInv, FitInv
    <2> QED BY <2>2, <2>4, NewVersionSafe
  <1>5. ASSUME NEW s \in Sessions, EvolveNothing(s) PROVE Rest
    <2>1. /\ AllVersions' = AllVersions /\ UNCHANGED entryVars
          /\ layout' = layout /\ view' = view /\ held' = held /\ appended' = appended /\ ingested' = ingested
          /\ payload' = payload /\ misled' = misled
      BY <1>5
      DEF EvolveNothing, AllVersions, Versions, tableVars, seenVars, appendVars, historyVars
    <2>2. VersionInv'
      BY <2>1 DEF SafeInv, VersionInv
    <2>3. CacheSound'
      BY <2>1, OldVersions DEF SafeInv
    <2>4. FitInv'
      BY <1>5, <2>1 DEF EvolveNothing, SafeInv, FitInv, TypeInv, TypeOK
    <2> QED BY <2>2, <2>3, <2>4
  <1>6. ASSUME NEW s \in Sessions, EvolveNative(s) PROVE Rest
    <2>1. payload[s] \in Payloads
      BY <1>6, <1>w DEF EvolveNative, Working
    <2>2. /\ NewVersion(s, Evolved(view[s].cols, payload[s]))
          /\ catalog' = catalog /\ cache' = cache /\ absorbed' = absorbed /\ layout' = layout
          /\ payload' = payload /\ appended' = appended /\ ingested' = ingested /\ misled' = misled
          /\ pc[s] = "evolve"
          /\ pc'[s] = "absorb" /\ \A r \in Sessions \ {s} : pc'[r] = pc[r]
      BY <1>6 DEF EvolveNative, SafeInv, TypeInv, TypeOK, appendVars, historyVars
    <2>3. Evolved(view'[s].cols, payload[s]) = view'[s].cols
      BY <2>1, <2>2, <1>c, NewVersionSafe, EvolvedFits
    <2>4. FitInv'
      BY <2>2, <2>3, NewVersionSafe DEF SafeInv, FitInv
    <2> QED BY <2>2, <2>4, NewVersionSafe
  <1>7. ASSUME NEW s \in Sessions, Absorb(s) PROVE Rest
    <2> DEFINE h == HashPayloadShape(payload[s])
    <2>1. payload[s] \in Payloads /\ view[s] # NoTable
            /\ Evolved(view[s].cols, payload[s]) = view[s].cols
      BY <1>7, <1>w DEF Absorb, Working, SafeInv, FitInv
    <2>2. /\ Versions' = Versions /\ AllVersions' = AllVersions
          /\ layout' = layout /\ view' = view /\ held' = held /\ appended' = appended /\ ingested' = ingested
          /\ payload' = payload /\ misled' = misled
          /\ pc[s] = "absorb"
          /\ pc'[s] = "append" /\ \A r \in Sessions \ {s} : pc'[r] = pc[r]
      BY <1>7
      DEF Absorb, AllVersions, Versions, SafeInv, TypeInv, TypeOK, tableVars, seenVars, appendVars,
          historyVars
    <2>3. /\ cache'.token = view[s].token
          /\ \A k \in cache'.shapes : k = h \/ (cache.token = view[s].token /\ k \in cache.shapes)
          /\ payload[s] \in absorbed'
          /\ cache.token = view[s].token => absorbed \subseteq absorbed' /\ recycled' = recycled
      BY <1>7 DEF Absorb, SafeInv, TypeInv, TypeOK
    <2>4. VersionInv'
      BY <2>2 DEF SafeInv, VersionInv
    <2>5. CacheSound'
      <3>1. SUFFICES ASSUME NEW v \in Versions, NEW q \in Payloads,
                            v # NoTable, v.token = view[s].token, HashPayloadShape(q) \in cache'.shapes,
                            Evolved(v.cols, q) # v.cols
                     PROVE  Suspect(q)'
        BY <2>2, <2>3 DEF CacheSound
      <3>2. v = view[s]
        BY <3>1, <1>v DEF SafeInv, VersionInv, AllVersions
      <3>3. CASE HashPayloadShape(q) = h
        <4>1. Collide(q, payload[s])
          BY <2>1, <3>1, <3>2, <3>3, SameShapeSameDelta
        <4> QED BY <2>3, <4>1 DEF Suspect
      <3>4. CASE cache.token = view[s].token /\ HashPayloadShape(q) \in cache.shapes
        <4>1. Suspect(q)
          BY <3>1, <3>4 DEF SafeInv, CacheSound
        <4> QED BY <2>3, <3>4, <4>1 DEF Suspect
      <3> QED BY <2>3, <3>1, <3>3, <3>4
    <2>6. FitInv'
      BY <2>1, <2>2 DEF SafeInv, FitInv
    <2> QED BY <2>4, <2>5, <2>6
  <1>8. ASSUME NEW s \in Sessions, AppendNative(s) PROVE Rest
    <2> DEFINE l == ResolveAppendLayout(s)
               b == [payload |-> payload[s], misled |-> misled[s], whole |-> FillsAll(l.types, payload[s])]
    <2>1. payload[s] \in Payloads /\ view[s] # NoTable
            /\ (misled[s] \/ Evolved(view[s].cols, payload[s]) = view[s].cols)
      BY <1>8, <1>w DEF AppendNative, Working, SafeInv, FitInv
    <2>2. l.types = view[s].cols /\ l.token = view[s].token
      BY <2>1 DEF ResolveAppendLayout, SafeInv, FitInv
    <2>3. misled[s] \/ (DOMAIN payload[s] \subseteq DOMAIN l.types /\ FillsAll(l.types, payload[s]))
      BY <2>1, <2>2, <1>c, FittingKeepsValues
    <2>b. b.whole \/ b.misled
      BY <2>3
    <2> HIDE DEF l, b
    <2>4. /\ AllVersions' = AllVersions /\ UNCHANGED entryVars
          /\ view' = view /\ held' = held /\ ingested' = ingested /\ payload' = payload /\ misled' = misled
      BY <1>8
      DEF AppendNative, AllVersions, Versions, tableVars, seenVars, historyVars
    <2>5. /\ pc'[s] = "open" \/ (pc'[s] = "internal" /\ misled[s])
          /\ layout'[s] \in {l, layout[s]}
          /\ \A r \in Sessions \ {s} : pc'[r] = pc[r] /\ layout'[r] = layout[r]
      BY <1>8, <2>3 DEF AppendNative, l, SafeInv, TypeInv, TypeOK
    <2>6. \A r \in Sessions : appended'[r] \subseteq appended[r] \union {b}
      <3>1. appended' = appended \/ appended' = [appended EXCEPT ![s] = @ \union {b}]
        BY <1>8 DEF AppendNative, l, b
      <3> QED BY <3>1 DEF SafeInv, TypeInv, TypeOK
    <2>7. VersionInv'
      BY <2>2, <2>4, <2>5 DEF SafeInv, VersionInv
    <2>8. CacheSound'
      BY <2>4, OldVersions DEF SafeInv
    <2>9. FitInv'
      <3>1. \A r \in Sessions : \A x \in appended'[r] : x.whole \/ x.misled
        BY <2>b, <2>6 DEF SafeInv, FitInv
      <3> QED BY <2>2, <2>4, <2>5, <3>1 DEF SafeInv, FitInv
    <2> QED BY <2>7, <2>8, <2>9
  <1>9. ASSUME NEW s \in Sessions, Fail(s) PROVE Rest
    BY <1>9, RollbackSafe DEF Fail
  <1>10. ASSUME NEW s \in Sessions, Commit(s) PROVE Rest
    <2>1. /\ Reset(s, "idle", NoTable) /\ catalog' \in AllVersions
          /\ UNCHANGED entryVars /\ ingested' = ingested \union appended[s]
      BY <1>10, <1>v DEF Commit
    <2> QED BY <2>1, <1>v, ResetSafe
  <1>11. ASSUME DropTable PROVE Rest
    <2>1. /\ AllVersions' \subseteq AllVersions /\ UNCHANGED entryVars
          /\ layout' = layout /\ view' = view /\ held' = held /\ appended' = appended /\ ingested' = {}
          /\ payload' = payload /\ pc' = pc /\ misled' = misled
      BY <1>11 DEF DropTable, AllVersions, Versions, txnVars, seenVars, appendVars
    <2>2. VersionInv'
      BY <2>1 DEF SafeInv, VersionInv
    <2>3. CacheSound'
      BY <2>1, OldVersions DEF SafeInv
    <2>4. FitInv'
      BY <2>1 DEF SafeInv, FitInv
    <2> QED BY <2>2, <2>3, <2>4
  <1>12. ASSUME UNCHANGED vars PROVE Rest
    <2>1. /\ AllVersions' = AllVersions /\ UNCHANGED entryVars
          /\ UNCHANGED <<layout, view, held, appended, ingested, payload, pc, misled>>
      BY <1>12
      DEF vars, AllVersions, Versions, tableVars, txnVars, seenVars, appendVars, historyVars
    <2>2. VersionInv'
      BY <2>1 DEF SafeInv, VersionInv
    <2>3. CacheSound'
      BY <2>1, OldVersions DEF SafeInv
    <2>4. FitInv'
      BY <2>1 DEF SafeInv, FitInv
    <2> QED BY <2>2, <2>3, <2>4
  <1> QED
    BY <1>t, <1>1, <1>2, <1>3, <1>4, <1>5, <1>6, <1>7, <1>8, <1>9, <1>10, <1>11, <1>12
    DEF Next, SafeInv

\* A cache entry that validates is right, for any number of sessions that evolve,
\* absorb, roll back and drop in any order, unless its address has come back or the
\* payload collides with an absorbed one: HashPayloadShape and the comparison of
\* addresses give no more.
THEOREM CacheIsSound == Spec => []CacheSound
  <1>1. SafeInv => CacheSound
    BY DEF SafeInv
  <1> QED BY <1>1, SafeInit, SafeStep, PTL DEF Spec

\* Only a batch that such an entry let pass has a value stored as NULL.
THEOREM NoValueLost == Spec => []NothingNulled
  <1>1. SafeInv => NothingNulled
    BY DEF SafeInv, FitInv, NothingNulled
  <1> QED BY <1>1, SafeInit, SafeStep, PTL DEF Spec

\* And only its append finds a column missing after evolution.
THEOREM ColumnsNeverMissing == Spec => []NoInternalError
  <1>1. SafeInv => NoInternalError
    BY DEF SafeInv, FitInv, NoInternalError
  <1> QED BY <1>1, SafeInit, SafeStep, PTL DEF Spec
--------------------------------------------------------------------------------
(* Widening *)

\* Columns b keep what columns a have, as they are or widened.
Widens(a, b) ==
    \A c \in DOMAIN a : c \in DOMAIN b /\ JoinColumnTypes(a[c], b[c]) = b[c]

\* Evolving for a payload widens what was there.
LEMMA EvolvedWidens ==
    ASSUME NEW a, IsSchema(a), NEW b, IsSchema(b), Widens(a, b), NEW p \in Payloads
    PROVE  Widens(a, Evolved(b, p))
  <1> SUFFICES ASSUME NEW c \in DOMAIN a
               PROVE  /\ c \in DOMAIN Evolved(b, p)
                      /\ JoinColumnTypes(a[c], Evolved(b, p)[c]) = Evolved(b, p)[c]
    BY DEF Widens
  <1>1. /\ a[c] \in ColumnTypes /\ c \in DOMAIN b /\ b[c] \in ColumnTypes
        /\ JoinColumnTypes(a[c], b[c]) = b[c]
    BY DEF IsSchema, Widens
  <1>2. c \in DOMAIN Evolved(b, p)
    BY <1>1 DEF Evolved
  <1>3. CASE c \in DOMAIN p
    <2>1. Evolved(b, p)[c] = JoinColumnTypes(b[c], TypeOf(p, c))
      BY <1>1, <1>3 DEF Evolved
    <2>2. TypeOf(p, c) \in InferredTypes
      BY <1>3, PayloadFits
    <2>3. JoinColumnTypes(a[c], JoinColumnTypes(b[c], TypeOf(p, c))) = JoinColumnTypes(b[c], TypeOf(p, c))
      BY <1>1, <2>2, WiderStill
    <2> QED BY <1>2, <2>1, <2>3
  <1>4. CASE c \notin DOMAIN p
    <2>1. Evolved(b, p)[c] = b[c]
      BY <1>1, <1>4 DEF Evolved
    <2> QED BY <1>1, <1>2, <2>1
  <1> QED BY <1>3, <1>4

LEMMA WidensItself ==
    ASSUME NEW a, IsSchema(a)
    PROVE  Widens(a, a)
  BY SameWidth DEF Widens, IsSchema

\* The version a transaction will commit widens the committed one; a table is
\* created only where the transaction sees none.
WriterInv ==
    /\ writer # None /\ catalog # NoTable => Widens(catalog.cols, view[writer].cols)
    /\ \A s \in Sessions : pc[s] = "create" => view[s] = NoTable

LEMMA WriterStep ==
    ASSUME SafeInv, WriterInv, [Next]_vars
    PROVE  WriterInv'
  <1> USE DEF tableVars, entryVars, txnVars, seenVars, appendVars, historyVars, boundVars
  <1>0. /\ DOMAIN view = Sessions
        /\ pc \in [Sessions -> {"idle", "open", "internal"} \union Working]
        /\ writer \in Sessions \union {None} /\ None \notin Sessions
        /\ writer # None => pc[writer] # "idle"
        /\ IsSchema(catalog.cols) /\ \A s \in Sessions : IsSchema(view[s].cols)
    BY SchemaAssumption DEF SafeInv, TypeInv, TypeOK, IsVersion
  <1>1. ASSUME NEW s \in Sessions, NEW where \in {"idle", "open"}, NEW v, Reset(s, where, v)
        PROVE  /\ \A r \in Sessions \ {s} : view'[r] = view[r] /\ pc'[r] = pc[r]
               /\ pc'[s] # "create"
    BY <1>0, <1>1 DEF Reset
  <1>2. ASSUME NEW s \in Sessions, NewVersion(s, Evolved(view[s].cols, payload[s])),
               MayWrite(s), payload[s] \in Payloads, catalog' = catalog,
               pc'[s] # "create", \A r \in Sessions \ {s} : pc'[r] = pc[r]
        PROVE  WriterInv'
    <2>1. /\ view'[s].cols = Evolved(view[s].cols, payload[s]) /\ writer' = s
          /\ \A r \in Sessions \ {s} : view'[r] = view[r]
      BY <1>0, <1>2 DEF NewVersion
    <2>2. catalog # NoTable => Widens(catalog.cols, view[s].cols)
      <3>1. CASE writer = s
        BY <1>0, <3>1 DEF WriterInv
      <3>2. CASE writer = None /\ view[s].token = catalog.token
        <4>1. view[s] = catalog
          BY <3>2 DEF SafeInv, VersionInv, AllVersions, Versions
        <4> QED BY <1>0, <4>1, WidensItself
      <3> QED BY <1>2, <3>1, <3>2 DEF MayWrite
    <2>3. catalog # NoTable => Widens(catalog.cols, view'[s].cols)
      BY <1>0, <1>2, <2>1, <2>2, EvolvedWidens
    <2> QED BY <1>2, <2>1, <2>3 DEF WriterInv
  <1>3. ASSUME NEW s \in Sessions, Rollback(s)
        PROVE  WriterInv'
    BY <1>0, <1>1, <1>3 DEF Rollback, WriterInv
  <1>4. ASSUME NEW s \in Sessions, Begin(s)
        PROVE  WriterInv'
    BY <1>0, <1>1, <1>4 DEF Begin, WriterInv
  <1>5. ASSUME NEW s \in Sessions, NEW p \in Payloads, IngestNative(s, p)
        PROVE  WriterInv'
    BY <1>0, <1>5 DEF IngestNative, WriterInv
  <1>6. ASSUME NEW s \in Sessions, Create(s)
        PROVE  WriterInv'
    <2>1. payload[s] \in Payloads
      BY <1>6 DEF Create, SafeInv, TypeInv, WorkInv, Working
    <2>2. view[s] = NoTable
      BY <1>6 DEF Create, WriterInv
    <2>3. SchemaOf(payload[s]) = Evolved(view[s].cols, payload[s])
      BY <2>2 DEF SchemaOf, Evolved, NoTable, NoColumns
    <2>4. /\ NewVersion(s, Evolved(view[s].cols, payload[s])) /\ MayWrite(s) /\ catalog' = catalog
          /\ pc'[s] # "create" /\ \A r \in Sessions \ {s} : pc'[r] = pc[r]
      BY <1>0, <1>6, <2>3 DEF Create
    <2> QED BY <1>2, <2>1, <2>4
  <1>7. ASSUME NEW s \in Sessions, EvolveNative(s)
        PROVE  WriterInv'
    <2>1. payload[s] \in Payloads
      BY <1>7 DEF EvolveNative, SafeInv, TypeInv, WorkInv, Working
    <2>2. /\ NewVersion(s, Evolved(view[s].cols, payload[s])) /\ MayWrite(s) /\ catalog' = catalog
          /\ pc'[s] # "create" /\ \A r \in Sessions \ {s} : pc'[r] = pc[r]
      BY <1>0, <1>7 DEF EvolveNative
    <2> QED BY <1>2, <2>1, <2>2
  <1>8. ASSUME NEW s \in Sessions, EvolveNothing(s) \/ Absorb(s) \/ AppendNative(s)
        PROVE  WriterInv'
    <2>1. UNCHANGED <<catalog, writer, view>>
      BY <1>8 DEF EvolveNothing, Absorb, AppendNative
    <2>2. \A r \in Sessions : pc'[r] = "create" => pc[r] = "create"
      BY <1>0, <1>8 DEF EvolveNothing, Absorb, AppendNative
    <2> QED BY <2>1, <2>2 DEF WriterInv
  <1>9. ASSUME NEW s \in Sessions, Commit(s)
        PROVE  WriterInv'
    <2>1. /\ \A r \in Sessions \ {s} : view'[r] = view[r] /\ pc'[r] = pc[r]
          /\ pc'[s] # "create"
      BY <1>1, <1>9 DEF Commit
    <2> QED BY <1>0, <1>9, <2>1 DEF Commit, WriterInv
  <1>10. CASE DropTable
    BY <1>10 DEF DropTable, WriterInv
  <1>11. CASE UNCHANGED vars
    BY <1>11 DEF vars, WriterInv
  <1> QED
    BY <1>3, <1>4, <1>5, <1>6, <1>7, <1>8, <1>9, <1>10, <1>11 DEF Next, RejectEmpty, Fail

\* While the table lives no commit takes a column away or narrows one, however
\* many sessions evolve it at once: what a transaction commits it has widened
\* from the version it replaces.
THEOREM ColumnsOnlyWiden == Spec => SchemaOnlyWidens
  <1>1. Init => WriterInv
    BY DEF Init, WriterInv
  <1>2. ASSUME SafeInv, WriterInv, [Next]_vars
        PROVE  [catalog # NoTable /\ catalog' # NoTable => Widens(catalog.cols, catalog'.cols)]_vars
    <2>1. IsSchema(catalog.cols) /\ (writer # None => writer \in Sessions)
      BY <1>2 DEF SafeInv, TypeInv, TypeOK, IsVersion
    <2>2. CASE catalog' = catalog
      BY <2>1, <2>2, WidensItself
    <2>3. ASSUME NEW s \in Sessions, Commit(s), catalog' # catalog
          PROVE  catalog # NoTable => Widens(catalog.cols, catalog'.cols)
      BY <1>2, <2>3, SchemaAssumption DEF Commit, WriterInv
    <2>4. CASE DropTable
      BY <2>4 DEF DropTable
    <2>5. catalog' = catalog \/ DropTable \/ \E s \in Sessions : Commit(s)
      BY <1>2 DEF Next, Begin, Create, EvolveNothing, EvolveNative, Absorb, AppendNative, Fail,
                  Rollback, IngestNative, RejectEmpty, vars, tableVars, txnVars, seenVars,
                  appendVars, historyVars, boundVars
    <2> QED BY <2>2, <2>3, <2>4, <2>5
  <1>3. ASSUME SafeInv, WriterInv, [Next]_vars
        PROVE  [catalog # NoTable /\ catalog' # NoTable =>
                  \A c \in DOMAIN catalog.cols :
                    /\ c \in DOMAIN catalog'.cols
                    /\ JoinColumnTypes(catalog.cols[c], catalog'.cols[c]) = catalog'.cols[c]]_vars
    BY <1>2, <1>3 DEF Widens
  <1> QED BY <1>1, <1>3, WriterStep, SafeInit, SafeStep, PTL DEF Spec, SchemaOnlyWidens

--------------------------------------------------------------------------------
(* Joining all the types of a set *)

\* A set of numbers has a least one.
LEMMA LeastNumber ==
    ASSUME NEW B \in SUBSET Nat, B # {}
    PROVE  \E m \in B : \A x \in B : m <= x
  <1>1. PICK n \in B : TRUE
    OBVIOUS
  <1> DEFINE T == B \intersect (0 .. n)
  <1>2. IsFiniteSet(0 .. n)
    BY FS_Interval
  <1>3. T \in SUBSET Nat /\ IsFiniteSet(T) /\ n \in T
    BY <1>1, <1>2, FS_Subset
  <1>4. PICK m \in T : \A x \in T : m <= x
    BY <1>3, Extremes
  <1>5. \A x \in B : m <= x
    <2> SUFFICES ASSUME NEW x \in B PROVE m <= x
      OBVIOUS
    <2>1. x \in Nat /\ n \in Nat /\ m \in Nat /\ m <= n
      BY <1>3, <1>4
    <2>2. CASE x <= n
      BY <1>4, <2>1, <2>2
    <2> QED BY <2>1, <2>2
  <1> QED BY <1>4, <1>5

\* The element that is joined last.
LastOf(T) == CHOOSE t \in T : TRUE
JoinStep(start, f, T) ==
    IF T = {} THEN start ELSE JoinColumnTypes(f[T \ {LastOf(T)}], LastOf(T))

\* f gives the join of every subset of T.
Folds(start, T, f) == f = [U \in SUBSET T |-> JoinStep(start, f, U)]

\* The recursion of FoldSet has a solution.
LEMMA FoldExists ==
    ASSUME NEW start, NEW T, IsFiniteSet(T)
    PROVE  \E f : Folds(start, T, f)
  <1> DEFINE Small(k) == {U \in SUBSET T : Cardinality(U) <= k}
             FoldsSmall(k, f) == f = [U \in Small(k) |-> JoinStep(start, f, U)]
             Bad == {k \in Nat : ~\E f : FoldsSmall(k, f)}
  <1>1. \A U \in SUBSET T : /\ IsFiniteSet(U) /\ Cardinality(U) \in Nat
                            /\ Cardinality(U) <= Cardinality(T)
                            /\ Cardinality(U) = 0 <=> U = {}
                            /\ \A x \in U : Cardinality(U \ {x}) = Cardinality(U) - 1
    BY FS_Subset, FS_CardinalityType, FS_EmptySet, FS_RemoveElement
  <1>2. 0 \notin Bad
    <2> DEFINE f == [U \in Small(0) |-> start]
    <2>1. Small(0) = {{}}
      BY <1>1
    <2>2. f = [U \in Small(0) |-> JoinStep(start, f, U)]
      BY <2>1 DEF JoinStep
    <2> QED BY <2>2
  <1>3. ASSUME NEW k \in Nat, k \notin Bad PROVE k + 1 \notin Bad
    <2>1. PICK f : FoldsSmall(k, f)
      BY <1>3
    <2> DEFINE g == [U \in Small(k + 1) |-> JoinStep(start, f, U)]
    <2>2. ASSUME NEW U \in Small(k + 1) PROVE JoinStep(start, f, U) = JoinStep(start, g, U)
      <3>1. CASE U = {}
        BY <3>1 DEF JoinStep
      <3>2. CASE U # {}
        <4>1. LastOf(U) \in U
          BY <3>2 DEF LastOf
        <4> DEFINE V == U \ {LastOf(U)}
        <4>2. V \in Small(k) /\ V \in Small(k + 1)
          BY <1>1, <4>1
        <4> HIDE DEF V
        <4>3. f[V] = JoinStep(start, f, V) /\ g[V] = JoinStep(start, f, V)
          BY <2>1, <4>2
        <4> QED BY <3>2, <4>3 DEF JoinStep, V
      <3> QED BY <3>1, <3>2
    <2>3. FoldsSmall(k + 1, g)
      BY <2>2
    <2> QED BY <2>3
  <1>4. Bad = {}
    <2>1. SUFFICES ASSUME Bad # {} PROVE FALSE
      OBVIOUS
    <2>2. PICK n \in Bad : \A m \in Bad : n <= m
      <3>1. Bad \in SUBSET Nat
        OBVIOUS
      <3> HIDE DEF Bad
      <3> QED BY <2>1, <3>1, LeastNumber
    <2>3. n \in Nat /\ n # 0
      BY <1>2
    <2> HIDE DEF Bad
    <2>4. n - 1 \in Nat /\ n - 1 \notin Bad /\ (n - 1) + 1 = n
      BY <2>2, <2>3
    <2> QED BY <1>3, <2>2, <2>4
  <1>5. Cardinality(T) \in Nat /\ Small(Cardinality(T)) = SUBSET T
    BY <1>1
  <1>6. PICK f : FoldsSmall(Cardinality(T), f)
    BY <1>4, <1>5
  <1>7. Folds(start, T, f)
    BY <1>5, <1>6 DEF Folds
  <1> QED BY <1>7

\* JoinAll is it.
LEMMA JoinAllFolds ==
    ASSUME NEW start, NEW T, IsFiniteSet(T)
    PROVE  \E f : Folds(start, T, f) /\ JoinAll(start, T) = f[T]
  <1> DEFINE f == CHOOSE f : f = [U \in SUBSET T |->
                      IF U = {} THEN start
                      ELSE JoinColumnTypes(f[U \ {CHOOSE t \in U : TRUE}], CHOOSE t \in U : TRUE)]
  <1>1. JoinAll(start, T) = f[T]
    BY DEF JoinAll, FoldSet, MapThenFoldSet
  <1>2. f = CHOOSE h : Folds(start, T, h)
    BY DEF Folds, JoinStep, LastOf
  <1> HIDE DEF f
  <1>3. Folds(start, T, f)
    BY <1>2, FoldExists
  <1> QED BY <1>1, <1>3
\* Induction over the subsets of a finite set: a set of them that is not empty has
\* one of which it holds no smaller one.
LEMMA SmallestSubset ==
    ASSUME NEW T, IsFiniteSet(T), NEW B \in SUBSET (SUBSET T), B # {}
    PROVE  \E U \in B : \A x \in U : U \ {x} \notin B
  <1>1. IsWellFoundedOn(StrictSubsetOrdering(T), SUBSET T)
    BY FS_StrictSubsetOrderingWellFounded, FS_FiniteSubsetsOfFinite
  <1>2. PICK U \in B : \A V \in B : ~(<<V, U>> \in StrictSubsetOrdering(T))
    BY <1>1, WFMin
  <1>3. \A x \in U : U \ {x} \in B => <<U \ {x}, U>> \in StrictSubsetOrdering(T)
    BY DEF StrictSubsetOrdering
  <1> QED BY <1>2, <1>3

\* JoinAll unfolded once.
LEMMA JoinAllStep ==
    ASSUME NEW start, NEW T, IsFiniteSet(T)
    PROVE  /\ JoinAll(start, {}) = start
           /\ T # {} => /\ LastOf(T) \in T
                       /\ JoinAll(start, T) = JoinColumnTypes(JoinAll(start, T \ {LastOf(T)}), LastOf(T))
  <1>1. PICK f : Folds(start, T, f) /\ JoinAll(start, T) = f[T]
    BY JoinAllFolds
  <1>2. \A U \in SUBSET T : f[U] = JoinStep(start, f, U)
    BY <1>1 DEF Folds
  <1>3. ASSUME NEW V \in SUBSET T PROVE JoinAll(start, V) = f[V]
    <2>1. IsFiniteSet(V)
      BY FS_Subset
    <2>2. PICK g : Folds(start, V, g) /\ JoinAll(start, V) = g[V]
      BY <2>1, JoinAllFolds
    <2>3. \A U \in SUBSET V : g[U] = JoinStep(start, g, U)
      BY <2>2 DEF Folds
    <2> DEFINE Bad == {U \in SUBSET V : f[U] # g[U]}
    <2>4. CASE Bad = {}
      <3>1. V \notin Bad
        BY <2>4
      <3> QED BY <2>2, <3>1
    <2>5. CASE Bad # {}
      <3>1. PICK U \in Bad : \A x \in U : U \ {x} \notin Bad
        <4>1. Bad \in SUBSET (SUBSET V)
          OBVIOUS
        <4> HIDE DEF Bad
        <4> QED BY <2>1, <2>5, <4>1, SmallestSubset
      <3>2. U \in SUBSET V /\ f[U] # g[U] /\ f[U] = JoinStep(start, f, U) /\ g[U] = JoinStep(start, g, U)
        BY <1>2, <2>3
      <3>3. U # {} => LastOf(U) \in U
        BY DEF LastOf
      <3>4. U # {} => f[U \ {LastOf(U)}] = g[U \ {LastOf(U)}]
        BY <3>1, <3>3
      <3> QED BY <3>2, <3>4 DEF JoinStep
    <2> QED BY <2>4, <2>5
  <1>4. JoinAll(start, {}) = start
    <2>1. {} \in SUBSET T
      OBVIOUS
    <2> QED BY <1>2, <1>3, <2>1 DEF JoinStep
  <1>5. ASSUME T # {}
        PROVE  /\ LastOf(T) \in T
               /\ JoinAll(start, T) = JoinColumnTypes(JoinAll(start, T \ {LastOf(T)}), LastOf(T))
    <2>1. LastOf(T) \in T
      BY <1>5 DEF LastOf
    <2>2. T \in SUBSET T /\ T \ {LastOf(T)} \in SUBSET T
      OBVIOUS
    <2>3. f[T] = JoinColumnTypes(f[T \ {LastOf(T)}], LastOf(T))
      BY <1>2, <1>5, <2>2 DEF JoinStep
    <2> QED BY <1>1, <1>3, <2>1, <2>2, <2>3
  <1> QED BY <1>4, <1>5

\* What the join of a column's type, perhaps a declared one, and an inferred type is
\* made of.
LEMMA ColumnJoinParts ==
    ASSUME NEW x \in ColumnTypes, NEW y \in InferredTypes
    PROVE  /\ x.depth \in Nat /\ y.depth \in Nat /\ x = [depth |-> x.depth, base |-> x.base]
           /\ JoinColumnTypes(x, y) =
                IF x.depth = y.depth THEN [depth |-> x.depth, base |-> JoinBases(x.base, y.base)]
                ELSE IF y.depth < x.depth THEN [depth |-> y.depth, base |-> "JSON"]
                ELSE IF x.base = "OTHER" THEN x ELSE [depth |-> x.depth, base |-> "JSON"]
  BY DEF JoinColumnTypes, ColumnTypes, InferredTypes, DeclaredBases, InferredBases,
         Scalars, LIST, IsIntegerType, IsPlainScalar

LEMMA BasesSwap ==
    ASSUME NEW a \in DeclaredBases, NEW b \in InferredBases, NEW c \in InferredBases
    PROVE  /\ JoinBases(JoinBases(a, b), c) = JoinBases(JoinBases(a, c), b)
           /\ JoinBases("JSON", b) = "JSON"
           /\ JoinBases(a, b) = "OTHER" => a = "OTHER"
           /\ a = "OTHER" => JoinBases(a, b) \in {"OTHER", "JSON"}
  BY DEF JoinBases, DeclaredBases, InferredBases,
         Scalars, IsIntegerType, IsPlainScalar, IsNumeric, IsTemporal

\* Two payloads may be joined to a column, a declared one too, in either order.
LEMMA JoinsSwap ==
    ASSUME NEW x \in ColumnTypes, NEW t \in InferredTypes, NEW u \in InferredTypes
    PROVE  JoinColumnTypes(JoinColumnTypes(x, t), u) = JoinColumnTypes(JoinColumnTypes(x, u), t)
  <1> DEFINE xt == JoinColumnTypes(x, t)
             xu == JoinColumnTypes(x, u)
  <1> SUFFICES JoinColumnTypes(xt, u) = JoinColumnTypes(xu, t)
    OBVIOUS
  <1>1. /\ x.base \in DeclaredBases /\ t.base \in InferredBases /\ u.base \in InferredBases
        /\ x.depth \in Nat /\ t.depth \in Nat /\ u.depth \in Nat
        /\ xt \in ColumnTypes /\ xu \in ColumnTypes
    BY ColumnJoinClosed DEF ColumnTypes, InferredTypes
  <1>2. /\ JoinBases(JoinBases(x.base, t.base), u.base) = JoinBases(JoinBases(x.base, u.base), t.base)
        /\ JoinBases("JSON", t.base) = "JSON" /\ JoinBases("JSON", u.base) = "JSON"
        /\ JoinBases(x.base, t.base) = "OTHER" => x.base = "OTHER"
        /\ JoinBases(x.base, u.base) = "OTHER" => x.base = "OTHER"
        /\ x.base = "OTHER" => JoinBases(x.base, t.base) \in {"OTHER", "JSON"}
        /\ x.base = "OTHER" => JoinBases(x.base, u.base) \in {"OTHER", "JSON"}
    BY <1>1, BasesSwap
  <1>3. /\ x = [depth |-> x.depth, base |-> x.base]
        /\ xt = IF x.depth = t.depth THEN [depth |-> x.depth, base |-> JoinBases(x.base, t.base)]
                ELSE IF t.depth < x.depth THEN [depth |-> t.depth, base |-> "JSON"]
                ELSE IF x.base = "OTHER" THEN x ELSE [depth |-> x.depth, base |-> "JSON"]
        /\ xu = IF x.depth = u.depth THEN [depth |-> x.depth, base |-> JoinBases(x.base, u.base)]
                ELSE IF u.depth < x.depth THEN [depth |-> u.depth, base |-> "JSON"]
                ELSE IF x.base = "OTHER" THEN x ELSE [depth |-> x.depth, base |-> "JSON"]
    BY ColumnJoinParts
  <1>4. /\ JoinColumnTypes(xt, u) =
                IF xt.depth = u.depth THEN [depth |-> xt.depth, base |-> JoinBases(xt.base, u.base)]
                ELSE IF u.depth < xt.depth THEN [depth |-> u.depth, base |-> "JSON"]
                ELSE IF xt.base = "OTHER" THEN xt ELSE [depth |-> xt.depth, base |-> "JSON"]
        /\ JoinColumnTypes(xu, t) =
                IF xu.depth = t.depth THEN [depth |-> xu.depth, base |-> JoinBases(xu.base, t.base)]
                ELSE IF t.depth < xu.depth THEN [depth |-> t.depth, base |-> "JSON"]
                ELSE IF xu.base = "OTHER" THEN xu ELSE [depth |-> xu.depth, base |-> "JSON"]
    BY <1>1, ColumnJoinParts
  <1> HIDE DEF xt, xu
  <1>5. CASE x.depth = t.depth /\ x.depth = u.depth
    BY <1>1, <1>2, <1>3, <1>4, <1>5
  <1>6. CASE x.depth = t.depth /\ x.depth < u.depth
    BY <1>1, <1>2, <1>3, <1>4, <1>6
  <1>7. CASE x.depth = u.depth /\ x.depth < t.depth
    BY <1>1, <1>2, <1>3, <1>4, <1>7
  <1>8. CASE x.depth < t.depth /\ x.depth < u.depth
    BY <1>1, <1>2, <1>3, <1>4, <1>8
  <1>9. CASE t.depth < x.depth /\ t.depth < u.depth
    BY <1>1, <1>2, <1>3, <1>4, <1>9
  <1>10. CASE u.depth < x.depth /\ u.depth < t.depth
    BY <1>1, <1>2, <1>3, <1>4, <1>10
  <1>11. CASE u.depth < x.depth /\ u.depth = t.depth
    BY <1>1, <1>2, <1>3, <1>4, <1>11
  <1> QED BY <1>1, <1>4, <1>5, <1>6, <1>7, <1>8, <1>9, <1>10, <1>11

LEMMA JoinAllTyped ==
    ASSUME NEW a \in ColumnTypes, NEW T \in SUBSET InferredTypes, IsFiniteSet(T)
    PROVE  JoinAll(a, T) \in ColumnTypes
  <1> DEFINE Bad == {U \in SUBSET T : JoinAll(a, U) \notin ColumnTypes}
  <1>1. CASE Bad = {}
    BY <1>1
  <1>2. CASE Bad # {}
    <2>1. PICK U \in Bad : \A x \in U : U \ {x} \notin Bad
      <3>1. Bad \in SUBSET (SUBSET T)
        OBVIOUS
      <3> HIDE DEF Bad
      <3> QED BY <1>2, <3>1, SmallestSubset
    <2>2. IsFiniteSet(U) /\ U \subseteq InferredTypes
      BY FS_Subset
    <2>3. U # {}
      BY JoinAllStep, <2>2
    <2>4. JoinAll(a, U \ {LastOf(U)}) \in ColumnTypes /\ LastOf(U) \in InferredTypes
      BY <2>1, <2>2, <2>3, JoinAllStep
    <2> QED BY <2>2, <2>3, <2>4, JoinAllStep, ColumnJoinClosed
  <1> QED BY <1>1, <1>2

\* Any of the types may be the last one to be joined.
LEMMA JoinAllLast ==
    ASSUME NEW a \in ColumnTypes, NEW T \in SUBSET InferredTypes, IsFiniteSet(T), NEW t \in T
    PROVE  JoinAll(a, T) = JoinColumnTypes(JoinAll(a, T \ {t}), t)
  <1> DEFINE Any(U) == \A u \in U : JoinAll(a, U) = JoinColumnTypes(JoinAll(a, U \ {u}), u)
             Bad == {U \in SUBSET T : ~Any(U)}
  <1>1. CASE Bad = {}
    <2>1. T \notin Bad
      BY <1>1
    <2> QED BY <2>1
  <1>2. CASE Bad # {}
    <2>1. PICK U \in Bad : \A x \in U : U \ {x} \notin Bad
      <3>1. Bad \in SUBSET (SUBSET T)
        OBVIOUS
      <3> HIDE DEF Bad
      <3> QED BY <1>2, <3>1, SmallestSubset
    <2>2. \A V \in SUBSET U : IsFiniteSet(V) /\ V \in SUBSET InferredTypes
      BY FS_Subset
    <2>3. PICK u \in U : JoinAll(a, U) # JoinColumnTypes(JoinAll(a, U \ {u}), u)
      BY <2>1
    <2> DEFINE x == LastOf(U)
    <2>4. /\ x \in U /\ JoinAll(a, U) = JoinColumnTypes(JoinAll(a, U \ {x}), x)
      BY <2>2, JoinAllStep
    <2> HIDE DEF x
    <2>5. Any(U \ {x}) /\ Any(U \ {u}) /\ u # x
      BY <2>1, <2>3, <2>4
    <2> DEFINE V == (U \ {x}) \ {u}
    <2>6. V = (U \ {u}) \ {x} /\ V \in SUBSET U /\ u \in U \ {x} /\ x \in U \ {u}
      BY <2>3, <2>4, <2>5
    <2>7. JoinAll(a, U \ {x}) = JoinColumnTypes(JoinAll(a, V), u)
      BY <2>5, <2>6
    <2>8. JoinAll(a, U \ {u}) = JoinColumnTypes(JoinAll(a, V), x)
      BY <2>5, <2>6
    <2> HIDE DEF V
    <2>9. JoinAll(a, V) \in ColumnTypes /\ u \in InferredTypes /\ x \in InferredTypes
      BY <2>2, <2>4, <2>6, JoinAllTyped
    <2> QED BY <2>3, <2>4, <2>7, <2>8, <2>9, JoinsSwap
  <1> QED BY <1>1, <1>2

\* One more type, perhaps one that is there already.
LEMMA JoinAllMore ==
    ASSUME NEW a \in ColumnTypes, NEW T \in SUBSET InferredTypes, IsFiniteSet(T), NEW t \in InferredTypes
    PROVE  JoinAll(a, T \union {t}) = JoinColumnTypes(JoinAll(a, T), t)
  <1>1. CASE t \in T
    <2>1. JoinAll(a, T) = JoinColumnTypes(JoinAll(a, T \ {t}), t)
      BY <1>1, JoinAllLast
    <2>2. JoinAll(a, T \ {t}) \in ColumnTypes
      BY FS_Subset, JoinAllTyped
    <2>3. T \union {t} = T
      BY <1>1
    <2> QED BY <2>1, <2>2, <2>3, JoinAbsorbs
  <1>2. CASE t \notin T
    <2> DEFINE U == T \union {t}
    <2>1. U \in SUBSET InferredTypes /\ IsFiniteSet(U) /\ t \in U /\ U \ {t} = T
      BY <1>2, FS_AddElement
    <2> HIDE DEF U
    <2>2. JoinAll(a, U) = JoinColumnTypes(JoinAll(a, U \ {t}), t)
      BY <2>1, JoinAllLast
    <2> QED BY <2>1, <2>2 DEF U
  <1> QED BY <1>1, <1>2

\* A type may be joined first instead of last.
LEMMA JoinAllFirst ==
    ASSUME NEW a \in ColumnTypes, NEW b \in InferredTypes, NEW T \in SUBSET InferredTypes, IsFiniteSet(T)
    PROVE  JoinAll(JoinColumnTypes(a, b), T) = JoinColumnTypes(JoinAll(a, T), b)
  <1> DEFINE ab == JoinColumnTypes(a, b)
             Bad == {U \in SUBSET T : JoinAll(ab, U) # JoinColumnTypes(JoinAll(a, U), b)}
  <1>1. CASE Bad = {}
    BY <1>1
  <1>2. CASE Bad # {}
    <2> HIDE DEF ab
    <2>1. PICK U \in Bad : \A x \in U : U \ {x} \notin Bad
      <3>1. Bad \in SUBSET (SUBSET T)
        OBVIOUS
      <3> HIDE DEF Bad
      <3> QED BY <1>2, <3>1, SmallestSubset
    <2>2. \A V \in SUBSET U : IsFiniteSet(V) /\ V \in SUBSET InferredTypes
      BY FS_Subset
    <2>3. U # {}
      BY <2>1, <2>2, JoinAllStep DEF ab
    <2> DEFINE x == LastOf(U)
               V == U \ {x}
    <2>4. /\ x \in U /\ JoinAll(a, U) = JoinColumnTypes(JoinAll(a, V), x)
          /\ JoinAll(ab, U) = JoinColumnTypes(JoinAll(ab, V), x)
      BY <2>2, <2>3, JoinAllStep
    <2> HIDE DEF x
    <2>5. JoinAll(ab, V) = JoinColumnTypes(JoinAll(a, V), b)
      BY <2>1, <2>4
    <2>6. JoinAll(a, V) \in ColumnTypes /\ x \in InferredTypes
      BY <2>2, <2>4, JoinAllTyped
    <2> HIDE DEF V
    <2>7. JoinAll(ab, U) = JoinColumnTypes(JoinAll(a, U), b)
      BY <2>4, <2>5, <2>6, JoinsSwap
    <2> QED BY <2>1, <2>7
  <1> QED BY <1>1, <1>2

\* It does not matter with which of its types a new column starts.
LEMMA JoinAllStarts ==
    ASSUME NEW T \in SUBSET InferredTypes, IsFiniteSet(T), NEW a \in T, NEW b \in T
    PROVE  JoinAll(a, T) = JoinAll(b, T)
  <1>1. InferredTypes \subseteq ColumnTypes
    BY DEF InferredTypes, ColumnTypes, DeclaredBases
  <1>2. T \union {a} = T /\ T \union {b} = T
    OBVIOUS
  <1>3. JoinAll(a, T) = JoinColumnTypes(JoinAll(a, T), b)
    BY <1>1, <1>2, JoinAllMore
  <1>4. JoinAll(b, T) = JoinColumnTypes(JoinAll(b, T), a)
    BY <1>1, <1>2, JoinAllMore
  <1>5. JoinColumnTypes(a, b) = JoinColumnTypes(b, a)
    BY JoinCommutes
  <1> QED BY <1>1, <1>3, <1>4, <1>5, JoinAllFirst

--------------------------------------------------------------------------------
(* Columns as joins *)

LEMMA IncomingTyped ==
    ASSUME NEW P \in SUBSET Payloads, IsFiniteSet(P), NEW c
    PROVE  Incoming(P, c) \in SUBSET InferredTypes /\ IsFiniteSet(Incoming(P, c))
  <1> DEFINE Q == {q \in P : c \in DOMAIN q}
             f == [q \in Q |-> TypeOf(q, c)]
  <1>1. IsFiniteSet(Q)
    BY FS_Subset
  <1>2. Incoming(P, c) = {TypeOf(q, c) : q \in Q}
    BY DEF Incoming
  <1>3. f \in Surjection(Q, Incoming(P, c))
    BY <1>2, Fun_IsSurj
  <1>4. IsFiniteSet(Incoming(P, c))
    BY <1>1, <1>3, FS_Surjection
  <1> QED BY <1>2, <1>4, PayloadFits

LEMMA JoinedNothing ==
    ASSUME NEW cols, IsSchema(cols)
    PROVE  Joined(cols, {}) = cols
  <1>1. \A c : Incoming({}, c) = {}
    BY DEF Incoming
  <1>2. \A c : JoinAll(c, {}) = c
    BY JoinAllStep, FS_EmptySet
  <1>3. Joined(cols, {}) = [c \in DOMAIN cols |-> cols[c]]
    BY <1>1, <1>2 DEF Joined
  <1> QED BY <1>3 DEF IsSchema

\* One more payload changes the joined columns as it evolves a table.
LEMMA JoinedMore ==
    ASSUME NEW cols, IsSchema(cols), NEW P \in SUBSET Payloads, IsFiniteSet(P), NEW p \in Payloads
    PROVE  Joined(cols, P \union {p}) = Evolved(Joined(cols, P), p)
  <1> DEFINE Q == P \union {p}
             Start(R, c) == IF c \in DOMAIN cols THEN cols[c] ELSE LastOf(Incoming(R, c))
             D(R) == DOMAIN cols \union (UNION {DOMAIN q : q \in R})
             before == Joined(cols, P)
  <1>1. D(Q) = D(P) \union DOMAIN p
    OBVIOUS
  <1>2. /\ before = [c \in D(P) |-> JoinAll(Start(P, c), Incoming(P, c))]
        /\ Joined(cols, Q) = [c \in D(Q) |-> JoinAll(Start(Q, c), Incoming(Q, c))]
    BY DEF Joined, LastOf
  <1>3. Evolved(before, p) =
            [c \in D(Q) |-> IF c \notin D(P) THEN TypeOf(p, c)
                            ELSE IF c \notin DOMAIN p THEN before[c]
                            ELSE JoinColumnTypes(before[c], TypeOf(p, c))]
    <2>1. DOMAIN before = D(P)
      BY <1>2
    <2> HIDE DEF before, D
    <2> QED BY <1>1, <2>1 DEF Evolved
  <1>4. Q \in SUBSET Payloads /\ IsFiniteSet(Q)
    BY FS_AddElement
  <1>5. ASSUME NEW c \in D(Q)
        PROVE  JoinAll(Start(Q, c), Incoming(Q, c)) =
                   IF c \notin D(P) THEN TypeOf(p, c)
                   ELSE IF c \notin DOMAIN p THEN before[c]
                   ELSE JoinColumnTypes(before[c], TypeOf(p, c))
    <2>1. /\ Incoming(P, c) \in SUBSET InferredTypes /\ IsFiniteSet(Incoming(P, c))
          /\ Incoming(Q, c) \in SUBSET InferredTypes /\ IsFiniteSet(Incoming(Q, c))
      BY <1>4, IncomingTyped
    <2>2. c \in DOMAIN cols => cols[c] \in ColumnTypes
      BY DEF IsSchema
    <2>3. InferredTypes \subseteq ColumnTypes
      BY DEF InferredTypes, ColumnTypes, DeclaredBases
    <2>4. CASE c \notin DOMAIN p
      <3>1. Incoming(Q, c) = Incoming(P, c)
        BY <2>4 DEF Incoming
      <3>2. c \in D(P)
        BY <1>1, <2>4
      <3>3. Start(Q, c) = Start(P, c)
        BY <3>1
      <3>4. before[c] = JoinAll(Start(P, c), Incoming(P, c))
        BY <1>2, <3>2
      <3> HIDE DEF Start, before, D, Q
      <3> QED BY <2>4, <3>1, <3>2, <3>3, <3>4
    <2>5. CASE c \in DOMAIN p
      <3> DEFINE t == TypeOf(p, c)
                 old == Incoming(P, c)
                 new == Incoming(Q, c)
      <3>1. t \in InferredTypes /\ new = old \union {t}
        BY <2>5, PayloadFits DEF Incoming
      <3>2. c \in D(P) <=> c \in DOMAIN cols \/ old # {}
        BY DEF Incoming
      <3>3. c \in D(P) => before[c] = JoinAll(Start(P, c), old)
        BY <1>2
      <3> HIDE DEF t, old, new, D, before, Q
      <3>4. CASE c \in DOMAIN cols
        BY <2>1, <2>2, <2>5, <3>1, <3>2, <3>3, <3>4, JoinAllMore DEF t, old, new
      <3>5. CASE c \notin DOMAIN cols /\ old # {}
        <4>1. Start(P, c) \in old /\ Start(Q, c) \in new /\ old \subseteq new
          BY <3>1, <3>5 DEF old, new, LastOf
        <4>2. JoinAll(Start(Q, c), new) = JoinAll(Start(P, c), new)
          BY <2>1, <4>1, JoinAllStarts DEF new
        <4>3. JoinAll(Start(P, c), new) = JoinColumnTypes(JoinAll(Start(P, c), old), t)
          BY <2>1, <2>3, <3>1, <4>1, JoinAllMore DEF old
        <4> QED BY <2>5, <3>2, <3>3, <3>5, <4>2, <4>3 DEF t, new
      <3>6. CASE c \notin DOMAIN cols /\ old = {}
        <4>1. new = {t} /\ Start(Q, c) = t
          BY <3>1, <3>6 DEF new, LastOf
        <4>2. JoinAll(t, {} \union {t}) = JoinColumnTypes(JoinAll(t, {}), t)
          BY <2>3, <3>1, FS_EmptySet, JoinAllMore
        <4>3. JoinAll(t, {}) = t
          BY JoinAllStep, FS_EmptySet
        <4>4. JoinColumnTypes(t, t) = t
          BY <2>3, <3>1, SameWidth
        <4> QED BY <3>2, <3>6, <4>1, <4>2, <4>3, <4>4 DEF t, new
      <3> QED BY <3>4, <3>5, <3>6
    <2> QED BY <2>4, <2>5
  <1> QED
    <2> HIDE DEF D, Start, before, Q
    <2>1. Joined(cols, Q) = Evolved(before, p)
      BY <1>2, <1>3, <1>5
    <2> QED BY <2>1 DEF Q, before

--------------------------------------------------------------------------------
(* The committed columns *)

\* A table that needs no ALTER for a payload needs none after it was widened.
LEMMA FitsStill ==
    ASSUME NEW cols, IsSchema(cols), NEW p \in Payloads, NEW q \in Payloads, Evolved(cols, p) = cols
    PROVE  Evolved(Evolved(cols, q), p) = Evolved(cols, q)
  <1> DEFINE e == Evolved(cols, q)
  <1>1. DOMAIN e = DOMAIN cols \union DOMAIN q /\ e = [c \in DOMAIN e |-> e[c]]
    BY DEF Evolved
  <1>2. DOMAIN p \subseteq DOMAIN cols
    BY DEF Evolved
  <1>3. ASSUME NEW c \in DOMAIN p PROVE JoinColumnTypes(e[c], TypeOf(p, c)) = e[c]
    <2>1. /\ c \in DOMAIN cols /\ cols[c] \in ColumnTypes /\ TypeOf(p, c) \in InferredTypes
          /\ JoinColumnTypes(cols[c], TypeOf(p, c)) = cols[c]
      BY <1>2, PayloadFits DEF IsSchema, Evolved
    <2>2. CASE c \in DOMAIN q
      <3>1. e[c] = JoinColumnTypes(cols[c], TypeOf(q, c)) /\ TypeOf(q, c) \in InferredTypes
        BY <2>1, <2>2, PayloadFits DEF Evolved
      <3> QED BY <2>1, <3>1, JoinsSwap
    <2>3. CASE c \notin DOMAIN q
      <3>1. e[c] = cols[c]
        BY <2>1, <2>3 DEF Evolved
      <3> QED BY <2>1, <3>1
    <2> QED BY <2>2, <2>3
  <1> HIDE DEF e
  <1>4. Evolved(e, p) = e
    BY <1>1, <1>2, <1>3 DEF Evolved
  <1> QED BY <1>4 DEF e

\* Payloads for which the table needs no ALTER do not change the join.
LEMMA JoinedFitting ==
    ASSUME NEW cols, IsSchema(cols), NEW P \in SUBSET Payloads, IsFiniteSet(P),
           NEW A \in SUBSET Payloads, IsFiniteSet(A),
           \A p \in A : Evolved(Joined(cols, P), p) = Joined(cols, P)
    PROVE  Joined(cols, P \union A) = Joined(cols, P)
  <1> DEFINE Bad == {U \in SUBSET A : Joined(cols, P \union U) # Joined(cols, P)}
  <1>1. CASE Bad = {}
    BY <1>1
  <1>2. CASE Bad # {}
    <2>1. PICK U \in Bad : \A x \in U : U \ {x} \notin Bad
      <3>1. Bad \in SUBSET (SUBSET A)
        OBVIOUS
      <3> HIDE DEF Bad
      <3> QED BY <1>2, <3>1, SmallestSubset
    <2>2. U # {}
      BY <2>1
    <2>3. PICK p \in U : TRUE
      BY <2>2
    <2> DEFINE V == P \union (U \ {p})
    <2>4. Joined(cols, V) = Joined(cols, P) /\ V \union {p} = P \union U
      BY <2>1, <2>3
    <2>5. V \in SUBSET Payloads /\ IsFiniteSet(V) /\ p \in Payloads /\ p \in A
      <3>1. IsFiniteSet(U \ {p})
        BY <2>1, FS_Subset
      <3> QED BY <2>1, <2>3, <3>1, FS_Union
    <2> HIDE DEF V
    <2>6. Joined(cols, V \union {p}) = Evolved(Joined(cols, V), p)
      BY <2>5, JoinedMore
    <2> QED BY <2>1, <2>4, <2>5, <2>6
  <1> QED BY <1>1, <1>2

\* The payloads of the transaction that the version it sees has been evolved for.
Begun(s) ==
    Judged(appended[s])
        \union (IF pc[s] \in {"absorb", "append"} /\ ~misled[s] THEN {payload[s]} ELSE {})

LEMMA JudgedBatches ==
    ASSUME NEW B \in SUBSET Batches, NEW C \in SUBSET Batches
    PROVE  Judged(B) \in SUBSET Payloads /\ Judged(B \union C) = Judged(B) \union Judged(C)
  BY DEF Judged, Batches

LEMMA JudgedNone == Judged({}) = {}
  BY DEF Judged

\* The committed columns are a join, those of the transaction that may replace them
\* are the join with its payloads, and what others append needs no ALTER.
JoinInv ==
    /\ IsFiniteSet(Judged(ingested)) /\ \A s \in Sessions : IsFiniteSet(Judged(appended[s]))
    /\ catalog.cols = Joined(origin, Judged(ingested))
    /\ writer # None => view[writer].cols = Joined(origin, Judged(ingested) \union Begun(writer))
    /\ \A s \in Sessions : \A p \in Judged(appended[s]) : Evolved(view[s].cols, p) = view[s].cols

LEMMA JoinInit == Init => JoinInv
  <1> SUFFICES ASSUME Init PROVE JoinInv
    OBVIOUS
  <1>1. /\ catalog.cols = origin /\ Judged(ingested) = {} /\ writer = None
        /\ \A s \in Sessions : Judged(appended[s]) = {}
    BY JudgedNone DEF Init, NoTable
  <1>2. IsSchema(origin)
    BY TypeInit DEF TypeInv, TypeOK
  <1> QED BY <1>1, <1>2, JoinedNothing, FS_EmptySet DEF JoinInv

LEMMA JoinInvStep ==
    ASSUME SafeInv, JoinInv, WriterInv, [Next]_vars
    PROVE  JoinInv'
  <1> USE DEF tableVars, entryVars, txnVars, seenVars, appendVars, historyVars, boundVars
  <1>0. /\ DOMAIN view = Sessions
        /\ pc \in [Sessions -> {"idle", "open", "internal"} \union Working]
        /\ payload \in [Sessions -> Payloads \union {NoColumns}]
        /\ appended \in [Sessions -> SUBSET Batches] /\ misled \in [Sessions -> BOOLEAN]
        /\ writer \in Sessions \union {None} /\ None \notin Sessions
        /\ writer # None => pc[writer] # "idle"
        /\ IsSchema(catalog.cols) /\ \A s \in Sessions : IsSchema(view[s].cols)
        /\ IsSchema(origin) /\ ingested \in SUBSET Batches
        /\ Judged(ingested) \in SUBSET Payloads
        /\ \A s \in Sessions : Judged(appended[s]) \in SUBSET Payloads
        /\ \A s \in Sessions : pc[s] \in Working => payload[s] \in Payloads
    BY SchemaAssumption, JudgedBatches DEF SafeInv, TypeInv, TypeOK, WorkInv, IsVersion
  <1>1. \A s \in Sessions : Begun(s) \in SUBSET Payloads /\ IsFiniteSet(Begun(s))
    <2> SUFFICES ASSUME NEW s \in Sessions PROVE Begun(s) \in SUBSET Payloads /\ IsFiniteSet(Begun(s))
      OBVIOUS
    <2>1. pc[s] \in {"absorb", "append"} => payload[s] \in Payloads
      BY <1>0 DEF Working
    <2>2. IsFiniteSet(Judged(appended[s])) /\ IsFiniteSet(Judged(appended[s]) \union {payload[s]})
      BY FS_AddElement DEF JoinInv
    <2>3. Judged(appended[s]) \in SUBSET Payloads
      BY <1>0
    <2>4. Begun(s) = IF pc[s] \in {"absorb", "append"} /\ ~misled[s]
                     THEN Judged(appended[s]) \union {payload[s]} ELSE Judged(appended[s])
      BY DEF Begun
    <2> QED BY <2>1, <2>2, <2>3, <2>4
  \* A session whose transaction starts or is rolled back.
  <1>2. ASSUME NEW s \in Sessions, NEW where \in {"idle", "open"}, NEW v, Reset(s, where, v),
               UNCHANGED <<catalog, origin, ingested>>,
               writer' = IF writer = s THEN None ELSE writer
        PROVE  JoinInv'
    <2>a. /\ appended'[s] = {}
          /\ \A r \in Sessions \ {s} : /\ view'[r] = view[r] /\ appended'[r] = appended[r]
                                        /\ pc'[r] = pc[r] /\ payload'[r] = payload[r] /\ misled'[r] = misled[r]
      BY <1>0, <1>2 DEF Reset
    <2>1. /\ Judged(appended'[s]) = {}
          /\ \A r \in Sessions \ {s} : /\ view'[r] = view[r]
                                        /\ Judged(appended'[r]) = Judged(appended[r]) /\ Begun(r)' = Begun(r)
      <3> SUFFICES ASSUME NEW r \in Sessions \ {s} PROVE Begun(r)' = Begun(r)
        BY <2>a, JudgedNone
      <3> QED BY <2>a DEF Begun, Judged
    <2>0. IsFiniteSet({})
      BY FS_EmptySet
    <2>2. \A r \in Sessions : IsFiniteSet(Judged(appended'[r]))
      BY <2>0, <2>1 DEF JoinInv
    <2>3. writer' # None => view'[writer'].cols = Joined(origin, Judged(ingested) \union (Begun(writer)'))
      <3> SUFFICES ASSUME writer' # None
                   PROVE  view'[writer'].cols = Joined(origin, Judged(ingested) \union (Begun(writer)'))
        OBVIOUS
      <3>1. writer' = writer /\ writer # s /\ writer # None
        BY <1>2
      <3> QED BY <1>0, <2>1, <3>1 DEF JoinInv
    <2>4. \A r \in Sessions : \A p \in Judged(appended'[r]) : Evolved(view'[r].cols, p) = view'[r].cols
      BY <2>1 DEF JoinInv
    <2> QED BY <1>2, <2>2, <2>3, <2>4 DEF JoinInv
  \* A session that goes on with a payload for which its version needs no ALTER.
  <1>3. ASSUME NEW s \in Sessions, NEW p \in Payloads, Evolved(view[s].cols, p) = view[s].cols,
               Begun(s)' \in {Begun(s), Begun(s) \union {p}},
               Judged(appended'[s]) \in {Judged(appended[s]), Judged(appended[s]) \union {p}},
               \A r \in Sessions \ {s} : Begun(r)' = Begun(r) /\ Judged(appended'[r]) = Judged(appended[r]),
               UNCHANGED <<tableVars, view, origin, ingested>>
        PROVE  JoinInv'
    <2>0. IsFiniteSet(Judged(appended[s])) /\ IsFiniteSet(Judged(appended[s]) \union {p})
      BY FS_AddElement DEF JoinInv
    <2>1. \A r \in Sessions : IsFiniteSet(Judged(appended'[r]))
      BY <1>3, <2>0 DEF JoinInv
    <2>2. ASSUME writer = s PROVE view[s].cols = Joined(origin, Judged(ingested) \union (Begun(s)'))
      <3> DEFINE P == Judged(ingested) \union Begun(s)
      <3>1. P \in SUBSET Payloads /\ IsFiniteSet(P)
        BY <1>0, <1>1, FS_Union DEF JoinInv
      <3>2. Joined(origin, P \union {p}) = Evolved(Joined(origin, P), p)
        BY <1>0, <3>1, JoinedMore
      <3>3. view[s].cols = Joined(origin, P)
        BY <1>0, <2>2 DEF JoinInv
      <3>4. Judged(ingested) \union (Begun(s)') \in {P, P \union {p}}
        BY <1>3
      <3> HIDE DEF P
      <3> QED BY <1>3, <3>2, <3>3, <3>4
    <2>3. writer # None => view[writer].cols = Joined(origin, Judged(ingested) \union (Begun(writer)'))
      BY <1>0, <1>3, <2>2 DEF JoinInv
    <2>4. \A r \in Sessions : \A q \in Judged(appended'[r]) : Evolved(view[r].cols, q) = view[r].cols
      BY <1>3 DEF JoinInv
    <2> QED BY <1>3, <2>1, <2>3, <2>4 DEF JoinInv
  \* A session that alters the version it sees.
  <1>4. ASSUME NEW s \in Sessions, NewVersion(s, Evolved(view[s].cols, payload[s])),
               MayWrite(s), payload[s] \in Payloads, pc[s] \in {"create", "evolve"},
               pc'[s] \in {"absorb", "append"}, \A r \in Sessions \ {s} : pc'[r] = pc[r],
               UNCHANGED <<catalog, origin, ingested, payload, appended, misled>>
        PROVE  JoinInv'
    <2> DEFINE p == payload[s]
               P == Judged(ingested) \union Judged(appended[s])
    <2>1. /\ view'[s].cols = Evolved(view[s].cols, p) /\ writer' = s
          /\ \A r \in Sessions \ {s} : view'[r] = view[r]
      BY <1>0, <1>4 DEF NewVersion
    <2>2. /\ Begun(s) = Judged(appended[s]) /\ Begun(s)' = Judged(appended[s]) \union {p}
      <3>1. ~misled[s]
        BY <1>4 DEF SafeInv, FitInv
      <3> QED BY <1>4, <3>1 DEF Begun, Judged
    <2>7. \A r \in Sessions \ {s} : Begun(r)' = Begun(r)
      BY <1>4 DEF Begun, Judged
    <2>3. P \in SUBSET Payloads /\ IsFiniteSet(P)
      BY <1>0, FS_Union DEF JoinInv
    <2>4. view[s].cols = Joined(origin, P)
      <3>1. CASE writer = s
        BY <1>0, <2>2, <3>1 DEF JoinInv
      <3>2. CASE writer = None /\ view[s].token = catalog.token
        <4>1. view[s] = catalog
          BY <3>2 DEF SafeInv, VersionInv, AllVersions, Versions
        <4>2. Joined(origin, Judged(ingested) \union Judged(appended[s])) = Joined(origin, Judged(ingested))
          BY <1>0, <4>1, JoinedFitting DEF JoinInv
        <4> QED BY <4>1, <4>2 DEF JoinInv
      <3> QED BY <1>4, <3>1, <3>2 DEF MayWrite
    <2>5. view'[s].cols = Joined(origin, Judged(ingested) \union (Begun(s)'))
      <3>1. Joined(origin, P \union {p}) = Evolved(Joined(origin, P), p)
        BY <1>0, <1>4, <2>3, JoinedMore
      <3>2. Judged(ingested) \union (Begun(s)') = P \union {p}
        BY <2>2
      <3> HIDE DEF P, p
      <3> QED BY <2>1, <2>4, <3>1, <3>2
    <2>6. ASSUME NEW q \in Judged(appended[s]) PROVE Evolved(view'[s].cols, q) = view'[s].cols
      <3>1. Evolved(view[s].cols, q) = view[s].cols /\ q \in Payloads
        BY <1>0 DEF JoinInv
      <3> QED BY <1>0, <1>4, <2>1, <3>1, FitsStill
    <2> QED BY <1>4, <2>1, <2>5, <2>6 DEF JoinInv
  <1>5. ASSUME NEW s \in Sessions, Rollback(s) PROVE JoinInv'
    <2>1. /\ Reset(s, "idle", NoTable) /\ UNCHANGED <<catalog, origin, ingested>>
          /\ writer' = IF writer = s THEN None ELSE writer
      BY <1>5 DEF Rollback
    <2> QED BY <1>2, <2>1
  <1>6. ASSUME NEW s \in Sessions, Begin(s) PROVE JoinInv'
    <2>1. /\ Reset(s, "open", catalog) /\ UNCHANGED <<catalog, origin, ingested>>
          /\ writer' = IF writer = s THEN None ELSE writer
      BY <1>0, <1>6 DEF Begin
    <2> QED BY <1>2, <2>1
  \* A session whose payload counts for as much as before.
  <1>same. ASSUME \A r \in Sessions : Begun(r)' = Begun(r) /\ Judged(appended'[r]) = Judged(appended[r]),
                  UNCHANGED <<tableVars, view, origin, ingested>>
           PROVE  JoinInv'
    BY <1>0, <1>same DEF JoinInv
  <1>7. ASSUME NEW s \in Sessions, NEW p \in Payloads, IngestNative(s, p) PROVE JoinInv'
    <2>1. /\ pc[s] = "open"
          /\ pc'[s] # "absorb" /\ payload'[s] = p
          /\ pc'[s] = "append" => Absorbed(s, p) /\ view[s] # NoTable
          /\ \A r \in Sessions \ {s} : pc'[r] = pc[r] /\ payload'[r] = payload[r] /\ misled'[r] = misled[r]
          /\ UNCHANGED <<tableVars, view, origin, ingested, appended>>
          /\ misled'[s] <=> /\ pc'[s] = "append"
                            /\ Evolved(view[s].cols, p) # view[s].cols
                            /\ Suspect(p)
      BY <1>0, <1>7 DEF IngestNative
    <2>2. /\ Begun(s) = Judged(appended[s])
          /\ \A r \in Sessions \ {s} : Begun(r)' = Begun(r)
          /\ \A r \in Sessions : Judged(appended'[r]) = Judged(appended[r])
      BY <2>1 DEF Begun, Judged
    <2>3. CASE pc'[s] = "append" /\ ~misled'[s]
      <3>1. Evolved(view[s].cols, p) = view[s].cols
        BY <2>1, <2>3 DEF SafeInv, CacheSound, Absorbed, Versions
      <3>2. Begun(s)' = Begun(s) \union {p}
        BY <2>1, <2>3 DEF Begun, Judged
      <3> QED BY <1>3, <2>1, <2>2, <3>1, <3>2
    <2>4. CASE pc'[s] # "append" \/ misled'[s]
      <3>1. Begun(s)' = Begun(s)
        BY <2>1, <2>4 DEF Begun, Judged
      <3> QED BY <1>same, <2>1, <2>2, <3>1
    <2> QED BY <2>3, <2>4
  <1>8. ASSUME NEW s \in Sessions, Create(s) PROVE JoinInv'
    <2>1. payload[s] \in Payloads /\ view[s] = NoTable
      BY <1>0, <1>8 DEF Create, Working, WriterInv
    <2>2. SchemaOf(payload[s]) = Evolved(view[s].cols, payload[s])
      BY <2>1 DEF SchemaOf, Evolved, NoTable, NoColumns
    <2>3. /\ NewVersion(s, Evolved(view[s].cols, payload[s])) /\ MayWrite(s)
          /\ pc[s] \in {"create", "evolve"} /\ pc'[s] \in {"absorb", "append"}
          /\ \A r \in Sessions \ {s} : pc'[r] = pc[r]
          /\ UNCHANGED <<catalog, origin, ingested, payload, appended, misled>>
      BY <1>0, <1>8, <2>2 DEF Create
    <2> QED BY <1>4, <2>1, <2>3
  <1>9. ASSUME NEW s \in Sessions, EvolveNative(s) PROVE JoinInv'
    <2>1. payload[s] \in Payloads
      BY <1>0, <1>9 DEF EvolveNative, Working
    <2>2. /\ NewVersion(s, Evolved(view[s].cols, payload[s])) /\ MayWrite(s)
          /\ pc[s] \in {"create", "evolve"} /\ pc'[s] \in {"absorb", "append"}
          /\ \A r \in Sessions \ {s} : pc'[r] = pc[r]
          /\ UNCHANGED <<catalog, origin, ingested, payload, appended, misled>>
      BY <1>0, <1>9 DEF EvolveNative
    <2> QED BY <1>4, <2>1, <2>2
  <1>10. ASSUME NEW s \in Sessions, EvolveNothing(s) PROVE JoinInv'
    <2>1. /\ payload[s] \in Payloads /\ Evolved(view[s].cols, payload[s]) = view[s].cols
          /\ ~misled[s]
      BY <1>0, <1>10 DEF EvolveNothing, Working, SafeInv, FitInv
    <2>2. /\ pc[s] = "evolve" /\ pc' = [pc EXCEPT ![s] = "absorb"]
          /\ UNCHANGED <<tableVars, view, origin, ingested, appended, payload, misled>>
      BY <1>10 DEF EvolveNothing
    <2>3. /\ Begun(s)' = Begun(s) \union {payload[s]}
          /\ \A r \in Sessions \ {s} : Begun(r)' = Begun(r)
          /\ \A r \in Sessions : Judged(appended'[r]) = Judged(appended[r])
      BY <1>0, <2>1, <2>2 DEF Begun, Judged
    <2> QED BY <1>3, <2>1, <2>2, <2>3
  <1>11. ASSUME NEW s \in Sessions, Absorb(s) PROVE JoinInv'
    <2>1. /\ pc[s] = "absorb" /\ pc' = [pc EXCEPT ![s] = "append"]
          /\ UNCHANGED <<tableVars, view, origin, ingested, appended, payload, misled>>
      BY <1>11 DEF Absorb
    <2>2. \A r \in Sessions : Begun(r)' = Begun(r) /\ Judged(appended'[r]) = Judged(appended[r])
      BY <1>0, <2>1 DEF Begun, Judged
    <2> QED BY <1>same, <2>1, <2>2
  <1>12. ASSUME NEW s \in Sessions, AppendNative(s) PROVE JoinInv'
    <2> DEFINE l == ResolveAppendLayout(s)
               b == [payload |-> payload[s], misled |-> misled[s], whole |-> FillsAll(l.types, payload[s])]
    <2>1. payload[s] \in Payloads /\ view[s] # NoTable /\ pc[s] = "append"
      BY <1>0, <1>12 DEF AppendNative, Working, SafeInv, FitInv
    <2>2. /\ b \in Batches /\ b.misled = misled[s]
          /\ b.payload = payload[s]
      <3>1. misled[s] \in BOOLEAN /\ FillsAll(l.types, payload[s]) \in BOOLEAN
        BY <1>0 DEF FillsAll
      <3> QED BY <2>1, <3>1 DEF Batches
    <2>3. /\ UNCHANGED <<tableVars, view, origin, ingested, payload, misled>>
          /\ pc'[s] \in {"open", "internal"} /\ \A r \in Sessions \ {s} : pc'[r] = pc[r]
          /\ appended'[s] \in {appended[s], appended[s] \union {b}}
          /\ \A r \in Sessions \ {s} : appended'[r] = appended[r]
          /\ DOMAIN payload[s] \subseteq DOMAIN l.types => appended'[s] = appended[s] \union {b}
      <3> HIDE DEF l
      <3>1. /\ UNCHANGED <<tableVars, view, origin, ingested, payload, misled>>
            /\ pc'[s] \in {"open", "internal"} /\ \A r \in Sessions \ {s} : pc'[r] = pc[r]
        BY <1>0, <1>12 DEF AppendNative
      <3>2. appended' = IF DOMAIN payload[s] \subseteq DOMAIN l.types
                        THEN [appended EXCEPT ![s] = @ \union {b}] ELSE appended
        BY <1>12 DEF AppendNative, l
      <3> HIDE DEF b
      <3> QED BY <1>0, <3>1, <3>2
    <2> HIDE DEF b
    <2>4. \A r \in Sessions \ {s} : Begun(r)' = Begun(r) /\ Judged(appended'[r]) = Judged(appended[r])
      BY <2>3 DEF Begun, Judged
    <2>5. CASE misled[s]
      <3>1. Judged(appended'[s]) = Judged(appended[s])
        BY <2>2, <2>3, <2>5 DEF Judged
      <3>2. Begun(s) = Judged(appended[s])
        BY <2>5 DEF Begun
      <3>3. Begun(s)' = Judged(appended'[s])
        BY <2>3, <2>5 DEF Begun, Judged
      <3> QED BY <1>same, <2>3, <2>4, <3>1, <3>2, <3>3
    <2>6. CASE ~misled[s]
      <3>1. Evolved(view[s].cols, payload[s]) = view[s].cols
        BY <2>1, <2>6 DEF SafeInv, FitInv
      <3>2. DOMAIN payload[s] \subseteq DOMAIN l.types
        <4>1. l.types = view[s].cols
          BY <2>1 DEF ResolveAppendLayout, SafeInv, FitInv
        <4> QED BY <1>0, <2>1, <3>1, <4>1, FittingKeepsValues
      <3>3. Judged(appended'[s]) = Judged(appended[s]) \union {payload[s]}
        <4>1. appended'[s] = appended[s] \union {b}
          BY <2>3, <3>2
        <4>2. Judged({b}) = {payload[s]}
          BY <2>2, <2>6 DEF Judged
        <4>3. appended[s] \in SUBSET Batches /\ {b} \in SUBSET Batches
          BY <1>0, <2>2
        <4>4. Judged(appended[s] \union {b}) = Judged(appended[s]) \union Judged({b})
          BY <4>3, JudgedBatches
        <4> QED BY <4>1, <4>2, <4>4
      <3>4. Begun(s) = Judged(appended[s]) \union {payload[s]}
        BY <2>1, <2>6 DEF Begun
      <3>5. Begun(s)' = Judged(appended'[s])
        BY <2>3 DEF Begun, Judged
      <3> QED BY <1>3, <2>1, <2>3, <2>4, <3>1, <3>3, <3>4, <3>5
    <2> QED BY <2>5, <2>6
  <1>13. ASSUME NEW s \in Sessions, Commit(s) PROVE JoinInv'
    <2>a. /\ appended'[s] = {} /\ pc[s] = "open"
          /\ \A r \in Sessions \ {s} : /\ view'[r] = view[r] /\ appended'[r] = appended[r]
                                        /\ pc'[r] = pc[r] /\ payload'[r] = payload[r] /\ misled'[r] = misled[r]
          /\ origin' = origin /\ ingested' = ingested \union appended[s]
          /\ catalog' = IF writer = s THEN view[s] ELSE catalog
          /\ writer' = IF writer = s THEN None ELSE writer
          /\ appended[s] = {} \/ MayWrite(s)
      BY <1>0, <1>13 DEF Commit, Reset
    <2>b. Judged(ingested') = Judged(ingested) \union Judged(appended[s])
      BY <1>0, <2>a, JudgedBatches
    <2>1. /\ Judged(appended'[s]) = {}
          /\ \A r \in Sessions \ {s} : Judged(appended'[r]) = Judged(appended[r]) /\ Begun(r)' = Begun(r)
          /\ Begun(s) = Judged(appended[s])
      <3>1. \A r \in Sessions \ {s} : Begun(r)' = Begun(r)
        BY <2>a DEF Begun, Judged
      <3> QED BY <2>a, <3>1, JudgedNone DEF Begun
    <2>2. IsFiniteSet(Judged(ingested')) /\ \A r \in Sessions : IsFiniteSet(Judged(appended'[r]))
      <3>1. IsFiniteSet(Judged(ingested) \union Judged(appended[s]))
        BY FS_Union DEF JoinInv
      <3>2. ASSUME NEW r \in Sessions PROVE IsFiniteSet(Judged(appended'[r]))
        <4>1. IsFiniteSet({})
          BY FS_EmptySet
        <4> QED BY <2>1, <4>1 DEF JoinInv
      <3> QED BY <2>b, <3>1, <3>2
    <2>3. \A r \in Sessions : \A p \in Judged(appended'[r]) : Evolved(view'[r].cols, p) = view'[r].cols
      BY <2>a, <2>1 DEF JoinInv
    <2>4. catalog'.cols = Joined(origin, Judged(ingested'))
      <3>1. CASE writer = s
        BY <1>0, <2>a, <2>b, <2>1, <3>1 DEF JoinInv
      <3>2. CASE writer # s /\ appended[s] = {}
        <4>1. Judged(ingested') = Judged(ingested)
          BY <2>b, <3>2, JudgedNone
        <4> QED BY <2>a, <3>2, <4>1 DEF JoinInv
      <3>3. CASE writer = None /\ view[s].token = catalog.token
        <4>1. view[s] = catalog
          BY <3>3 DEF SafeInv, VersionInv, AllVersions, Versions
        <4>2. Joined(origin, Judged(ingested) \union Judged(appended[s])) = Joined(origin, Judged(ingested))
          BY <1>0, <4>1, JoinedFitting DEF JoinInv
        <4> QED BY <1>0, <2>a, <2>b, <3>3, <4>2 DEF JoinInv
      <3> QED BY <2>a, <3>1, <3>2, <3>3 DEF MayWrite
    <2>5. writer' # None =>
              view'[writer'].cols = Joined(origin, Judged(ingested') \union (Begun(writer)'))
      <3> SUFFICES ASSUME writer' # None
                   PROVE  view'[writer'].cols = Joined(origin, Judged(ingested') \union (Begun(writer)'))
        OBVIOUS
      <3>1. writer' = writer /\ writer # s /\ writer # None
        BY <2>a
      <3>2. ingested' = ingested
        BY <2>a, <3>1 DEF MayWrite
      <3> QED BY <1>0, <2>a, <2>1, <3>1, <3>2 DEF JoinInv
    <2> QED BY <2>a, <2>2, <2>3, <2>4, <2>5 DEF JoinInv
  <1>14. CASE DropTable
    <2>1. /\ catalog'.cols = NoColumns /\ origin' = NoColumns /\ writer' = None
          /\ Judged(ingested') = {}
          /\ UNCHANGED <<view, appended>>
      BY <1>14, JudgedNone DEF DropTable, NoTable
    <2>2. Joined(NoColumns, {}) = NoColumns
      BY NoTableTyped, JoinedNothing
    <2> QED BY <2>1, <2>2, FS_EmptySet DEF JoinInv
  <1>15. CASE UNCHANGED vars
    <2>1. \A r \in Sessions : Begun(r)' = Begun(r) /\ Judged(appended'[r]) = Judged(appended[r])
      BY <1>15 DEF vars, Begun, Judged
    <2> QED BY <1>15, <1>same, <2>1 DEF vars
  <1> QED
    BY <1>5, <1>6, <1>7, <1>8, <1>9, <1>10, <1>11, <1>12, <1>13, <1>14, <1>15
    DEF Next, RejectEmpty, Fail

\* A committed column has the join of the type it was declared with and of the
\* types of all the committed payloads that were judged rightly: neither the order
\* of the batches, nor how transactions cut them, nor which session evolves the
\* table and which finds it evolved matters.
THEOREM ColumnsJoined == Spec => []ColumnsAreJoins
  <1>1. JoinInv => ColumnsAreJoins
    BY DEF JoinInv, ColumnsAreJoins
  <1>2. Init => WriterInv
    BY DEF Init, WriterInv
  <1> QED BY <1>1, <1>2, SafeInit, SafeStep, JoinInit, JoinInvStep, WriterStep, PTL DEF Spec
================================================================================
