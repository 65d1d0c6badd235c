----------------------------- MODULE SchemaEvolution -----------------------------
(***************************************************************************)
(* Schema evolution and append (raw_ingest.cpp, RawIngestor and            *)
(* RawSchemaCache).  Sessions run transactions on one table.  Each batch   *)
(* creates the table, or adds and widens columns until it fits, and is     *)
(* then appended.  A process-wide cache remembers which payload shapes a   *)
(* version of the table has absorbed; a hit skips the comparison of the    *)
(* schemas.  The cache is validated by the address of the version's        *)
(* storage, its token here, and an address may come back once nothing      *)
(* refers to the storage it was of.                                        *)
(*                                                                         *)
(* A payload gives each of its columns a set of values.  Batches are below *)
(* pool_min_rows, so that they are appended by AppendNative.               *)
(*                                                                         *)
(* DuckDB is external: snapshots, and a conflict when a transaction writes *)
(* to a version that another one has altered or dropped.                   *)
(***************************************************************************)
EXTENDS TypeJoin

CONSTANTS Sessions,     \* the connections that ingest
          None,         \* no session
          Payloads,     \* what a batch may hold
          Declared,     \* the schemas a user may have created the table with
          MaxTxns,      \* bound: transactions started
          MaxBatches    \* bound: batches of a transaction

ASSUME SchemaAssumption ==
    /\ None \notin Sessions
    /\ MaxTxns \in Nat /\ MaxBatches \in Nat
    /\ \A p \in Payloads : \A c \in DOMAIN p :
           p[c] # {} /\ p[c] \subseteq Paths /\ IsFiniteSet(p[c])
    /\ \A d \in Declared : d \in [DOMAIN d -> ColumnTypes]

VARIABLES
    catalog,   \* the committed version of the table: [token, cols]
    writer,    \* the session with an uncommitted CREATE or ALTER, or None
    cache,     \* RawSchemaCache's entry for the table: [token, shapes]
    pc,        \* pc[s]: where session s is
    payload,   \* payload[s]: the batch s is at
    view,      \* view[s]: the version of the table that s sees
    held,      \* held[s]: the tokens of all versions the transaction has seen
    layout,    \* layout[s]: the ingestor's append_layout
    batches,   \* batches[s]: how many batches the transaction has had
    appended,  \* appended[s]: the batches it has appended
    misled,    \* history: misled[s]: a suspect entry has let s's batch pass wrongly
    origin,    \* history: the columns the table was declared with
    ingested,  \* history: the batches committed since
    absorbed,  \* history: the payloads the cache's entry was made from
    recycled,  \* history: the entry's token has been allocated again since
    allocated, \* the largest token in use so far
    started    \* transactions started

tableVars == <<catalog, writer>>
seenVars == <<view, held>>
appendVars == <<layout, appended>>
txnVars == <<pc, payload, seenVars, appendVars, misled, batches>>
entryVars == <<cache, absorbed, recycled>>
historyVars == <<origin, ingested>>
boundVars == <<allocated, started>>
vars == <<tableVars, entryVars, txnVars, historyVars, boundVars>>

NoColumns == [c \in {} |-> c]
NoTable == [token |-> 0, cols |-> NoColumns]
NoLayout == [token |-> 0, shape |-> NoColumns, types |-> NoColumns]

--------------------------------------------------------------------------------
(* Payloads and schemas *)

TypeOf(p, c) == InferType(p[c])
SchemaOf(p) == [c \in DOMAIN p |-> TypeOf(p, c)]

\* LogicalType::id(): all lists share one, and JSON is VARCHAR with an alias.
TypeId(t) == IF t.depth > 0 THEN "LIST" ELSE IF t.base = "JSON" THEN "VARCHAR" ELSE t.base

TypeIds(p) == [c \in DOMAIN p |-> TypeId(TypeOf(p, c))]

\* Mutant: only the names are hashed.
NameShape(p) == [c \in DOMAIN p |-> "name"]

\* HashPayloadShape, without its collisions.
HashPayloadShape(p) == TypeIds(p)

\* Mutant: columns are added and never widened.
AddedOnly(cols, p) ==
    [c \in DOMAIN cols \union DOMAIN p |-> IF c \in DOMAIN cols THEN cols[c] ELSE TypeOf(p, c)]

\* Mutant: a column takes the type of the latest payload.
LatestWins(cols, p) ==
    [c \in DOMAIN cols \union DOMAIN p |-> IF c \in DOMAIN p THEN TypeOf(p, c) ELSE cols[c]]

\* ComputeDelta and EvolveNative: the columns after the ALTERs p calls for.
Evolved(cols, p) ==
    [c \in DOMAIN cols \union DOMAIN p |->
        IF c \notin DOMAIN cols THEN TypeOf(p, c)
        ELSE IF c \notin DOMAIN p THEN cols[c]
        ELSE JoinColumnTypes(cols[c], TypeOf(p, c))]

\* Only a JSON column itself is widened with to_json: inside a list the plain
\* cast rejects strings that are not JSON.  TIMESTAMP rejects dates out of range.
CastMayFail(cols, p) ==
    \E c \in DOMAIN cols \intersect DOMAIN p :
        LET wider == JoinColumnTypes(cols[c], TypeOf(p, c))
        IN \/ cols[c].depth > 0 /\ cols[c].base = "VARCHAR" /\ wider = LIST(cols[c].depth, "JSON")
           \/ cols[c].base = "DATE" /\ wider.base = "TIMESTAMP"

\* AppendNative stores no value of p as NULL in columns of these types, but for a
\* date out of range.  A type FillVector does not support is reached by a cast,
\* which fails loudly.
FillsAll(types, p) ==
    \A c \in DOMAIN p : \A v \in p[c] :
        Fits(IF RawFillSupported(types[c]) THEN types[c] ELSE TypeOf(p, c), v)

--------------------------------------------------------------------------------
(* DuckDB *)

\* Transaction s may write to the version it sees: nobody has altered or
\* dropped it since, or s itself has.
MayWrite(s) == writer = s \/ (writer = None /\ view[s].token = catalog.token)

\* The versions that something still refers to.
Live == {0, catalog.token} \union (UNION {held[s] : s \in Sessions})

\* The addresses a new DataTable may get.
Fresh == (1 .. allocated + 1) \ Live

\* Session s replaces the version it sees by one with these columns.
NewVersion(s, cols) ==
    \E t \in Fresh :
        /\ view' = [view EXCEPT ![s] = [token |-> t, cols |-> cols]]
        /\ held' = [held EXCEPT ![s] = @ \union {t}]
        /\ writer' = s
        /\ recycled' = (recycled \/ t = cache.token)
        /\ allocated' = IF t > allocated THEN t ELSE allocated

\* Session s starts or ends a transaction: nothing of an earlier one is left.
Reset(s, where, v) ==
    /\ pc' = [pc EXCEPT ![s] = where]
    /\ payload' = [payload EXCEPT ![s] = NoColumns]
    /\ view' = [view EXCEPT ![s] = v]
    /\ held' = [held EXCEPT ![s] = {v.token}]
    /\ layout' = [layout EXCEPT ![s] = NoLayout]
    /\ batches' = [batches EXCEPT ![s] = 0]
    /\ appended' = [appended EXCEPT ![s] = {}]
    /\ misled' = [misled EXCEPT ![s] = FALSE]

Columns == (UNION {DOMAIN p : p \in Payloads}) \union (UNION {DOMAIN d : d \in Declared})
Shapes == {HashPayloadShape(p) : p \in Payloads}
Batches == [payload : Payloads, misled : BOOLEAN, whole : BOOLEAN]
Working == {"create", "evolve", "absorb", "append"}

IsSchema(cols) == DOMAIN cols \subseteq Columns /\ cols \in [DOMAIN cols -> ColumnTypes]
IsVersion(v) == v = [token |-> v.token, cols |-> v.cols] /\ v.token \in Nat /\ IsSchema(v.cols)

TypeOK ==
    /\ IsVersion(catalog)
    /\ writer \in Sessions \union {None}
    /\ writer # None => pc[writer] # "idle"
    /\ cache \in [token : Nat, shapes : SUBSET Shapes]
    /\ pc \in [Sessions -> {"idle", "open", "internal"} \union Working]
    /\ payload \in [Sessions -> Payloads \union {NoColumns}]
    /\ DOMAIN view = Sessions /\ \A s \in Sessions : IsVersion(view[s])
    /\ held \in [Sessions -> SUBSET Nat]
    /\ DOMAIN layout = Sessions /\ \A s \in Sessions :
           layout[s].token \in Nat /\ IsSchema(layout[s].types)
    /\ batches \in [Sessions -> 0 .. MaxBatches]
    /\ appended \in [Sessions -> SUBSET Batches]
    /\ misled \in [Sessions -> BOOLEAN]
    /\ IsSchema(origin)
    /\ ingested \subseteq Batches
    /\ absorbed \subseteq Payloads
    /\ recycled \in BOOLEAN
    /\ allocated \in Nat
    /\ started \in 0 .. MaxTxns

Init ==
    /\ origin \in Declared \union {NoColumns}
    /\ catalog = IF origin = NoColumns THEN NoTable ELSE [token |-> 1, cols |-> origin]
    /\ writer = None
    /\ cache = [token |-> 0, shapes |-> {}]
    /\ pc = [s \in Sessions |-> "idle"]
    /\ payload = [s \in Sessions |-> NoColumns]
    /\ view = [s \in Sessions |-> NoTable]
    /\ held = [s \in Sessions |-> {0}]
    /\ layout = [s \in Sessions |-> NoLayout]
    /\ batches = [s \in Sessions |-> 0]
    /\ appended = [s \in Sessions |-> {}]
    /\ misled = [s \in Sessions |-> FALSE]
    /\ ingested = {}
    /\ absorbed = {}
    /\ recycled = FALSE
    /\ allocated = 1
    /\ started = 0

--------------------------------------------------------------------------------
(* The ingestor *)

\* RawBeginTransaction and a new RawIngestor.
Begin(s) ==
    /\ pc[s] = "idle"
    /\ started < MaxTxns
    /\ started' = started + 1
    /\ Reset(s, "open", catalog)
    /\ UNCHANGED <<tableVars, entryVars, historyVars, allocated>>

\* Mutant: the transaction ends but its versions stay.
RollbackKeepsWriter(s) ==
    /\ Reset(s, "idle", NoTable)
    /\ UNCHANGED <<tableVars, entryVars, historyVars, boundVars>>

\* RawRollbackTransaction.
Rollback(s) ==
    /\ Reset(s, "idle", NoTable)
    /\ writer' = IF writer = s THEN None ELSE writer
    /\ UNCHANGED <<catalog, entryVars, historyVars, boundVars>>

\* Mutant: the shape alone decides.
AbsorbedAnyVersion(s, p) == HashPayloadShape(p) \in cache.shapes

\* The cache knows that the version s sees needs no ALTER for p.
Absorbed(s, p) == cache.token = view[s].token /\ HashPayloadShape(p) \in cache.shapes

\* The columns of p and q have the same names and ids, and not the same types.
Collide(p, q) == TypeIds(p) = TypeIds(q) /\ SchemaOf(p) # SchemaOf(q)

\* History: the entry says less than it seems to.
Suspect(p) == recycled \/ \E q \in absorbed : Collide(p, q)

\* IngestNative up to the cache's answer; a payload without columns changes
\* nothing.
IngestNative(s, p) ==
    /\ pc[s] = "open"
    /\ DOMAIN p # {} \/ view[s] # NoTable
    /\ batches[s] < MaxBatches
    /\ batches' = [batches EXCEPT ![s] = @ + 1]
    /\ payload' = [payload EXCEPT ![s] = p]
    /\ pc' = [pc EXCEPT ![s] = IF DOMAIN p = {} THEN "open"
                                ELSE IF view[s] = NoTable THEN "create"
                                ELSE IF Absorbed(s, p) THEN "append" ELSE "evolve"]
    /\ misled' = [misled EXCEPT ![s] = /\ pc'[s] = "append"
                                       /\ Evolved(view[s].cols, p) # view[s].cols
                                       /\ Suspect(p)]
    /\ UNCHANGED <<tableVars, entryVars, seenVars, appendVars, historyVars, boundVars>>

\* LegacyIngestNative: "cannot create table from an empty payload".
RejectEmpty(s, p) ==
    /\ pc[s] = "open"
    /\ DOMAIN p = {} /\ view[s] = NoTable
    /\ Rollback(s)

\* LegacyIngestNative with CreateNative.  The shape is not absorbed here.
Create(s) ==
    /\ pc[s] = "create"
    /\ MayWrite(s)
    /\ NewVersion(s, SchemaOf(payload[s]))
    /\ pc' = [pc EXCEPT ![s] = "append"]
    /\ UNCHANGED <<catalog, cache, absorbed, payload, appendVars, misled, batches, historyVars, started>>

\* The slow path of IngestNative when ComputeDelta and EvolveNative find nothing
\* to alter: the table already fits.
EvolveNothing(s) ==
    /\ pc[s] = "evolve"
    /\ Evolved(view[s].cols, payload[s]) = view[s].cols
    /\ pc' = [pc EXCEPT ![s] = "absorb"]
    /\ UNCHANGED <<tableVars, entryVars, payload, seenVars, appendVars, misled, batches,
                   historyVars, boundVars>>

\* The slow path with ALTERs.
EvolveNative(s) ==
    /\ pc[s] = "evolve"
    /\ Evolved(view[s].cols, payload[s]) # view[s].cols
    /\ MayWrite(s)
    /\ NewVersion(s, Evolved(view[s].cols, payload[s]))
    /\ pc' = [pc EXCEPT ![s] = "absorb"]
    /\ UNCHANGED <<catalog, cache, absorbed, payload, appendVars, misled, batches, historyVars, started>>

\* Mutant: the shapes of another version survive.
AbsorbKeepsShapes(s) ==
    /\ pc[s] = "absorb"
    /\ cache' = [token |-> view[s].token,
                 shapes |-> cache.shapes \union {HashPayloadShape(payload[s])}]
    /\ absorbed' = {payload[s]} \union (IF cache.token = view[s].token THEN absorbed ELSE {})
    /\ recycled' = (recycled /\ cache.token = view[s].token)
    /\ pc' = [pc EXCEPT ![s] = "append"]
    /\ UNCHANGED <<tableVars, payload, seenVars, appendVars, misled, batches, historyVars, boundVars>>

\* The locked block after the ALTERs, long before the transaction commits.
Absorb(s) ==
    LET same == cache.token = view[s].token
    IN /\ pc[s] = "absorb"
       /\ cache' = [token |-> view[s].token,
                    shapes |-> {HashPayloadShape(payload[s])}
                                   \union (IF same THEN cache.shapes ELSE {})]
       /\ absorbed' = {payload[s]} \union (IF same THEN absorbed ELSE {})
       /\ recycled' = (recycled /\ same)
       /\ pc' = [pc EXCEPT ![s] = "append"]
       /\ UNCHANGED <<tableVars, payload, seenVars, appendVars, misled, batches, historyVars, boundVars>>

\* The ingestor's own cache of the table's layout.
ResolveAppendLayout(s) ==
    LET shape == HashPayloadShape(payload[s])
    IN IF layout[s].token = view[s].token /\ layout[s].shape = shape
       THEN layout[s]
       ELSE [token |-> view[s].token, shape |-> shape, types |-> view[s].cols]

\* AppendNative.  A column the table lacks is an InternalException.
AppendNative(s) ==
    LET l == ResolveAppendLayout(s)
        found == DOMAIN payload[s] \subseteq DOMAIN l.types
        batch == [payload |-> payload[s], misled |-> misled[s],
                  whole |-> FillsAll(l.types, payload[s])]
    IN /\ pc[s] = "append"
       /\ MayWrite(s)
       /\ pc' = [pc EXCEPT ![s] = IF found THEN "open" ELSE "internal"]
       /\ layout' = IF found THEN [layout EXCEPT ![s] = l] ELSE layout
       /\ appended' = IF found THEN [appended EXCEPT ![s] = @ \union {batch}] ELSE appended
       /\ UNCHANGED <<tableVars, entryVars, payload, seenVars, misled, batches, historyVars, boundVars>>

\* Another transaction has altered or dropped what this one writes to, a cast of
\* the column's values is refused, a cast or a constraint rejects the rows, or the
\* InternalException was thrown.
Fail(s) ==
    /\ \/ pc[s] = "create" /\ ~MayWrite(s)
       \/ /\ pc[s] = "evolve"
          /\ Evolved(view[s].cols, payload[s]) # view[s].cols
          /\ ~MayWrite(s) \/ CastMayFail(view[s].cols, payload[s])
       \/ pc[s] \in {"append", "internal"}
       \/ pc[s] = "open" /\ appended[s] # {} /\ ~MayWrite(s)
    /\ Rollback(s)

\* RawCommitTransaction.
Commit(s) ==
    /\ pc[s] = "open"
    /\ batches[s] > 0
    /\ appended[s] = {} \/ MayWrite(s)
    /\ catalog' = IF writer = s THEN view[s] ELSE catalog
    /\ writer' = IF writer = s THEN None ELSE writer
    /\ ingested' = ingested \union appended[s]
    /\ Reset(s, "idle", NoTable)
    /\ UNCHANGED <<entryVars, origin, boundVars>>

\* A user drops the table.
DropTable ==
    /\ catalog # NoTable /\ writer = None
    /\ started < MaxTxns
    /\ started' = started + 1
    /\ catalog' = NoTable
    /\ origin' = NoColumns /\ ingested' = {}
    /\ UNCHANGED <<writer, entryVars, txnVars, allocated>>

Next ==
    \/ \E s \in Sessions :
        \/ Begin(s) \/ Create(s) \/ EvolveNothing(s) \/ EvolveNative(s) \/ Absorb(s)
        \/ AppendNative(s) \/ Fail(s) \/ Commit(s)
        \/ \E p \in Payloads : IngestNative(s, p) \/ RejectEmpty(s, p)
    \/ DropTable

Spec == Init /\ [][Next]_vars

--------------------------------------------------------------------------------
(* Properties *)

Versions == {catalog} \union {view[s] : s \in Sessions}

\* A cache entry that validates is right: the version it stands for needs no
\* ALTER for any payload of an absorbed shape, although the entry was made by
\* transactions that had not committed and perhaps never did.  It can be wrong
\* in two ways only: the address of the storage has come back with another
\* version, or the shape is also that of other types, and it is those that were
\* absorbed.
CacheSound ==
    \A v \in Versions : \A p \in Payloads :
        /\ v # NoTable /\ v.token = cache.token
        /\ HashPayloadShape(p) \in cache.shapes
        /\ Evolved(v.cols, p) # v.cols
        => Suspect(p)

\* A value of a committed batch is stored as NULL, a date out of range apart, only
\* where the cache let the batch pass in one of those two ways, whatever other
\* sessions did to the table and to the cache between the look at the schema and
\* the append.
NothingNulled == \A b \in ingested : b.whole \/ b.misled

\* "column missing after evolution" is raised for such a batch only.
NoInternalError == \A s \in Sessions : pc[s] = "internal" => misled[s]

\* All the types of T joined to that of a column.
JoinAll(start, T) == FoldSet(LAMBDA t, joined : JoinColumnTypes(joined, t), start, T)

\* The types that payloads P have for column c.
Incoming(P, c) == {TypeOf(p, c) : p \in {q \in P : c \in DOMAIN q}}

\* What columns cols become with the payloads P; a new one starts with any of them.
Joined(cols, P) ==
    [c \in DOMAIN cols \union (UNION {DOMAIN p : p \in P}) |->
        JoinAll(IF c \in DOMAIN cols THEN cols[c] ELSE CHOOSE t \in Incoming(P, c) : TRUE, Incoming(P, c))]

\* The payloads of the batches that the cache has not let pass wrongly.
Judged(B) == {b.payload : b \in {x \in B : ~x.misled}}

\* A column's type is the join of what the user declared and of the types of all
\* the committed payloads that were compared with it or that the cache rightly
\* let pass, in whatever order and transactions they came.
ColumnsAreJoins == catalog # NoTable => catalog.cols = Joined(origin, Judged(ingested))

\* While the table lives no column disappears or becomes narrower: no session
\* overwrites what another one has evolved.
SchemaOnlyWidens ==
    [][catalog # NoTable /\ catalog' # NoTable =>
        \A c \in DOMAIN catalog.cols :
            /\ c \in DOMAIN catalog'.cols
            /\ JoinColumnTypes(catalog.cols[c], catalog'.cols[c]) = catalog'.cols[c]]_vars
================================================================================
