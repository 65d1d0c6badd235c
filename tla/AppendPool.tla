------------------------------- MODULE AppendPool -------------------------------
(***************************************************************************)
(* The append pool and the stream ingestor (raw_ingest.cpp, RawAppendPool, *)
(* the pooled paths of RawIngestor and RawStreamIngestorImpl;              *)
(* raw_insert.cpp, PhysicalRawIngest).  The consumers are the sink threads *)
(* of one INSERT, or the consumers of raw_ingest_file, and share one       *)
(* ingestor.  Schema work is serialized by schema_lock; a batch is then    *)
(* handed to the pool without that lock.  The pool's workers append to     *)
(* collections of their own, whose layout is a prefix of the published     *)
(* columns; Drain stops the workers and merges the collections.  A batch   *)
(* that widens a column drains the pool first.                             *)
(*                                                                         *)
(* The pool's own mutex is not a variable: each block locked by it is one  *)
(* action.  A thread asleep on producer_cv or worker_cv is in the set of   *)
(* that name.                                                              *)
(***************************************************************************)
EXTENDS Naturals, Sequences, FiniteSets, Functions, Selection

CONSTANTS Consumers,    \* the threads that ingest
          Main,         \* the statement's own thread
          Workers,      \* the pool's threads
          None,         \* nobody, no batch
          Batches,
          Content,      \* Content[b]: the columns of batch b, [name, width]
          Large,        \* the batches of at least pool_min_rows rows
          Malformed,    \* the batches with a document that does not parse
          Assignments,  \* how the batches may reach the consumers
          Tables,       \* the layouts the table may have at first; <<>>: no table
          Capacity,     \* max_queue_depth
          Faults        \* which steps may throw

NoColumns == <<>>
NameAt(layout, i) == layout[i].name
Names(layout) == {layout[i].name : i \in DOMAIN layout}
Columns == (UNION {Range(Content[b]) : b \in Batches}) \union (UNION {Range(t) : t \in Tables})

ASSUME PoolAssumption ==
    /\ IsFiniteSet(Consumers) /\ Consumers # {}
    /\ IsFiniteSet(Workers) /\ Workers # {}
    /\ Main \notin Consumers /\ None \notin Consumers \union {Main} \union Batches
    /\ DOMAIN Content = Batches
    /\ \A layout \in Tables \union Range(Content) :
           /\ layout \in Seq(Columns)
           /\ \A i, j \in DOMAIN layout : NameAt(layout, i) = NameAt(layout, j) => i = j
    /\ \A column \in Columns :
           column = [name |-> column.name, width |-> column.width] /\ column.width \in Nat
    /\ Large \subseteq Batches /\ Malformed \subseteq Batches
    /\ \A a \in Assignments :
           /\ a \in [Consumers -> Seq(Batches)]
           /\ UNION {Range(a[c]) : c \in Consumers} = Batches
    /\ \A a \in Assignments : \A c, d \in Consumers :
           \A i \in DOMAIN a[c], j \in DOMAIN a[d] : a[c][i] = a[d][j] => <<c, i>> = <<d, j>>
    /\ Capacity \in Nat \ {0}
    /\ Faults \subseteq {"evolve", "append", "worker", "flush"}

VARIABLES
    table,       \* the table's columns, in order, as the transaction sees it
    schema_lock, \* who holds the ingestor's schema_lock, or None
    todo,        \* todo[c]: the batches of consumer c, its current one first
    pc,          \* pc[t]: where consumer or main thread t is
    seen,        \* seen[c]: a counter that c has read and not yet written back
    rows,        \* ingestor.rows, in batches
    errors,      \* ingestor.errors
    created,     \* ingestor.created
    inserted,    \* the batches in the transaction's local storage
    pool,        \* the ingestor's pool is not null
    types,       \* the pool's published columns (types and slots)
    queue,       \* the batches submitted and not yet taken by a worker
    stopped,     \* the pool's flag
    error,       \* a worker left with an exception
    producer_cv, \* the consumers asleep in Submit
    worker_cv,   \* the workers asleep in WorkerLoop
    worker,      \* worker[w]: "pop", "append", "exit"
    parsed,      \* parsed[w]: the batch w has taken
    pending,     \* pending[w]: the published columns w has yet to add
    local_types, \* local_types[w]: the layout of w's collection
    layout_cache, \* layout_cache[w]: the shape last appended and its layout
    collection,  \* collection[w]: the batches in w's collection
    outcome,     \* the statement: "running", "succeeded", "failed", "crashed"
    overtaken,   \* history: the batches on their way to a pool being drained
    misplaced    \* history: a batch met a layout that is not its own

counters == <<rows, errors, seen, created>>
ingestorVars == <<table, schema_lock, todo, pc, counters, inserted>>
queueVars == <<queue, stopped, error, producer_cv, worker_cv>>
workerVars == <<worker, parsed, pending, local_types, layout_cache, collection>>
poolVars == <<pool, types, queueVars, workerVars>>
historyVars == <<overtaken, misplaced>>
vars == <<ingestorVars, poolVars, outcome, historyVars>>

NoLayout == [shape |-> NoColumns, layout |-> NoColumns]

TypeOK ==
    /\ table \in Seq(Columns)
    /\ schema_lock \in Consumers \union {Main, None}
    /\ todo \in [Consumers -> Seq(Batches)]
    /\ pc \in [Consumers \union {Main} -> {"ready", "count", "lock", "drain", "evolve", "submit",
                                           "inside", "dangling", "hung", "append", "racing", "failed"}]
    /\ seen \in [Consumers -> Nat] /\ rows \in Nat /\ errors \in Nat
    /\ created \in BOOLEAN
    /\ inserted \subseteq Batches
    /\ pool \in BOOLEAN /\ stopped \in BOOLEAN /\ error \in BOOLEAN
    /\ types \in Seq(Columns)
    /\ queue \in Seq(Batches) /\ Len(queue) <= Capacity
    /\ producer_cv \subseteq Consumers /\ worker_cv \subseteq Workers
    /\ worker \in [Workers -> {"pop", "append", "exit"}]
    /\ parsed \in [Workers -> Batches \union {None}]
    /\ pending \in [Workers -> Seq(Columns)]
    /\ local_types \in [Workers -> Seq(Columns)]
    /\ layout_cache \in [Workers -> [shape : Seq(Columns), layout : Seq(Columns)]]
    /\ collection \in [Workers -> SUBSET Batches]
    /\ outcome \in {"running", "succeeded", "failed", "crashed"}
    /\ overtaken \subseteq Batches
    /\ misplaced \in BOOLEAN

\* Nothing of a pool: the state before its creation and after its end.
NoPool ==
    /\ pool = FALSE /\ types = NoColumns
    /\ queue = <<>> /\ stopped = FALSE /\ error = FALSE
    /\ producer_cv = {} /\ worker_cv = {}
    /\ worker = [w \in Workers |-> "exit"]
    /\ parsed = [w \in Workers |-> None]
    /\ pending = [w \in Workers |-> NoColumns]
    /\ local_types = [w \in Workers |-> NoColumns]
    /\ layout_cache = [w \in Workers |-> NoLayout]
    /\ collection = [w \in Workers |-> {}]

Init ==
    /\ table \in Tables
    /\ schema_lock = None
    /\ todo \in Assignments
    /\ pc = [t \in Consumers \union {Main} |-> "ready"]
    /\ seen = [c \in Consumers |-> 0]
    /\ rows = 0 /\ errors = 0
    /\ created = FALSE
    /\ inserted = {}
    /\ NoPool
    /\ outcome = "running"
    /\ overtaken = {}
    /\ misplaced = FALSE

--------------------------------------------------------------------------------
(* Layouts *)

WidthIn(layout, name) == LET i == CHOOSE i \in DOMAIN layout : NameAt(layout, i) = name
                         IN layout[i].width

\* ComputeDelta: the columns that b adds, and whether it widens one.
Adds(layout, b) ==
    Selection(Content[b], {i \in DOMAIN Content[b] : NameAt(Content[b], i) \notin Names(layout)})
Widens(layout, b) ==
    \E i \in DOMAIN Content[b] :
        /\ NameAt(Content[b], i) \in Names(layout)
        /\ WidthIn(layout, NameAt(Content[b], i)) < Content[b][i].width

\* EvolveNative: the layout after the ALTERs b calls for.
Evolved(layout, b) ==
    LET width(i) == IF /\ NameAt(layout, i) \in Names(Content[b])
                       /\ WidthIn(Content[b], NameAt(layout, i)) > layout[i].width
                    THEN WidthIn(Content[b], NameAt(layout, i)) ELSE layout[i].width
    IN [i \in DOMAIN layout |-> [name |-> NameAt(layout, i), width |-> width(i)]] \o Adds(layout, b)

\* Every column of b has a place in the layout that is wide enough.
Fits(layout, b) == Names(Content[b]) \subseteq Names(layout) /\ ~Widens(layout, b)

\* What of a layout comes after another one, its prefix.
Beyond(layout, prefix) == SubSeq(layout, Len(prefix) + 1, Len(layout))

--------------------------------------------------------------------------------
(* A consumer's batch *)

Current(c) == Head(todo[c])
\* Nobody runs any more once the statement has ended.
At(t, where) == outcome = "running" /\ pc[t] = where
Goto(t, where) == pc' = [pc EXCEPT ![t] = where]
Unlocked(t) == schema_lock' = IF schema_lock = t THEN None ELSE schema_lock

\* c is done with its batch and holds no lock.
Done(c) ==
    /\ todo' = [todo EXCEPT ![c] = Tail(@)]
    /\ Goto(c, "ready")
    /\ Unlocked(c)

\* An exception leaves IngestParsedConcurrent: the thread ingests no more.
Throw(c) ==
    /\ todo' = [todo EXCEPT ![c] = <<>>]
    /\ Goto(c, "failed")
    /\ Unlocked(c)

ParseErrors(b) == IF b \in Malformed THEN 1 ELSE 0

\* errors += ... without a lock, first half.  FlushBuilding has dropped what is
\* empty.
ReadErrors(c) ==
    /\ At(c, "ready") /\ todo[c] # <<>>
    /\ seen' = [seen EXCEPT ![c] = errors]
    /\ Goto(c, "count")
    /\ UNCHANGED <<table, schema_lock, todo, rows, errors, created, inserted, poolVars, outcome, historyVars>>

\* Second half.
WriteErrors(c) ==
    /\ At(c, "count")
    /\ errors' = seen[c] + ParseErrors(Current(c))
    /\ seen' = [seen EXCEPT ![c] = 0]
    /\ Goto(c, "lock")
    /\ UNCHANGED <<table, schema_lock, todo, rows, created, inserted, poolVars, outcome, historyVars>>

\* Another thread has failed: the executor, or Abort, stops this one between
\* two batches.
Abandon(c) ==
    /\ At(c, "ready") /\ todo[c] # <<>>
    /\ \E d \in Consumers : pc[d] = "failed"
    /\ todo' = [todo EXCEPT ![c] = <<>>]
    /\ UNCHANGED <<table, schema_lock, pc, counters, inserted, poolVars, outcome, historyVars>>

--------------------------------------------------------------------------------
(* Schema work, under schema_lock *)

Locks(c) == At(c, "lock") /\ schema_lock = None

\* IngestParsed, for a batch that meets no table or has no columns, counts its
\* errors again.
CountAgain(c) == errors' = errors + ParseErrors(Current(c)) /\ UNCHANGED <<rows, seen>>

\* LegacyIngestNative of a batch without columns: an error if there is no table.
IngestNoColumns(c) ==
    /\ Locks(c)
    /\ Content[Current(c)] = NoColumns
    /\ CountAgain(c)
    /\ IF table = NoColumns THEN Throw(c) ELSE Done(c)
    /\ UNCHANGED <<table, created, inserted, poolVars, outcome, historyVars>>

\* EnsurePool after the schema work for b; a pool starts with the table's layout.
EnsurePool(layout, b) ==
    IF pool \/ b \notin Large
    THEN UNCHANGED poolVars
    ELSE /\ pool' = TRUE
         /\ types' = layout
         /\ local_types' = [w \in Workers |-> layout]
         /\ worker' = [w \in Workers |-> "pop"]
         /\ UNCHANGED <<queueVars, parsed, pending, layout_cache, collection>>

\* LegacyIngestNative with CreateNative: schema_lock is kept through the append.
Create(c) ==
    LET b == Current(c)
    IN /\ Locks(c)
       /\ table = NoColumns /\ Content[b] # NoColumns
       /\ CountAgain(c)
       /\ table' = Content[b]
       /\ created' = TRUE
       /\ EnsurePool(Content[b], b)
       /\ schema_lock' = c
       /\ Goto(c, IF pool' THEN "submit" ELSE "append")
       /\ UNCHANGED <<todo, inserted, outcome, historyVars>>

\* Mutant: the pool is not told of the new columns.
PublishNothing(adds) == UNCHANGED poolVars

\* PublishColumns: the new columns are appended, every cached layout is dropped.
PublishColumns(adds) ==
    /\ types' = types \o adds
    /\ layout_cache' = IF adds = NoColumns THEN layout_cache
                       ELSE [w \in Workers |-> [layout_cache[w] EXCEPT !.shape = NoColumns]]
    /\ UNCHANGED <<pool, queueVars, worker, parsed, pending, local_types, collection>>

\* PrepareForAppend once no pool is in the way of a wider column: the ALTERs, then
\* the outstanding pool is told or a new one made.  schema_lock is released.
Evolve(c) ==
    LET b == Current(c)
    IN /\ \/ Locks(c) /\ table # NoColumns /\ Content[b] # NoColumns /\ ~(pool /\ Widens(table, b))
          \/ At(c, "evolve")
       /\ table' = Evolved(table, b)
       /\ IF pool THEN PublishColumns(Adds(table, b)) ELSE EnsurePool(Evolved(table, b), b)
       /\ schema_lock' = None
       /\ Goto(c, IF pool' THEN "submit" ELSE "append")
       /\ UNCHANGED <<todo, counters, inserted, outcome, historyVars>>

\* An ALTER or CREATE throws.
EvolveThrows(c) ==
    /\ "evolve" \in Faults
    /\ Locks(c) \/ At(c, "evolve")
    /\ Throw(c)
    /\ UNCHANGED <<table, counters, inserted, poolVars, outcome, historyVars>>

--------------------------------------------------------------------------------
(* Handing a batch over *)

\* SubmitPreparedBatch looks at the pool without schema_lock.  If another thread
\* has drained it, the rows are appended here, still without the lock: the first
\* half of rows += count.
LookAtPool(c) ==
    /\ At(c, "submit")
    /\ Goto(c, IF pool THEN "inside" ELSE "racing")
    /\ seen' = IF pool THEN seen ELSE [seen EXCEPT ![c] = rows]
    /\ UNCHANGED <<table, schema_lock, todo, rows, errors, created, inserted, poolVars, outcome, historyVars>>

\* notify_one of worker_cv and of producer_cv.
NotifyWorker ==
    \/ worker_cv = {} /\ UNCHANGED worker_cv
    \/ \E w \in worker_cv : worker_cv' = worker_cv \ {w}
NotifyProducer ==
    \/ producer_cv = {} /\ UNCHANGED producer_cv
    \/ \E c \in producer_cv : producer_cv' = producer_cv \ {c}

\* Mutant: one batch too many fits.
RoomOffByOne == Len(queue) <= Capacity

\* queue.size() < max_queue_depth.
Room == Len(queue) < Capacity

\* RawAppendPool::Submit: wait for room; a stopped pool drops the batch.
Submit(c) ==
    /\ At(c, "inside") /\ c \notin producer_cv
    /\ \/ /\ ~Room /\ ~stopped
          /\ producer_cv' = producer_cv \union {c}
          /\ UNCHANGED <<queue, worker_cv, todo, pc, schema_lock>>
       \/ /\ stopped
          /\ Done(c)
          /\ UNCHANGED <<queue, producer_cv, worker_cv>>
       \/ /\ Room /\ ~stopped
          /\ queue' = Append(queue, Current(c))
          /\ NotifyWorker
          /\ Done(c)
          /\ UNCHANGED producer_cv
    /\ UNCHANGED <<table, counters, inserted, pool, types, stopped, error, workerVars,
                   outcome, historyVars>>

\* The pool was destroyed under a thread inside Submit.  That is undefined: the
\* thread may still read stopped and return, it may sleep for ever on what was
\* producer_cv or the mutex, or the process may crash.
Dangle(c) ==
    /\ At(c, "dangling")
    /\ \/ Done(c) /\ UNCHANGED outcome
       \/ Goto(c, "hung") /\ UNCHANGED <<todo, schema_lock, outcome>>
       \/ outcome' = "crashed" /\ UNCHANGED <<todo, pc, schema_lock>>
    /\ UNCHANGED <<table, counters, inserted, poolVars, historyVars>>

\* AppendNative of a batch that needs no pool, under schema_lock.
AppendNative(c) ==
    /\ At(c, "append")
    /\ schema_lock \in {None, c}
    /\ \/ /\ inserted' = inserted \union {Current(c)}
          /\ rows' = rows + 1
          /\ misplaced' = (misplaced \/ ~Fits(table, Current(c)))
          /\ Done(c)
       \/ /\ "append" \in Faults
          /\ Throw(c)
          /\ UNCHANGED <<inserted, rows, misplaced>>
    /\ UNCHANGED <<table, seen, errors, created, poolVars, outcome, overtaken>>

\* The end of an AppendNative without schema_lock.  It is undefined if another
\* thread is at the transaction's storage as well.
AppendUnlocked(c) ==
    /\ At(c, "racing")
    /\ \/ /\ inserted' = inserted \union {Current(c)}
          /\ rows' = seen[c] + 1
          /\ misplaced' = (misplaced \/ ~Fits(table, Current(c)))
          /\ Done(c)
          /\ UNCHANGED outcome
       \/ /\ schema_lock # None \/ \E d \in Consumers \ {c} : pc[d] = "racing"
          /\ outcome' = "crashed"
          /\ UNCHANGED <<inserted, rows, misplaced, todo, pc, schema_lock>>
    /\ seen' = [seen EXCEPT ![c] = 0]
    /\ UNCHANGED <<table, errors, created, poolVars, overtaken>>

--------------------------------------------------------------------------------
(* The workers *)

Works(w, where) == outcome = "running" /\ worker[w] = where

\* The locked block of WorkerLoop: take a batch, and note which published columns
\* are new to this worker.
Take(w) ==
    /\ pool /\ Works(w, "pop") /\ w \notin worker_cv
    /\ \/ /\ queue = <<>> /\ ~stopped
          /\ worker_cv' = worker_cv \union {w}
          /\ UNCHANGED <<queue, producer_cv, worker, parsed, pending>>
       \/ /\ queue = <<>> /\ stopped
          /\ worker' = [worker EXCEPT ![w] = "exit"]
          /\ UNCHANGED <<queue, producer_cv, worker_cv, parsed, pending>>
       \/ /\ queue # <<>>
          /\ parsed' = [parsed EXCEPT ![w] = Head(queue)]
          /\ queue' = Tail(queue)
          /\ pending' = [pending EXCEPT ![w] = Beyond(types, local_types[w])]
          /\ worker' = [worker EXCEPT ![w] = "append"]
          /\ NotifyProducer
          /\ UNCHANGED worker_cv
    /\ UNCHANGED <<ingestorVars, pool, types, stopped, error, local_types, layout_cache,
                   collection, outcome, historyVars>>

\* Mutant: ExtendWorker keeps the cached layout.
LayoutKept(w) ==
    IF layout_cache[w].shape = Content[parsed[w]]
    THEN layout_cache[w].layout ELSE local_types[w] \o pending[w]

\* The layout AppendBatch works with once ExtendWorker has added the columns: the
\* cached one if the shape is the last one's and ExtendWorker had nothing to do.
Layout(w) ==
    IF pending[w] = NoColumns /\ layout_cache[w].shape = Content[parsed[w]]
    THEN layout_cache[w].layout ELSE local_types[w] \o pending[w]

\* ExtendWorker and AppendBatch, outside the lock.
AppendBatch(w) ==
    LET extended == local_types[w] \o pending[w]
    IN /\ Works(w, "append")
       /\ local_types' = [local_types EXCEPT ![w] = extended]
       /\ layout_cache' = [layout_cache EXCEPT ![w] =
                              [shape |-> Content[parsed[w]], layout |-> Layout(w)]]
       /\ misplaced' = (misplaced \/ Layout(w) # extended \/ ~Fits(extended, parsed[w]))
       /\ collection' = [collection EXCEPT ![w] = @ \union {parsed[w]}]
       /\ parsed' = [parsed EXCEPT ![w] = None]
       /\ pending' = [pending EXCEPT ![w] = NoColumns]
       /\ worker' = [worker EXCEPT ![w] = "pop"]
       /\ UNCHANGED <<ingestorVars, pool, types, queueVars, outcome, overtaken>>

\* Mutant: the pool is stopped without the exception being kept.
StopSilently == stopped' = TRUE /\ UNCHANGED error

\* The flags an exception sets.
StopWithError == stopped' = TRUE /\ error' = TRUE

\* Either throws: the worker leaves and the pool takes no more batches.
WorkerThrows(w) ==
    /\ "worker" \in Faults
    /\ Works(w, "append")
    /\ StopWithError
    /\ producer_cv' = {} /\ worker_cv' = {}
    /\ parsed' = [parsed EXCEPT ![w] = None]
    /\ pending' = [pending EXCEPT ![w] = NoColumns]
    /\ worker' = [worker EXCEPT ![w] = "exit"]
    /\ UNCHANGED <<ingestorVars, pool, types, queue, local_types, layout_cache, collection,
                   outcome, historyVars>>

--------------------------------------------------------------------------------
(* Draining the pool *)

\* Mutant: only the consumers are woken.
StopPoolWakingConsumers ==
    /\ stopped' = TRUE
    /\ producer_cv' = {}
    /\ UNCHANGED <<pool, types, queue, error, worker_cv, workerVars>>

\* RawAppendPool::Stop up to the joins.
StopPool ==
    /\ stopped' = TRUE
    /\ producer_cv' = {} /\ worker_cv' = {}
    /\ UNCHANGED <<pool, types, queue, error, workerVars>>

\* The other threads whose batch is on its way to the pool.
Overtaken(t) == {Current(c) : c \in {c \in Consumers \ {t} : pc[c] \in {"submit", "inside"}}}

\* PrepareForAppend of a batch that widens a column: Drain starts.
DrainToWiden(c) ==
    LET b == Current(c)
    IN /\ Locks(c)
       /\ table # NoColumns /\ Content[b] # NoColumns /\ pool /\ Widens(table, b)
       /\ StopPool
       /\ schema_lock' = c
       /\ Goto(c, "drain")
       /\ overtaken' = overtaken \union Overtaken(c)
       /\ UNCHANGED <<table, todo, counters, inserted, outcome, misplaced>>

Joined == \A w \in Workers : worker[w] = "exit"

\* The pool is gone; a thread still inside Submit is left with its memory.
PoolGone ==
    /\ pool' = FALSE /\ types' = NoColumns
    /\ queue' = <<>> /\ stopped' = FALSE /\ error' = FALSE
    /\ local_types' = [w \in Workers |-> NoColumns]
    /\ layout_cache' = [w \in Workers |-> NoLayout]
    /\ collection' = [w \in Workers |-> {}]
    /\ UNCHANGED <<producer_cv, worker_cv, worker, parsed, pending>>

\* Where the threads are once t goes to where and the pool is gone.
GotoWithoutPool(t, where) ==
    pc' = [u \in DOMAIN pc |-> IF u = t THEN where
                               ELSE IF pc[u] = "inside" THEN "dangling" ELSE pc[u]]

Collected == UNION Range(collection)

\* Phase 1 pads each collection to the published columns, phase 2 merges those
\* that are not empty into the table's local storage, column by column.
Merge ==
    LET padded(w) == local_types[w] \o Beyond(types, local_types[w])
    IN /\ Joined /\ ~error
       /\ inserted' = inserted \union Collected
       /\ rows' = rows + Cardinality(Collected)
       /\ misplaced' = (misplaced \/ \E w \in Workers : collection[w] # {} /\ padded(w) # table)
       /\ PoolGone

\* The rest of Drain; the pool is reset and the ALTERs follow.
DrainedToWiden(c) ==
    /\ At(c, "drain")
    /\ Merge
    /\ GotoWithoutPool(c, "evolve")
    /\ UNCHANGED <<table, schema_lock, todo, seen, errors, created, outcome, overtaken>>

\* Drain rethrows a worker's exception and merges nothing; the pool stays stopped.
DrainThrows(c) ==
    /\ At(c, "drain")
    /\ Joined /\ error
    /\ Throw(c)
    /\ UNCHANGED <<table, counters, inserted, poolVars, outcome, historyVars>>

\* A write fails in a flusher of phase 1, a bare std::thread: std::terminate.
FlusherThrows ==
    /\ "flush" \in Faults
    /\ Joined /\ ~error /\ Collected # {}
    /\ \E t \in Consumers \union {Main} : At(t, "drain")
    /\ outcome' = "crashed"
    /\ UNCHANGED <<ingestorVars, poolVars, historyVars>>

Returned(c) == pc[c] = "failed" \/ (pc[c] = "ready" /\ todo[c] = <<>>)
ConsumersDone == \A c \in Consumers : Returned(c)
SomeFailed == \E c \in Consumers : pc[c] = "failed"

\* Every consumer has returned: Finish drains the pool, or the destructor stops it.
Finish ==
    /\ At(Main, "ready")
    /\ ConsumersDone
    /\ pool
    /\ StopPool
    /\ Goto(Main, "drain")
    /\ UNCHANGED <<table, schema_lock, todo, counters, inserted, outcome, historyVars>>

\* The statement ends.  With a failure the transaction rolls back.
End ==
    /\ \/ /\ At(Main, "ready") /\ ConsumersDone /\ ~pool
          /\ outcome' = IF SomeFailed THEN "failed" ELSE "succeeded"
          /\ UNCHANGED <<inserted, rows, pc, poolVars, misplaced>>
       \/ /\ At(Main, "drain") /\ ~SomeFailed /\ Merge
          /\ GotoWithoutPool(Main, "ready")
          /\ outcome' = "succeeded"
       \/ /\ At(Main, "drain") /\ Joined /\ (SomeFailed \/ error)
          /\ outcome' = "failed"
          /\ UNCHANGED <<inserted, rows, pc, poolVars, misplaced>>
    /\ UNCHANGED <<table, schema_lock, todo, seen, errors, created, overtaken>>

--------------------------------------------------------------------------------
ConsumerStep(c) ==
    \/ ReadErrors(c) \/ WriteErrors(c) \/ Abandon(c)
    \/ IngestNoColumns(c) \/ Create(c) \/ Evolve(c) \/ EvolveThrows(c)
    \/ LookAtPool(c) \/ Submit(c) \/ Dangle(c) \/ AppendNative(c) \/ AppendUnlocked(c)
    \/ DrainToWiden(c) \/ DrainedToWiden(c) \/ DrainThrows(c)
WorkerStep(w) == Take(w) \/ AppendBatch(w) \/ WorkerThrows(w)
MainStep == Finish \/ End

Next ==
    \/ \E c \in Consumers : ConsumerStep(c)
    \/ \E w \in Workers : WorkerStep(w)
    \/ MainStep
    \/ FlusherThrows

Spec == Init /\ [][Next]_vars

\* The operating system runs every thread that can run.
FairSpec ==
    /\ Spec
    /\ \A c \in Consumers : WF_vars(ConsumerStep(c))
    /\ \A w \in Workers : WF_vars(WorkerStep(w))
    /\ WF_vars(MainStep)

--------------------------------------------------------------------------------
(* Properties *)

\* The places batch b can be in.
Places(b) ==
    {<<"consumer", c>> : c \in {c \in Consumers : b \in Range(todo[c])}}
    \union {<<"queue", i>> : i \in {i \in DOMAIN queue : queue[i] = b}}
    \union {<<"worker", w>> : w \in {w \in Workers : parsed[w] = b}}
    \union {<<"collection", w>> : w \in {w \in Workers : b \in collection[w]}}
    \union {<<"inserted", 0>> : i \in {b} \intersect inserted}

\* Something went wrong that will make the statement fail.
Doomed == error \/ SomeFailed

\* A batch of the stream is never in two places: workers, collections and the
\* table do not repeat it.  It is in no place only if the statement is going to
\* fail, if it has no columns, or if a widening batch drained the pool while it was
\* on its way there.
BatchInOnePlace ==
    \A b \in Batches :
        /\ Cardinality(Places(b)) <= 1
        /\ Places(b) = {} => Doomed \/ Content[b] = NoColumns \/ b \in overtaken

\* Every value goes to the column it belongs to, although columns are published
\* while workers append and each worker has its own prefix of them: a cached layout
\* is the collection's, the collection fits the batch, and what is merged has the
\* table's layout.
ColumnsLineUp == ~misplaced

\* A statement that succeeds has inserted every batch, however its threads,
\* workers and drains overlapped; only overtaken batches are at risk.  The number
\* of rows it reports is the number it inserted, and it counts no error twice but
\* those of the batch that created the table and of batches without columns.
SuccessIsComplete ==
    outcome = "succeeded" =>
        /\ \A b \in Batches : b \in inserted \/ b \in overtaken \/ Content[b] = NoColumns
        /\ overtaken = {} => rows = Cardinality(inserted)
        /\ errors <= Cardinality(Malformed)
                     + Cardinality({b \in Malformed : Content[b] = NoColumns})
                     + (IF created THEN 1 ELSE 0)

\* A statement that succeeds has inserted every batch: IngestParsedConcurrent is
\* "thread-safe" (raw_functions.hpp).
NothingLost ==
    outcome = "succeeded" => \A b \in Batches : b \in inserted \/ Content[b] = NoColumns

\* Only threads hung in a pool that was destroyed under them have not returned.
HungUp ==
    /\ \E c \in Consumers : pc[c] = "hung"
    /\ \A c \in Consumers : pc[c] = "hung" \/ Returned(c)

\* The statement ends: no thread is left asleep, whichever worker fails and whoever
\* drains the pool, but in a pool that was destroyed under it; and such a thread
\* holds up the statement and no other consumer.
Terminates == <>(outcome # "running" \/ HungUp)
================================================================================
