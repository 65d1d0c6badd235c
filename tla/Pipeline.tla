-------------------------------- MODULE Pipeline --------------------------------
(***************************************************************************)
(* The bounded pipeline of raw_ingest_file (raw_ingest.cpp,                *)
(* RawIngestPipeline and RawIngestFileFunction): one reader thread splits  *)
(* the file into raw batches, parser threads turn raw batches into parsed  *)
(* ones, and one or more consumers coalesce and ingest them.  The two      *)
(* queues share one mutex; the reader and the parsers block on the same    *)
(* condition variable, producer_cv, when their queue is full, and every    *)
(* pop wakes one thread of it.                                             *)
(*                                                                         *)
(* The mutex is not a variable: each locked block is one action.  A wait   *)
(* is two kinds of step: the thread finds its predicate false and joins    *)
(* the wait set, or, not in it, finds the predicate true and goes on.      *)
(***************************************************************************)
EXTENDS Naturals, Sequences, FiniteSets, Functions

CONSTANTS Parsers,     \* parse threads (PipelineThreadCount)
          Consumers,   \* ingesting threads (PipelineConsumerCount)
          Reader,      \* the reader thread
          N,           \* number of non-blank batches in the file
          Capacity,    \* rawduck_pipeline_depth
          ShapeOf,     \* ShapeOf[b]: HashPayloadShape of batch b
          MergeRows,   \* pool_min_rows, in batches
          Native,      \* the target is a DuckDB table, not a DuckLake one
          Faults       \* which steps may throw

ASSUME PipelineAssumption ==
    /\ IsFiniteSet(Parsers) /\ Parsers # {}
    /\ IsFiniteSet(Consumers) /\ Consumers # {}
    /\ Parsers \intersect Consumers = {}
    /\ Reader \notin Parsers \union Consumers
    /\ N \in Nat
    /\ Capacity \in Nat \ {0}
    /\ DOMAIN ShapeOf = 1..N
    /\ MergeRows \in Nat
    /\ Native \in BOOLEAN
    /\ Faults \subseteq {"read", "parse", "ingest", "finish"}

VARIABLES
    next,            \* the batch the reader will emit next
    reader,          \* "read", "push", "exit" or "fail" (to call ReaderDone), "done"
    parser,          \* parser[p]: "pop", "parse", "push", "exit", "done"
    parsing,         \* parsing[p]: the batch parser p holds
    parse_failed,    \* the parsers that left with an exception
    raw_queue,       \* raw batches awaiting parsing
    queue,           \* parsed batches awaiting ingestion
    active_parsers, reader_done, aborted,
    error,           \* an exception is stored in pipeline.error
    waiting,         \* waiting[cv]: the threads blocked on cv
    consumer,        \* consumer[c]: "pop", "coalesce", "flush", "abort", "done"
    item,            \* item[c]: the batch consumer c popped last
    pending_storage, \* pending_storage[c]: the batches merged in c's hands
    consumer_error,  \* some consumer left with an exception
    ingested,        \* ingested[b]: how often b's rows were ingested
    dropped,         \* history: the batches ingested without an error and without effect
    result           \* the statement: "running", "joining", "failing", "ok", "failed"

queues   == <<raw_queue, queue>>
flags    == <<active_parsers, reader_done, aborted, error>>
readerVars   == <<next, reader>>
parserVars   == <<parser, parsing, parse_failed>>
consumerVars == <<consumer, item, pending_storage, consumer_error, ingested, dropped>>
vars == <<readerVars, parserVars, consumerVars, queues, flags, waiting, result>>

Batches == 1..N
Threads == {Reader} \union Parsers \union Consumers
CondVars == {"producer", "parser", "consumer"}
Nothing == 0      \* no batch in hand

TypeOK ==
    /\ next \in 1..(N + 1)
    /\ reader \in {"read", "push", "exit", "fail", "done"}
    /\ parser \in [Parsers -> {"pop", "parse", "push", "exit", "done"}]
    /\ parsing \in [Parsers -> Batches \union {Nothing}]
    /\ parse_failed \subseteq Parsers
    /\ raw_queue \in Seq(Batches)
    /\ queue \in Seq(Batches)
    /\ active_parsers \in 0..Cardinality(Parsers)
    /\ reader_done \in BOOLEAN /\ aborted \in BOOLEAN /\ error \in BOOLEAN
    /\ waiting \in [CondVars -> SUBSET Threads]
    /\ consumer \in [Consumers -> {"pop", "coalesce", "flush", "abort", "done"}]
    /\ item \in [Consumers -> Batches \union {Nothing}]
    /\ pending_storage \in [Consumers -> Seq(Batches)]
    /\ consumer_error \in BOOLEAN
    /\ ingested \in [Batches -> Nat]
    /\ dropped \subseteq Batches
    /\ result \in {"running", "joining", "failing", "ok", "failed"}

Init ==
    /\ next = 1
    /\ reader = "read"
    /\ parser = [p \in Parsers |-> "pop"]
    /\ parsing = [p \in Parsers |-> Nothing]
    /\ parse_failed = {}
    /\ raw_queue = <<>>
    /\ queue = <<>>
    /\ active_parsers = Cardinality(Parsers)
    /\ reader_done = FALSE /\ aborted = FALSE /\ error = FALSE
    /\ waiting = [cv \in CondVars |-> {}]
    /\ consumer = [c \in Consumers |-> "pop"]
    /\ item = [c \in Consumers |-> Nothing]
    /\ pending_storage = [c \in Consumers |-> <<>>]
    /\ consumer_error = FALSE
    /\ ingested = [b \in Batches |-> 0]
    /\ dropped = {}
    /\ result = "running"

--------------------------------------------------------------------------------
(* Condition variables *)

Asleep(t) == \E cv \in CondVars : t \in waiting[cv]

\* t finds its predicate false: it releases the mutex and sleeps on cv.
Sleep(t, cv) == waiting' = [waiting EXCEPT ![cv] = @ \union {t}]

\* notify_one wakes any one thread of cv, if there is one.
NotifyOne(cv) ==
    \/ waiting[cv] = {} /\ UNCHANGED waiting
    \/ \E t \in waiting[cv] : waiting' = [waiting EXCEPT ![cv] = @ \ {t}]

\* notify_all on each of cvs.
NotifyAll(cvs) ==
    waiting' = [cv \in CondVars |-> IF cv \in cvs THEN {} ELSE waiting[cv]]

--------------------------------------------------------------------------------
(* The reader thread *)

\* Mutant: the reader emits a batch more than the file has.
MoreToReadOffByOne == next <= N + 1

\* handle->Read still returns data.
MoreToRead == next <= N

\* handle->Read and the split: the next batch, the end of the file, or an exception.
ReadBatch ==
    /\ reader = "read"
    /\ \/ MoreToRead /\ reader' = "push"
       \/ ~MoreToRead /\ reader' = "exit"
       \/ "read" \in Faults /\ reader' = "fail"
    /\ UNCHANGED <<next, parserVars, consumerVars, queues, flags, waiting, result>>

\* PushRaw of the next batch: wait for room, give up silently when aborted.
PushRaw ==
    /\ reader = "push"
    /\ ~Asleep(Reader)
    /\ \/ /\ ~aborted /\ Len(raw_queue) >= Capacity
          /\ Sleep(Reader, "producer")
          /\ UNCHANGED <<next, reader, raw_queue>>
       \/ /\ ~aborted /\ Len(raw_queue) < Capacity
          /\ raw_queue' = Append(raw_queue, next)
          /\ next' = next + 1
          /\ reader' = "read"
          /\ NotifyOne("parser")
       \/ /\ aborted
          /\ next' = next + 1
          /\ reader' = "read"
          /\ UNCHANGED <<raw_queue, waiting>>
    /\ UNCHANGED <<parserVars, consumerVars, queue, flags, result>>

ReaderDone ==
    /\ reader \in {"exit", "fail"}
    /\ error' = (error \/ reader = "fail")
    /\ reader_done' = TRUE
    /\ NotifyAll({"parser", "consumer"})
    /\ reader' = "done"
    /\ UNCHANGED <<next, parserVars, consumerVars, queues, active_parsers, aborted, result>>

--------------------------------------------------------------------------------
(* The parser threads *)

\* PopRaw: wait for a raw batch; false when there will be no more.
PopRaw(p) ==
    /\ parser[p] = "pop"
    /\ ~Asleep(p)
    /\ \/ /\ raw_queue = <<>> /\ ~reader_done /\ ~aborted
          /\ Sleep(p, "parser")
          /\ UNCHANGED <<parser, parsing, raw_queue>>
       \/ /\ aborted \/ (raw_queue = <<>> /\ reader_done)
          /\ parser' = [parser EXCEPT ![p] = "exit"]
          /\ UNCHANGED <<parsing, raw_queue, waiting>>
       \/ /\ raw_queue # <<>> /\ ~aborted
          /\ parsing' = [parsing EXCEPT ![p] = Head(raw_queue)]
          /\ raw_queue' = Tail(raw_queue)
          /\ parser' = [parser EXCEPT ![p] = "parse"]
          /\ NotifyOne("producer")
    /\ UNCHANGED <<readerVars, parse_failed, consumerVars, queue, flags, result>>

\* RawParsedPayload::Process: the batch is parsed, or the parser leaves with
\* the exception.
Parse(p) ==
    /\ parser[p] = "parse"
    /\ \/ /\ parser' = [parser EXCEPT ![p] = "push"]
          /\ UNCHANGED <<parsing, parse_failed>>
       \/ /\ "parse" \in Faults
          /\ parse_failed' = parse_failed \union {p}
          /\ parsing' = [parsing EXCEPT ![p] = Nothing]
          /\ parser' = [parser EXCEPT ![p] = "exit"]
    /\ UNCHANGED <<readerVars, consumerVars, queues, flags, waiting, result>>

\* Push of the parsed batch: wait for room, give up silently when aborted.
Push(p) ==
    /\ parser[p] = "push"
    /\ ~Asleep(p)
    /\ \/ /\ ~aborted /\ Len(queue) >= Capacity
          /\ Sleep(p, "producer")
          /\ UNCHANGED <<parser, parsing, queue>>
       \/ /\ ~aborted /\ Len(queue) < Capacity
          /\ queue' = Append(queue, parsing[p])
          /\ NotifyOne("consumer")
          /\ parsing' = [parsing EXCEPT ![p] = Nothing]
          /\ parser' = [parser EXCEPT ![p] = "pop"]
       \/ /\ aborted
          /\ parsing' = [parsing EXCEPT ![p] = Nothing]
          /\ parser' = [parser EXCEPT ![p] = "pop"]
          /\ UNCHANGED <<queue, waiting>>
    /\ UNCHANGED <<readerVars, parse_failed, consumerVars, raw_queue, flags, result>>

\* Only the first stored exception aborts the pipeline.
ParserDone(p) ==
    /\ parser[p] = "exit"
    /\ LET aborts == p \in parse_failed /\ ~error
       IN /\ error' = (error \/ aborts)
          /\ aborted' = (aborted \/ aborts)
          /\ NotifyAll(IF aborts THEN CondVars ELSE {"consumer"})
    /\ active_parsers' = active_parsers - 1
    /\ parser' = [parser EXCEPT ![p] = "done"]
    /\ UNCHANGED <<readerVars, parsing, parse_failed, consumerVars, queues, reader_done, result>>

--------------------------------------------------------------------------------
(* The consumers *)

\* Pop: wait for a parsed batch; false when there will be no more.
Pop(c) ==
    /\ consumer[c] = "pop"
    /\ ~Asleep(c)
    /\ LET over == reader_done /\ active_parsers = 0
       IN \/ /\ queue = <<>> /\ ~aborted /\ ~over
             /\ Sleep(c, "consumer")
             /\ UNCHANGED <<consumer, item, queue>>
          \/ /\ aborted \/ (queue = <<>> /\ over)
             /\ consumer' = [consumer EXCEPT ![c] = "flush"]
             /\ UNCHANGED <<item, queue, waiting>>
          \/ /\ queue # <<>> /\ ~aborted
             /\ item' = [item EXCEPT ![c] = Head(queue)]
             /\ queue' = Tail(queue)
             /\ consumer' = [consumer EXCEPT ![c] = "coalesce"]
             /\ NotifyOne("producer")
    /\ UNCHANGED <<readerVars, parserVars, pending_storage, consumer_error, ingested, dropped,
                   raw_queue, flags, result>>

\* rawduck_pipeline_consumers is set: the consumers share a stream ingestor.
Several == Cardinality(Consumers) > 1

\* Which batches of a merged item may have reached the table when its ingestion
\* returns.  A native table: all of them; but the append pool drops the item,
\* and returns, if another consumer drains the pool while it is on its way there
\* (module AppendPool).  Elsewhere the item's text is ingested, which is its first
\* batch's, and nothing at all with several consumers, who pass an empty text.
Delivered(merged) ==
    CASE Native /\ ~Several  -> {Range(merged)}
      [] Native /\ Several   -> {Range(merged), {}}
      [] ~Native /\ ~Several -> {{Head(merged)}}
      [] ~Native /\ Several  -> {{}}

Ingest(merged) ==
    \E delivered \in Delivered(merged) :
        /\ ingested' = [b \in Batches |->
                           IF b \in delivered THEN ingested[b] + 1 ELSE ingested[b]]
        /\ dropped' = dropped \union (Range(merged) \ delivered)

\* Ingesting throws; on the path of several consumers to a table that is not
\* native it does so for every batch of objects.
MayThrow == "ingest" \in Faults \/ (Several /\ ~Native)

\* Batch b joins what is kept: nothing is, or HashPayloadShape agrees and the
\* sum of the rows stays below pool_min_rows.
Joins(merged, b) ==
    merged # <<>> => /\ ShapeOf[Head(merged)] = ShapeOf[b]
                     /\ Len(merged) + 1 < MergeRows

\* Mutant: the batch that does not join what was kept is not kept itself.
CoalesceForgets(c) ==
    /\ consumer[c] = "coalesce"
    /\ \/ /\ Joins(pending_storage[c], item[c])
          /\ pending_storage' = [pending_storage EXCEPT ![c] = Append(@, item[c])]
          /\ UNCHANGED <<ingested, dropped>>
       \/ /\ ~Joins(pending_storage[c], item[c])
          /\ Ingest(pending_storage[c])
          /\ pending_storage' = [pending_storage EXCEPT ![c] = <<>>]
    /\ consumer' = [consumer EXCEPT ![c] = "pop"]
    /\ item' = [item EXCEPT ![c] = Nothing]
    /\ UNCHANGED <<readerVars, parserVars, consumer_error, queues, flags, waiting, result>>

\* coalesce_and_ingest of the popped batch: keep it, merge it, or ingest what
\* was kept and keep it instead; ingesting may throw.
Coalesce(c) ==
    /\ consumer[c] = "coalesce"
    /\ LET merged == pending_storage[c]
       IN \/ /\ Joins(merged, item[c])
             /\ pending_storage' = [pending_storage EXCEPT ![c] = Append(@, item[c])]
             /\ consumer' = [consumer EXCEPT ![c] = "pop"]
             /\ UNCHANGED <<ingested, dropped>>
          \/ /\ ~Joins(merged, item[c])
             /\ Ingest(merged)
             /\ pending_storage' = [pending_storage EXCEPT ![c] = <<item[c]>>]
             /\ consumer' = [consumer EXCEPT ![c] = "pop"]
          \/ /\ ~Joins(merged, item[c])
             /\ MayThrow
             /\ pending_storage' = [pending_storage EXCEPT ![c] = <<>>]
             /\ consumer' = [consumer EXCEPT ![c] = "abort"]
             /\ UNCHANGED <<ingested, dropped>>
    /\ item' = [item EXCEPT ![c] = Nothing]
    /\ UNCHANGED <<readerVars, parserVars, consumer_error, queues, flags, waiting, result>>

\* After the last Pop, what is still kept is ingested.
Flush(c) ==
    /\ consumer[c] = "flush"
    /\ \/ /\ pending_storage[c] = <<>>
          /\ consumer' = [consumer EXCEPT ![c] = "done"]
          /\ UNCHANGED <<ingested, dropped>>
       \/ /\ pending_storage[c] # <<>>
          /\ Ingest(pending_storage[c])
          /\ consumer' = [consumer EXCEPT ![c] = "done"]
       \/ /\ pending_storage[c] # <<>>
          /\ MayThrow
          /\ consumer' = [consumer EXCEPT ![c] = "abort"]
          /\ UNCHANGED <<ingested, dropped>>
    /\ pending_storage' = [pending_storage EXCEPT ![c] = <<>>]
    /\ UNCHANGED <<readerVars, parserVars, item, consumer_error, queues, flags, waiting, result>>

\* Mutant: nobody is woken by an abort.
SetAbortedSilently ==
    /\ aborted' = TRUE
    /\ reader_done' = TRUE
    /\ UNCHANGED waiting

\* Abort wakes the reader and the parsers, not the other consumers.
SetAborted ==
    /\ aborted' = TRUE
    /\ reader_done' = TRUE
    /\ NotifyAll({"parser", "producer"})

Abort(c) ==
    /\ consumer[c] = "abort"
    /\ SetAborted
    /\ consumer_error' = TRUE
    /\ consumer' = [consumer EXCEPT ![c] = "done"]
    /\ UNCHANGED <<readerVars, parserVars, item, pending_storage, ingested, dropped, queues,
                   active_parsers, error, result>>

--------------------------------------------------------------------------------
(* The statement's own thread *)

\* Every consumer has returned: rethrow, or drain the append pool (Finish),
\* which may throw as well.
Finish ==
    /\ result = "running"
    /\ \A c \in Consumers : consumer[c] = "done"
    /\ \/ /\ ~consumer_error
          /\ result' = "joining"
          /\ UNCHANGED <<aborted, reader_done, waiting>>
       \/ /\ consumer_error \/ "finish" \in Faults
          /\ SetAborted
          /\ result' = "failing"
    /\ UNCHANGED <<readerVars, parserVars, consumerVars, queues, active_parsers, error>>

\* Mutant: the exception of the reader or of a parser is not looked at.
JoinIgnoringError ==
    /\ result \in {"joining", "failing"}
    /\ reader = "done"
    /\ \A p \in Parsers : parser[p] = "done"
    /\ result' = IF result = "joining" THEN "ok" ELSE "failed"
    /\ UNCHANGED <<readerVars, parserVars, consumerVars, queues, flags, waiting>>

\* join_all, then the exception of the reader or of a parser is rethrown.
Join ==
    /\ result \in {"joining", "failing"}
    /\ reader = "done"
    /\ \A p \in Parsers : parser[p] = "done"
    /\ result' = IF result = "joining" /\ ~error THEN "ok" ELSE "failed"
    /\ UNCHANGED <<readerVars, parserVars, consumerVars, queues, flags, waiting>>

--------------------------------------------------------------------------------
ReaderStep == ReadBatch \/ PushRaw \/ ReaderDone
ParserStep(p) == PopRaw(p) \/ Parse(p) \/ Push(p) \/ ParserDone(p)
ConsumerStep(c) == Pop(c) \/ Coalesce(c) \/ Flush(c) \/ Abort(c)
MainStep == Finish \/ Join

Next ==
    \/ ReaderStep
    \/ \E p \in Parsers : ParserStep(p)
    \/ \E c \in Consumers : ConsumerStep(c)
    \/ MainStep

Spec == Init /\ [][Next]_vars

\* The operating system runs every thread that can run.
FairSpec ==
    /\ Spec
    /\ WF_vars(ReaderStep)
    /\ \A p \in Parsers : WF_vars(ParserStep(p))
    /\ \A c \in Consumers : WF_vars(ConsumerStep(c))
    /\ WF_vars(MainStep)

--------------------------------------------------------------------------------
(* Properties *)

Finished == result \in {"ok", "failed"}

\* The places a batch can be in.
Places(b) ==
    {<<"file", 0, i>> : i \in {i \in {b} : b >= next}}
    \union {<<"raw", 0, i>> : i \in {i \in DOMAIN raw_queue : raw_queue[i] = b}}
    \union {<<"parser", p, 0>> : p \in {p \in Parsers : parsing[p] = b}}
    \union {<<"parsed", 0, i>> : i \in {i \in DOMAIN queue : queue[i] = b}}
    \union {<<"popped", c, 0>> : c \in {c \in Consumers : item[c] = b}}
    \union (UNION {{<<"kept", c, i>> : i \in {i \in DOMAIN pending_storage[c] : pending_storage[c][i] = b}} :
                     c \in Consumers})
    \union {<<"ingested", 0, i>> : i \in 1..ingested[b]}
    \union {<<"dropped", 0, i>> : i \in {b} \intersect dropped}

\* Something went wrong that will make the statement fail.
WillFail ==
    \/ error \/ aborted \/ consumer_error \/ parse_failed # {}
    \/ \E c \in Consumers : consumer[c] = "abort"

\* A batch is never in two places, and never in none unless the statement is
\* going to fail: no hand-over between the threads loses or repeats a batch.
NoBatchLostOrRepeated ==
    \A b \in Batches :
      /\ Cardinality(Places(b)) <= 1
      /\ ~WillFail => Places(b) # {}

\* A statement that succeeds has ingested every batch of the file exactly once,
\* whichever of its threads failed or aborted, but for those whose ingestion had no
\* effect; a native target with one consumer knows none of these.  ("The whole file
\* is one atomic operation", README.md, is more than the other settings keep.)
SuccessMeansWholeFile ==
    result = "ok" =>
        \A b \in Batches :
            \/ ingested[b] = 1
            \/ ingested[b] = 0 /\ b \in dropped /\ (Several \/ ~Native)

\* A pop of the parsed queue may wake the reader in place of a parser.  In the end
\* every parser that has not left sleeps in Push although there is room, the
\* consumers have nothing to wait for but them, and the reader has left or sleeps
\* too, its own queue being full: nobody wakes anybody any more.
WakeUpLost ==
    /\ ~aborted /\ queue = <<>>
    /\ waiting["consumer"] = Consumers
    /\ waiting["producer"] \intersect Parsers = {p \in Parsers : parser[p] # "done"}
    /\ \E p \in Parsers : parser[p] = "push"
    /\ \/ Reader \in waiting["producer"] /\ Len(raw_queue) = Capacity
       \/ reader = "done"

\* The statement ends, whichever thread fails, unless the one condition variable of
\* the reader and the parsers leaves it as WakeUpLost says: no other fall of the
\* wake-ups, no abort and no exception leaves a thread asleep for good.
Terminates == <>(Finished \/ WakeUpLost)
================================================================================
