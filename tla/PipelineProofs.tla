----------------------------- MODULE PipelineProofs -----------------------------
(***************************************************************************)
(* Theorems about Pipeline, for any number of batches, parsers and         *)
(* consumers, any capacity and any faults.                                 *)
(***************************************************************************)
EXTENDS Pipeline, QueueFacts, FiniteSetTheorems

\* Next, by the thread of its steps.
LEMMA NextCases ==
    ASSUME Next
    PROVE  \/ ReadBatch \/ PushRaw \/ ReaderDone
           \/ \E p \in Parsers : PopRaw(p) \/ Parse(p) \/ Push(p) \/ ParserDone(p)
           \/ \E c \in Consumers : Pop(c) \/ Coalesce(c) \/ Flush(c) \/ Abort(c)
           \/ Finish \/ Join
  BY DEF Next, ReaderStep, ParserStep, ConsumerStep, MainStep

--------------------------------------------------------------------------------
(* Typing *)

\* A thread has a batch in hand exactly between taking it and passing it on.
HandsInv ==
    /\ reader = "push" => next <= N
    /\ \A p \in Parsers : parsing[p] # Nothing <=> parser[p] \in {"parse", "push"}
    /\ \A c \in Consumers : /\ item[c] # Nothing <=> consumer[c] = "coalesce"
                            /\ consumer[c] \in {"abort", "done"} => pending_storage[c] = <<>>

\* active_parsers counts the parsers that have not left.
ActiveExact == active_parsers = Cardinality({p \in Parsers : parser[p] # "done"})

TypeInv == TypeOK /\ HandsInv /\ ActiveExact

\* Falling asleep and waking up keep the wait sets.
LEMMA WaitType ==
    ASSUME waiting \in [CondVars -> SUBSET Threads]
    PROVE  /\ \A t \in Threads, cv \in CondVars :
                Sleep(t, cv) => waiting' \in [CondVars -> SUBSET Threads]
           /\ \A cv \in CondVars : NotifyOne(cv) => waiting' \in [CondVars -> SUBSET Threads]
           /\ \A cvs : NotifyAll(cvs) => waiting' \in [CondVars -> SUBSET Threads]
  <1>1. ASSUME NEW t \in Threads, NEW cv \in CondVars, Sleep(t, cv)
        PROVE  waiting' \in [CondVars -> SUBSET Threads]
    BY <1>1 DEF Sleep
  <1>2. ASSUME NEW cv \in CondVars, NotifyOne(cv)
        PROVE  waiting' \in [CondVars -> SUBSET Threads]
    BY <1>2 DEF NotifyOne
  <1>3. ASSUME NEW cvs, NotifyAll(cvs)
        PROVE  waiting' \in [CondVars -> SUBSET Threads]
    BY <1>3 DEF NotifyAll
  <1> QED
    BY <1>1, <1>2, <1>3

\* A queue keeps its type, and what was taken from it is a batch.
LEMMA QueueType ==
    ASSUME NEW q \in Seq(Batches)
    PROVE  /\ q # <<>> => Head(q) \in Batches /\ Tail(q) \in Seq(Batches)
           /\ \A b \in Batches : Append(q, b) \in Seq(Batches)
           /\ Range(q) \subseteq Batches
  BY DEF Range

\* Ingesting keeps the counts natural, and drops batches of the item only.
LEMMA IngestType ==
    ASSUME ingested \in [Batches -> Nat], dropped \subseteq Batches,
           NEW merged \in Seq(Batches), Ingest(merged)
    PROVE  /\ ingested' \in [Batches -> Nat]
           /\ dropped' \subseteq Batches
  BY QueueType DEF Ingest

LEMMA TypeStep ==
    ASSUME TypeInv, [Next]_vars
    PROVE  TypeInv'
  <1> USE PipelineAssumption DEF queues, flags, readerVars, parserVars, consumerVars
  <1> DEFINE P == {p \in Parsers : parser[p] # "done"}
  <1>0. /\ Nothing \notin Batches
        /\ "producer" \in CondVars /\ "parser" \in CondVars /\ "consumer" \in CondVars
        /\ Reader \in Threads /\ Parsers \subseteq Threads /\ Consumers \subseteq Threads
    BY DEF Nothing, Batches, CondVars, Threads
  <1>1. CASE PushRaw
    <2>1. next' \in 1..(N + 1) /\ raw_queue' \in Seq(Batches)
      <3>1. next \in 1..(N + 1) /\ next \in Batches
        BY <1>1 DEF TypeInv, TypeOK, HandsInv, PushRaw, Batches
      <3>2. next \in Batches => next + 1 \in 1..(N + 1)
        BY DEF Batches
      <3>3. raw_queue \in Seq(Batches)
        BY DEF TypeInv, TypeOK
      <3>4. \A b \in Batches : Append(raw_queue, b) \in Seq(Batches)
        BY <3>3, QueueType
      <3>5. \/ next' = next /\ raw_queue' = raw_queue
            \/ next' = next + 1 /\ raw_queue' = Append(raw_queue, next)
            \/ next' = next + 1 /\ raw_queue' = raw_queue
        BY <1>1 DEF PushRaw
      <3> QED
        BY <3>1, <3>2, <3>3, <3>4, <3>5
    <2>2. waiting' \in [CondVars -> SUBSET Threads]
      BY <1>0, <1>1, WaitType DEF TypeInv, TypeOK, PushRaw
    <2>3. /\ UNCHANGED <<parserVars, consumerVars, queue, flags, result>>
          /\ reader' = "read" \/ UNCHANGED <<next, reader>>
      BY <1>1 DEF PushRaw
    <2> QED
      BY <2>1, <2>2, <2>3 DEF TypeInv, TypeOK, HandsInv, ActiveExact
  <1>2. CASE ReadBatch
    BY <1>2 DEF TypeInv, TypeOK, HandsInv, ActiveExact, ReadBatch, MoreToRead
  <1>3. CASE ReaderDone
    <2>1. waiting' \in [CondVars -> SUBSET Threads]
      BY <1>3, WaitType DEF TypeInv, TypeOK, ReaderDone
    <2> QED
      BY <1>3, <2>1 DEF TypeInv, TypeOK, HandsInv, ActiveExact, ReaderDone
  <1>4. ASSUME NEW p \in Parsers, PopRaw(p)
        PROVE  TypeInv'
    <2>1. raw_queue' \in Seq(Batches) /\ (raw_queue # <<>> => Head(raw_queue) \in Batches)
      <3>1. raw_queue \in Seq(Batches)
        BY DEF TypeInv, TypeOK
      <3> QED
        BY <1>4, <3>1, QueueType DEF PopRaw
    <2>2. waiting' \in [CondVars -> SUBSET Threads]
      BY <1>0, <1>4, WaitType DEF TypeInv, TypeOK, PopRaw
    <2>3. /\ parsing' \in [Parsers -> Batches \union {Nothing}]
          /\ parser' \in [Parsers -> {"pop", "parse", "push", "exit", "done"}]
      <3>1. /\ parsing \in [Parsers -> Batches \union {Nothing}]
            /\ parser \in [Parsers -> {"pop", "parse", "push", "exit", "done"}]
        BY DEF TypeInv, TypeOK
      <3>2. /\ \/ parsing' = parsing
               \/ raw_queue # <<>> /\ parsing' = [parsing EXCEPT ![p] = Head(raw_queue)]
            /\ \/ parser' = parser
               \/ parser' = [parser EXCEPT ![p] = "exit"]
               \/ parser' = [parser EXCEPT ![p] = "parse"]
        BY <1>4 DEF PopRaw
      <3> QED
        BY <2>1, <3>1, <3>2
    <2>4. \A q \in Parsers : parsing'[q] # Nothing <=> parser'[q] \in {"parse", "push"}
      BY <1>0, <1>4, <2>1 DEF TypeInv, TypeOK, HandsInv, PopRaw
    <2>5. {q \in Parsers : parser'[q] # "done"} = P
      BY <1>4 DEF TypeInv, TypeOK, PopRaw
    <2>6. UNCHANGED <<readerVars, parse_failed, consumerVars, queue, flags, result>>
      BY <1>4 DEF PopRaw
    <2> QED
      BY <2>1, <2>2, <2>3, <2>4, <2>5, <2>6 DEF TypeInv, TypeOK, HandsInv, ActiveExact
  <1>5. ASSUME NEW p \in Parsers, Parse(p)
        PROVE  TypeInv'
    <2>1. /\ parsing' \in [Parsers -> Batches \union {Nothing}]
          /\ parser' \in [Parsers -> {"pop", "parse", "push", "exit", "done"}]
          /\ parse_failed' \subseteq Parsers
      <3>1. /\ parsing \in [Parsers -> Batches \union {Nothing}]
            /\ parser \in [Parsers -> {"pop", "parse", "push", "exit", "done"}]
            /\ parse_failed \subseteq Parsers
        BY DEF TypeInv, TypeOK
      <3> QED
        BY <1>5, <3>1 DEF Parse
    <2>2. \A q \in Parsers : parsing'[q] # Nothing <=> parser'[q] \in {"parse", "push"}
      <3>1. /\ parsing \in [Parsers -> Batches \union {Nothing}]
            /\ parser \in [Parsers -> {"pop", "parse", "push", "exit", "done"}]
        BY DEF TypeInv, TypeOK
      <3>2. \/ parsing'[p] = parsing[p] /\ parser[p] = "parse" /\ parser'[p] = "push"
            \/ parsing'[p] = Nothing /\ parser'[p] = "exit"
        BY <1>5, <3>1 DEF Parse
      <3>3. \A q \in Parsers \ {p} : parsing'[q] = parsing[q] /\ parser'[q] = parser[q]
        BY <1>5, <3>1 DEF Parse
      <3> QED
        BY <3>2, <3>3 DEF TypeInv, HandsInv
    <2>3. {q \in Parsers : parser'[q] # "done"} = P
      BY <1>5 DEF TypeInv, TypeOK, Parse
    <2>4. UNCHANGED <<readerVars, consumerVars, queues, flags, waiting, result>>
      BY <1>5 DEF Parse
    <2> QED
      BY <2>1, <2>2, <2>3, <2>4 DEF TypeInv, TypeOK, HandsInv, ActiveExact
  <1>6. ASSUME NEW p \in Parsers, Push(p)
        PROVE  TypeInv'
    <2>1. parsing[p] \in Batches
      BY <1>6 DEF TypeInv, TypeOK, HandsInv, Push
    <2>2. queue' \in Seq(Batches)
      <3>1. queue \in Seq(Batches)
        BY DEF TypeInv, TypeOK
      <3> QED
        BY <1>6, <2>1, <3>1, QueueType DEF Push
    <2>3. waiting' \in [CondVars -> SUBSET Threads]
      BY <1>0, <1>6, WaitType DEF TypeInv, TypeOK, Push
    <2>4. /\ parsing' \in [Parsers -> Batches \union {Nothing}]
          /\ parser' \in [Parsers -> {"pop", "parse", "push", "exit", "done"}]
      <3>1. /\ parsing \in [Parsers -> Batches \union {Nothing}]
            /\ parser \in [Parsers -> {"pop", "parse", "push", "exit", "done"}]
        BY DEF TypeInv, TypeOK
      <3> QED
        BY <1>6, <3>1 DEF Push
    <2>5. \A q \in Parsers : parsing'[q] # Nothing <=> parser'[q] \in {"parse", "push"}
      <3>1. /\ parsing \in [Parsers -> Batches \union {Nothing}]
            /\ parser \in [Parsers -> {"pop", "parse", "push", "exit", "done"}]
        BY DEF TypeInv, TypeOK
      <3>2. \/ parsing'[p] = parsing[p] /\ parser'[p] = parser[p]
            \/ parsing'[p] = Nothing /\ parser'[p] = "pop"
        BY <1>6, <3>1 DEF Push
      <3>3. \A q \in Parsers \ {p} : parsing'[q] = parsing[q] /\ parser'[q] = parser[q]
        BY <1>6, <3>1 DEF Push
      <3> QED
        BY <3>2, <3>3 DEF TypeInv, HandsInv
    <2>6. {q \in Parsers : parser'[q] # "done"} = P
      BY <1>6 DEF TypeInv, TypeOK, Push
    <2>7. UNCHANGED <<readerVars, parse_failed, consumerVars, raw_queue, flags, result>>
      BY <1>6 DEF Push
    <2> QED
      BY <2>2, <2>3, <2>4, <2>5, <2>6, <2>7 DEF TypeInv, TypeOK, HandsInv, ActiveExact
  <1>7. ASSUME NEW p \in Parsers, ParserDone(p)
        PROVE  TypeInv'
    <2>1. /\ parser' \in [Parsers -> {"pop", "parse", "push", "exit", "done"}]
          /\ error' \in BOOLEAN /\ aborted' \in BOOLEAN
      BY <1>7 DEF TypeInv, TypeOK, ParserDone
    <2>2. waiting' \in [CondVars -> SUBSET Threads]
      BY <1>7, WaitType DEF TypeInv, TypeOK, ParserDone
    <2>3. {q \in Parsers : parser'[q] # "done"} = P \ {p} /\ p \in P
      BY <1>7 DEF TypeInv, TypeOK, ParserDone
    <2>4. IsFiniteSet(P) /\ P \subseteq Parsers
      BY FS_Subset
    <2>5. IsFiniteSet(P \ {p}) /\ Cardinality(P \ {p}) = Cardinality(P) - 1
      BY <2>3, <2>4, FS_RemoveElement
    <2>6. /\ Cardinality(P) \in Nat /\ Cardinality(P \ {p}) \in Nat
          /\ Cardinality(Parsers) \in Nat /\ Cardinality(P) <= Cardinality(Parsers)
      BY <2>4, <2>5, FS_CardinalityType, FS_Subset
    <2>7. active_parsers' = Cardinality(P \ {p}) /\ active_parsers' \in 0..Cardinality(Parsers)
      BY <1>7, <2>5, <2>6 DEF TypeInv, ActiveExact, ParserDone
    <2>8. \A q \in Parsers : parser'[q] \in {"parse", "push"} <=> parser[q] \in {"parse", "push"}
      BY <1>7 DEF TypeInv, TypeOK, ParserDone
    <2>9. UNCHANGED <<readerVars, parsing, parse_failed, consumerVars, queues, reader_done, result>>
      BY <1>7 DEF ParserDone
    <2> QED
      BY <2>1, <2>2, <2>3, <2>7, <2>8, <2>9 DEF TypeInv, TypeOK, HandsInv, ActiveExact
  <1>8. ASSUME NEW c \in Consumers, Pop(c)
        PROVE  TypeInv'
    <2>1. queue' \in Seq(Batches) /\ (queue # <<>> => Head(queue) \in Batches)
      <3>1. queue \in Seq(Batches)
        BY DEF TypeInv, TypeOK
      <3> QED
        BY <1>8, <3>1, QueueType DEF Pop
    <2>2. waiting' \in [CondVars -> SUBSET Threads]
      BY <1>0, <1>8, WaitType DEF TypeInv, TypeOK, Pop
    <2>3. /\ item \in [Consumers -> Batches \union {Nothing}]
          /\ consumer \in [Consumers -> {"pop", "coalesce", "flush", "abort", "done"}]
      BY DEF TypeInv, TypeOK
    <2>4. /\ consumer[c] = "pop"
          /\ \/ item' = item /\ consumer' = consumer
             \/ item' = item /\ consumer' = [consumer EXCEPT ![c] = "flush"]
             \/ /\ queue # <<>> /\ item' = [item EXCEPT ![c] = Head(queue)]
                /\ consumer' = [consumer EXCEPT ![c] = "coalesce"]
      BY <1>8 DEF Pop
    <2>5. /\ item' \in [Consumers -> Batches \union {Nothing}]
          /\ consumer' \in [Consumers -> {"pop", "coalesce", "flush", "abort", "done"}]
      BY <2>1, <2>3, <2>4
    <2>6. \A d \in Consumers : /\ item'[d] # Nothing <=> consumer'[d] = "coalesce"
                               /\ consumer'[d] \in {"abort", "done"} => pending_storage[d] = <<>>
      BY <1>0, <2>1, <2>3, <2>4 DEF TypeInv, HandsInv
    <2>7. UNCHANGED <<readerVars, parserVars, pending_storage, consumer_error, ingested, dropped,
                      raw_queue, flags, result>>
      BY <1>8 DEF Pop
    <2> QED
      BY <2>1, <2>2, <2>5, <2>6, <2>7 DEF TypeInv, TypeOK, HandsInv, ActiveExact
  <1>9. ASSUME NEW c \in Consumers, Coalesce(c)
        PROVE  TypeInv'
    <2>1. item[c] \in Batches /\ <<>> \in Seq(Batches)
      BY <1>9 DEF TypeInv, TypeOK, HandsInv, Coalesce
    <2>2. pending_storage' \in [Consumers -> Seq(Batches)]
      <3>1. <<item[c]>> \in Seq(Batches) /\ Append(pending_storage[c], item[c]) \in Seq(Batches)
        <4>1. pending_storage[c] \in Seq(Batches)
          BY DEF TypeInv, TypeOK
        <4> QED
          BY <2>1, <4>1
      <3>2. pending_storage \in [Consumers -> Seq(Batches)]
        BY DEF TypeInv, TypeOK
      <3>3. \/ pending_storage' = [pending_storage EXCEPT ![c] = Append(pending_storage[c], item[c])]
            \/ pending_storage' = [pending_storage EXCEPT ![c] = <<item[c]>>]
            \/ pending_storage' = [pending_storage EXCEPT ![c] = <<>>]
        BY <1>9 DEF Coalesce
      <3> QED
        BY <2>1, <3>1, <3>2, <3>3
    <2>3. ingested' \in [Batches -> Nat] /\ dropped' \subseteq Batches
      BY <1>9, IngestType DEF TypeInv, TypeOK, Coalesce
    <2>4. /\ item' \in [Consumers -> Batches \union {Nothing}]
          /\ consumer' \in [Consumers -> {"pop", "coalesce", "flush", "abort", "done"}]
      <3>1. /\ item' = [item EXCEPT ![c] = Nothing]
            /\ \/ consumer' = [consumer EXCEPT ![c] = "pop"]
               \/ consumer' = [consumer EXCEPT ![c] = "abort"]
        BY <1>9 DEF Coalesce
      <3> QED
        BY <3>1 DEF TypeInv, TypeOK
    <2>5. \A d \in Consumers : /\ item'[d] # Nothing <=> consumer'[d] = "coalesce"
                               /\ consumer'[d] \in {"abort", "done"} => pending_storage'[d] = <<>>
      <3>1. /\ consumer \in [Consumers -> {"pop", "coalesce", "flush", "abort", "done"}]
            /\ item \in [Consumers -> Batches \union {Nothing}]
            /\ pending_storage \in [Consumers -> Seq(Batches)]
        BY DEF TypeInv, TypeOK
      <3>2. /\ item'[c] = Nothing /\ consumer'[c] \in {"pop", "abort"}
            /\ consumer'[c] = "abort" => pending_storage'[c] = <<>>
        BY <1>9, <3>1 DEF Coalesce
      <3>3. \A d \in Consumers \ {c} : /\ item'[d] = item[d] /\ consumer'[d] = consumer[d]
                                      /\ pending_storage'[d] = pending_storage[d]
        BY <1>9, <3>1 DEF Coalesce
      <3> QED
        BY <3>2, <3>3 DEF TypeInv, HandsInv
    <2>6. UNCHANGED <<readerVars, parserVars, consumer_error, queues, flags, waiting, result>>
      BY <1>9 DEF Coalesce
    <2> QED
      BY <2>2, <2>3, <2>4, <2>5, <2>6 DEF TypeInv, TypeOK, HandsInv, ActiveExact
  <1>10. ASSUME NEW c \in Consumers, Flush(c)
         PROVE  TypeInv'
    <2>1. pending_storage' \in [Consumers -> Seq(Batches)]
      <3>1. <<>> \in Seq(Batches)
        OBVIOUS
      <3> QED
        BY <1>10, <3>1 DEF TypeInv, TypeOK, Flush
    <2>2. ingested' \in [Batches -> Nat] /\ dropped' \subseteq Batches
      BY <1>10, IngestType DEF TypeInv, TypeOK, Flush
    <2>3. consumer' \in [Consumers -> {"pop", "coalesce", "flush", "abort", "done"}]
      BY <1>10 DEF TypeInv, TypeOK, Flush
    <2>4. \A d \in Consumers : /\ item[d] # Nothing <=> consumer'[d] = "coalesce"
                               /\ consumer'[d] \in {"abort", "done"} => pending_storage'[d] = <<>>
      BY <1>10 DEF TypeInv, TypeOK, HandsInv, Flush
    <2>5. UNCHANGED <<readerVars, parserVars, item, consumer_error, queues, flags, waiting, result>>
      BY <1>10 DEF Flush
    <2> QED
      BY <2>1, <2>2, <2>3, <2>4, <2>5 DEF TypeInv, TypeOK, HandsInv, ActiveExact
  <1>11. ASSUME NEW c \in Consumers, Abort(c)
         PROVE  TypeInv'
    <2>1. waiting' \in [CondVars -> SUBSET Threads]
      BY <1>11, WaitType DEF TypeInv, TypeOK, Abort, SetAborted
    <2> QED
      BY <1>11, <2>1 DEF TypeInv, TypeOK, HandsInv, ActiveExact, Abort, SetAborted
  <1>12. CASE Finish
    <2>1. waiting' \in [CondVars -> SUBSET Threads]
      BY <1>12, WaitType DEF TypeInv, TypeOK, Finish, SetAborted
    <2> QED
      BY <1>12, <2>1 DEF TypeInv, TypeOK, HandsInv, ActiveExact, Finish, SetAborted
  <1>13. CASE Join
    BY <1>13 DEF TypeInv, TypeOK, HandsInv, ActiveExact, Join
  <1>14. CASE UNCHANGED vars
    BY <1>14 DEF TypeInv, TypeOK, HandsInv, ActiveExact, vars
  <1> QED
    BY <1>1, <1>2, <1>3, <1>4, <1>5, <1>6, <1>7, <1>8, <1>9, <1>10, <1>11, <1>12, <1>13,
       <1>14, NextCases

THEOREM TypeInvariant == Spec => []TypeInv
  <1>1. Init => TypeInv
    <2> SUFFICES ASSUME Init PROVE TypeInv
      OBVIOUS
    <2>1. {p \in Parsers : parser[p] # "done"} = Parsers
      BY DEF Init
    <2>2. Cardinality(Parsers) \in 0..Cardinality(Parsers)
      BY PipelineAssumption, FS_CardinalityType
    <2>3. 1 \in 1..(N + 1)
      BY PipelineAssumption
    <2>4. /\ raw_queue \in Seq(Batches) /\ queue \in Seq(Batches)
          /\ pending_storage \in [Consumers -> Seq(Batches)]
      BY DEF Init
    <2>5. /\ next \in 1..(N + 1) /\ active_parsers \in 0..Cardinality(Parsers)
          /\ ingested \in [Batches -> Nat] /\ waiting \in [CondVars -> SUBSET Threads]
          /\ parsing \in [Parsers -> Batches \union {Nothing}]
          /\ item \in [Consumers -> Batches \union {Nothing}]
      BY <2>2, <2>3 DEF Init
    <2>6. TypeOK
      BY <2>4, <2>5 DEF Init, TypeOK
    <2> QED
      BY <2>1, <2>6 DEF Init, TypeInv, HandsInv, ActiveExact
  <1> QED
    BY <1>1, TypeStep, PTL DEF Spec

\* The types hold: active_parsers never drops below zero, every batch in a
\* queue or a hand is one of the file's.
THEOREM PipelineTypeCorrect == Spec => []TypeOK
  <1>1. TypeInv => TypeOK
    BY DEF TypeInv
  <1> QED
    BY <1>1, TypeInvariant, PTL

--------------------------------------------------------------------------------
(* Where the batches are *)

InFile    == {b \in Batches : b >= next}
InRaw     == Range(raw_queue)
InParsers == {b \in Batches : \E p \in Parsers : parsing[p] = b}
InQueue   == Range(queue)
InItems   == {b \in Batches : \E c \in Consumers : item[c] = b}
InKept    == {b \in Batches : \E c \in Consumers : b \in Range(pending_storage[c])}
Settled   == {b \in Batches : ingested[b] # 0} \union dropped

\* No batch is in two stages of the pipeline.
StagesApart ==
    /\ InFile \intersect (InRaw \union InParsers \union InQueue \union InItems \union InKept \union Settled) = {}
    /\ InRaw \intersect (InParsers \union InQueue \union InItems \union InKept \union Settled) = {}
    /\ InParsers \intersect (InQueue \union InItems \union InKept \union Settled) = {}
    /\ InQueue \intersect (InItems \union InKept \union Settled) = {}
    /\ InItems \intersect (InKept \union Settled) = {}
    /\ InKept \intersect Settled = {}

\* Nor twice in one stage.
OnceInStage ==
    /\ IsInjective(raw_queue) /\ IsInjective(queue)
    /\ \A p, q \in Parsers : parsing[p] # Nothing /\ parsing[p] = parsing[q] => p = q
    /\ \A c, d \in Consumers : item[c] # Nothing /\ item[c] = item[d] => c = d
    /\ \A c \in Consumers : IsInjective(pending_storage[c])
    /\ \A c, d \in Consumers :
         c # d => Range(pending_storage[c]) \intersect Range(pending_storage[d]) = {}
    /\ \A b \in Batches : ingested[b] \in {0, 1}
    /\ \A b \in dropped : ingested[b] = 0

\* Nor in none, unless the statement is going to fail.
NoneMissing ==
    ~WillFail => Batches \subseteq InFile \union InRaw \union InParsers \union InQueue
                                   \union InItems \union InKept \union Settled

PlaceInv == StagesApart /\ OnceInStage /\ NoneMissing

\* A step that moves no batch.
LEMMA StillPlace ==
    ASSUME PlaceInv, WillFail => WillFail',
           UNCHANGED <<next, raw_queue, parsing, queue, item, pending_storage, ingested, dropped>>
    PROVE  PlaceInv'
  <1>1. /\ InFile' = InFile /\ InRaw' = InRaw /\ InParsers' = InParsers /\ InQueue' = InQueue
        /\ InItems' = InItems /\ InKept' = InKept /\ Settled' = Settled
    BY DEF InFile, InRaw, InParsers, InQueue, InItems, InKept, Settled
  <1> QED
    BY <1>1 DEF PlaceInv, StagesApart, OnceInStage, NoneMissing

\* A parser takes a batch, or gives up the one it has.
LEMMA ParserHands ==
    ASSUME TypeInv, PlaceInv, NEW p \in Parsers
    PROVE  /\ \A b \in Batches \ InParsers :
                parsing[p] = Nothing /\ parsing' = [parsing EXCEPT ![p] = b] =>
                  /\ InParsers' = InParsers \union {b}
                  /\ \A q, r \in Parsers : parsing'[q] # Nothing /\ parsing'[q] = parsing'[r] => q = r
           /\ parsing[p] # Nothing /\ parsing' = [parsing EXCEPT ![p] = Nothing] =>
                  /\ parsing[p] \in InParsers
                  /\ InParsers' = InParsers \ {parsing[p]}
                  /\ \A q, r \in Parsers : parsing'[q] # Nothing /\ parsing'[q] = parsing'[r] => q = r
  <1>0. parsing \in [Parsers -> Batches \union {Nothing}] /\ Nothing \notin Batches
    BY DEF TypeInv, TypeOK, Nothing, Batches
  <1>1. ASSUME NEW b \in Batches \ InParsers, parsing[p] = Nothing,
               parsing' = [parsing EXCEPT ![p] = b]
        PROVE  /\ InParsers' = InParsers \union {b}
               /\ \A q, r \in Parsers : parsing'[q] # Nothing /\ parsing'[q] = parsing'[r] => q = r
    BY <1>0, <1>1 DEF InParsers, PlaceInv, OnceInStage
  <1>2. ASSUME parsing[p] # Nothing, parsing' = [parsing EXCEPT ![p] = Nothing]
        PROVE  /\ parsing[p] \in InParsers
               /\ InParsers' = InParsers \ {parsing[p]}
               /\ \A q, r \in Parsers : parsing'[q] # Nothing /\ parsing'[q] = parsing'[r] => q = r
    <2>1. \A q \in Parsers : parsing'[q] = IF q = p THEN Nothing ELSE parsing[q]
      BY <1>0, <1>2
    <2> QED
      BY <1>0, <1>2, <2>1 DEF InParsers, PlaceInv, OnceInStage
  <1> QED
    BY <1>1, <1>2

\* So does a consumer.
LEMMA ConsumerHands ==
    ASSUME TypeInv, PlaceInv, NEW c \in Consumers
    PROVE  /\ \A b \in Batches \ InItems :
                item[c] = Nothing /\ item' = [item EXCEPT ![c] = b] =>
                  /\ InItems' = InItems \union {b}
                  /\ \A d, e \in Consumers : item'[d] # Nothing /\ item'[d] = item'[e] => d = e
           /\ item[c] # Nothing /\ item' = [item EXCEPT ![c] = Nothing] =>
                  /\ item[c] \in InItems
                  /\ InItems' = InItems \ {item[c]}
                  /\ \A d, e \in Consumers : item'[d] # Nothing /\ item'[d] = item'[e] => d = e
  <1>0. item \in [Consumers -> Batches \union {Nothing}] /\ Nothing \notin Batches
    BY DEF TypeInv, TypeOK, Nothing, Batches
  <1>1. ASSUME NEW b \in Batches \ InItems, item[c] = Nothing, item' = [item EXCEPT ![c] = b]
        PROVE  /\ InItems' = InItems \union {b}
               /\ \A d, e \in Consumers : item'[d] # Nothing /\ item'[d] = item'[e] => d = e
    BY <1>0, <1>1 DEF InItems, PlaceInv, OnceInStage
  <1>2. ASSUME item[c] # Nothing, item' = [item EXCEPT ![c] = Nothing]
        PROVE  /\ item[c] \in InItems
               /\ InItems' = InItems \ {item[c]}
               /\ \A d, e \in Consumers : item'[d] # Nothing /\ item'[d] = item'[e] => d = e
    <2>1. \A d \in Consumers : item'[d] = IF d = c THEN Nothing ELSE item[d]
      BY <1>0, <1>2
    <2> QED
      BY <1>0, <1>2, <2>1 DEF InItems, PlaceInv, OnceInStage
  <1> QED
    BY <1>1, <1>2

LEMMA PushRawPlace ==
    ASSUME TypeInv, PlaceInv, PushRaw
    PROVE  PlaceInv'
  <1> USE DEF queues, flags, readerVars, parserVars, consumerVars
  <1>0. UNCHANGED <<parsing, queue, item, pending_storage, ingested, dropped, parse_failed, consumer,
                    consumer_error, error, aborted>>
    BY DEF PushRaw
  <1>1. (WillFail <=> WillFail') /\ (aborted => WillFail')
    BY <1>0 DEF WillFail
  <1>2. /\ InParsers' = InParsers /\ InQueue' = InQueue /\ InItems' = InItems
        /\ InKept' = InKept /\ Settled' = Settled
    BY <1>0 DEF InParsers, InQueue, InItems, InKept, Settled
  <1>3. CASE UNCHANGED <<next, raw_queue>>
    BY <1>0, <1>1, <1>3, StillPlace
  <1>4. CASE next' = next + 1
    <2>1. next \in Batches /\ raw_queue \in Seq(Batches)
      BY <1>4, PipelineAssumption DEF PushRaw, TypeInv, TypeOK, HandsInv, Batches
    <2>2. InFile' = InFile \ {next} /\ next \in InFile
      BY <1>4, <2>1, PipelineAssumption DEF InFile, Batches
    <2>3. CASE raw_queue' = Append(raw_queue, next)
      <3>1. next \notin Range(raw_queue)
        BY <2>2 DEF PlaceInv, StagesApart, InRaw
      <3>2. InRaw' = InRaw \union {next} /\ IsInjective(raw_queue')
        BY <2>1, <2>3, <3>1, AppendedQueue DEF InRaw, PlaceInv, OnceInStage
      <3>3. StagesApart'
        BY <1>2, <2>2, <3>2 DEF PlaceInv, StagesApart
      <3>4. NoneMissing'
        BY <1>1, <1>2, <2>2, <3>2 DEF PlaceInv, NoneMissing
      <3> QED
        BY <1>0, <3>2, <3>3, <3>4 DEF PlaceInv, OnceInStage
    <2>4. CASE raw_queue' = raw_queue /\ aborted
      <3>1. InRaw' = InRaw
        BY <2>4 DEF InRaw
      <3>2. StagesApart'
        BY <1>2, <2>2, <3>1 DEF PlaceInv, StagesApart
      <3> QED
        BY <1>0, <1>1, <2>4, <3>2 DEF PlaceInv, OnceInStage, NoneMissing
    <2>5. next' # next
      BY <1>4, <2>1, PipelineAssumption DEF Batches
    <2> QED
      BY <2>3, <2>4, <2>5 DEF PushRaw
  <1> QED
    BY <1>3, <1>4 DEF PushRaw

LEMMA ParserPlace ==
    ASSUME TypeInv, PlaceInv, NEW p \in Parsers, PopRaw(p) \/ Parse(p) \/ Push(p)
    PROVE  PlaceInv'
  <1> USE DEF queues, flags, readerVars, parserVars, consumerVars
  <1>0. UNCHANGED <<next, item, pending_storage, ingested, dropped, consumer, consumer_error, error, aborted>>
    BY DEF PopRaw, Parse, Push
  <1>1. /\ parse_failed \subseteq parse_failed'
        /\ WillFail => WillFail'
        /\ aborted \/ parse_failed' # {} => WillFail'
    <2>1. parse_failed \subseteq parse_failed'
      BY DEF PopRaw, Parse, Push
    <2> QED
      BY <1>0, <2>1 DEF WillFail
  <1>2. InFile' = InFile /\ InItems' = InItems /\ InKept' = InKept /\ Settled' = Settled
    BY <1>0 DEF InFile, InItems, InKept, Settled
  <1>3. CASE UNCHANGED <<raw_queue, parsing, queue>>
    BY <1>0, <1>1, <1>3, StillPlace
  <1>4. CASE PopRaw(p) /\ raw_queue # <<>> /\ raw_queue' = Tail(raw_queue)
             /\ parsing' = [parsing EXCEPT ![p] = Head(raw_queue)]
    <2> DEFINE b == Head(raw_queue)
    <2>1. raw_queue \in Seq(Batches) /\ b \in Batches
      BY <1>4 DEF TypeInv, TypeOK
    <2>2. b \in InRaw /\ InRaw' = InRaw \ {b} /\ IsInjective(raw_queue')
      BY <1>4, <2>1, ShortenedQueue DEF InRaw, PlaceInv, OnceInStage
    <2>3. b \notin InParsers
      BY <2>2 DEF PlaceInv, StagesApart
    <2>4. parsing[p] = Nothing
      BY <1>4 DEF PopRaw, TypeInv, HandsInv
    <2>5. /\ InParsers' = InParsers \union {b}
          /\ \A q, r \in Parsers : parsing'[q] # Nothing /\ parsing'[q] = parsing'[r] => q = r
      BY <1>4, <2>1, <2>3, <2>4, ParserHands
    <2>6. queue' = queue /\ InQueue' = InQueue
      BY <1>4 DEF PopRaw, InQueue
    <2> HIDE DEF b
    <2>7. StagesApart'
      BY <1>2, <2>2, <2>5, <2>6 DEF PlaceInv, StagesApart
    <2>8. NoneMissing'
      BY <1>1, <1>2, <2>2, <2>5, <2>6 DEF PlaceInv, NoneMissing
    <2> QED
      BY <1>0, <2>2, <2>5, <2>6, <2>7, <2>8 DEF PlaceInv, OnceInStage
  <1>5. CASE /\ (Parse(p) /\ parse_failed' # {} /\ queue' = queue) \/ Push(p)
             /\ parsing' = [parsing EXCEPT ![p] = Nothing]
    <2> DEFINE b == parsing[p]
    <2>1. b # Nothing /\ b \in Batches
      BY <1>5 DEF TypeInv, TypeOK, HandsInv, Parse, Push
    <2>2. /\ b \in InParsers
          /\ InParsers' = InParsers \ {b}
          /\ \A q, r \in Parsers : parsing'[q] # Nothing /\ parsing'[q] = parsing'[r] => q = r
      BY <1>5, <2>1, ParserHands
    <2>3. raw_queue' = raw_queue /\ InRaw' = InRaw
      BY <1>5 DEF Parse, Push, InRaw
    <2>4. CASE queue' = queue
      <3>1. InQueue' = InQueue
        BY <2>4 DEF InQueue
      <3>2. aborted \/ parse_failed' # {}
        <4>1. ASSUME Push(p), ~aborted PROVE FALSE
          <5>1. parsing' # parsing
            BY <1>5, <2>1 DEF TypeInv, TypeOK
          <5>2. queue' = Append(queue, b)
            BY <4>1, <5>1 DEF Push
          <5>3. queue \in Seq(Batches)
            BY DEF TypeInv, TypeOK
          <5>4. Len(Append(queue, b)) = Len(queue) + 1 /\ Len(queue) \in Nat
            BY <2>1, <5>3
          <5> QED
            BY <2>4, <5>2, <5>4
        <4> QED
          BY <1>5, <4>1
      <3> HIDE DEF b
      <3>3. StagesApart'
        BY <1>2, <2>2, <2>3, <3>1 DEF PlaceInv, StagesApart
      <3> QED
        BY <1>0, <1>1, <2>2, <2>3, <2>4, <3>2, <3>3 DEF PlaceInv, OnceInStage, NoneMissing
    <2>5. CASE queue' = Append(queue, b)
      <3>1. queue \in Seq(Batches) /\ b \notin Range(queue)
        BY <2>2 DEF TypeInv, TypeOK, PlaceInv, StagesApart, InQueue
      <3>2. InQueue' = InQueue \union {b} /\ IsInjective(queue')
        BY <2>1, <2>5, <3>1, AppendedQueue DEF InQueue, PlaceInv, OnceInStage
      <3> HIDE DEF b
      <3>3. StagesApart'
        BY <1>2, <2>2, <2>3, <3>2 DEF PlaceInv, StagesApart
      <3>4. NoneMissing'
        BY <1>1, <1>2, <2>2, <2>3, <3>2 DEF PlaceInv, NoneMissing
      <3> QED
        BY <1>0, <2>2, <2>3, <3>2, <3>3, <3>4 DEF PlaceInv, OnceInStage
    <2> QED
      BY <1>5, <2>4, <2>5 DEF Parse, Push
  <1> QED
    BY <1>3, <1>4, <1>5 DEF PopRaw, Parse, Push

LEMMA PopPlace ==
    ASSUME TypeInv, PlaceInv, NEW c \in Consumers, Pop(c)
    PROVE  PlaceInv'
  <1> USE DEF queues, flags, readerVars, parserVars, consumerVars
  <1>0. UNCHANGED <<next, raw_queue, parsing, parse_failed, pending_storage, ingested, dropped,
                    consumer_error, error, aborted>>
    BY DEF Pop
  <1>1. WillFail => WillFail'
    <2>1. consumer \in [Consumers -> {"pop", "coalesce", "flush", "abort", "done"}]
      BY DEF TypeInv, TypeOK
    <2>2. \A d \in Consumers : consumer[d] = "abort" => consumer'[d] = "abort"
      BY <2>1 DEF Pop
    <2> QED
      BY <1>0, <2>2 DEF WillFail
  <1>2. /\ InFile' = InFile /\ InRaw' = InRaw /\ InParsers' = InParsers
        /\ InKept' = InKept /\ Settled' = Settled
    BY <1>0 DEF InFile, InRaw, InParsers, InKept, Settled
  <1>3. CASE UNCHANGED <<item, queue>>
    BY <1>0, <1>1, <1>3, StillPlace
  <1>4. CASE queue # <<>> /\ queue' = Tail(queue) /\ item' = [item EXCEPT ![c] = Head(queue)]
    <2> DEFINE b == Head(queue)
    <2>1. queue \in Seq(Batches) /\ b \in Batches
      BY <1>4 DEF TypeInv, TypeOK
    <2>2. b \in InQueue /\ InQueue' = InQueue \ {b} /\ IsInjective(queue')
      BY <1>4, <2>1, ShortenedQueue DEF InQueue, PlaceInv, OnceInStage
    <2>3. b \notin InItems
      BY <2>2 DEF PlaceInv, StagesApart
    <2>4. item[c] = Nothing
      BY DEF Pop, TypeInv, HandsInv
    <2>5. /\ InItems' = InItems \union {b}
          /\ \A d, e \in Consumers : item'[d] # Nothing /\ item'[d] = item'[e] => d = e
      BY <1>4, <2>1, <2>3, <2>4, ConsumerHands
    <2> HIDE DEF b
    <2>6. StagesApart'
      BY <1>2, <2>2, <2>5 DEF PlaceInv, StagesApart
    <2>7. NoneMissing'
      BY <1>1, <1>2, <2>2, <2>5 DEF PlaceInv, NoneMissing
    <2> QED
      BY <1>0, <2>2, <2>5, <2>6, <2>7 DEF PlaceInv, OnceInStage
  <1> QED
    BY <1>3, <1>4 DEF Pop

\* What a consumer ingests leaves the pipeline, all of it and once: it is in the
\* table or dropped.
LEMMA IngestPlace ==
    ASSUME TypeInv, PlaceInv, NEW c \in Consumers,
           pending_storage[c] # <<>>, Ingest(pending_storage[c])
    PROVE  /\ Settled' = Settled \union Range(pending_storage[c])
           /\ \A b \in Batches : ingested'[b] \in {0, 1}
           /\ \A b \in dropped' : ingested'[b] = 0
  <1> DEFINE R == Range(pending_storage[c])
  <1>1. /\ ingested \in [Batches -> Nat] /\ dropped \subseteq Batches
        /\ pending_storage[c] \in Seq(Batches)
    BY DEF TypeInv, TypeOK
  <1>2. R \subseteq Batches /\ Head(pending_storage[c]) \in R
    <2>1. pending_storage[c][1] \in R /\ Head(pending_storage[c]) = pending_storage[c][1]
      BY <1>1 DEF Range
    <2> QED
      BY <1>1, <2>1, QueueType
  <1>3. PICK delivered \in Delivered(pending_storage[c]) :
            /\ ingested' = [b \in Batches |->
                               IF b \in delivered THEN ingested[b] + 1 ELSE ingested[b]]
            /\ dropped' = dropped \union (R \ delivered)
    BY DEF Ingest
  <1>4. delivered \subseteq R
    BY <1>2, <1>3 DEF Delivered
  <1>5. \A b \in R : ingested[b] = 0 /\ b \notin dropped
    BY <1>2 DEF PlaceInv, StagesApart, InKept, Settled
  <1> HIDE DEF R
  <1>6. \A b \in Batches : ingested'[b] = IF b \in delivered THEN 1 ELSE ingested[b]
    BY <1>1, <1>3, <1>4, <1>5
  <1>7. /\ \A b \in Batches : ingested'[b] \in {0, 1}
        /\ \A b \in dropped' : ingested'[b] = 0
    BY <1>1, <1>2, <1>3, <1>4, <1>5, <1>6 DEF PlaceInv, OnceInStage
  <1>8. Settled' = Settled \union R
    BY <1>1, <1>2, <1>3, <1>4, <1>6 DEF Settled
  <1> QED
    BY <1>7, <1>8 DEF R

\* What a consumer keeps changes only in its own hands.
LEMMA KeptPlace ==
    ASSUME TypeInv, PlaceInv, NEW c \in Consumers
    PROVE  /\ Range(pending_storage[c]) \subseteq InKept
           /\ pending_storage' = [pending_storage EXCEPT ![c] = <<>>] =>
                /\ InKept' = InKept \ Range(pending_storage[c])
                /\ \A d \in Consumers : IsInjective(pending_storage'[d])
                /\ \A d, e \in Consumers :
                     d # e => Range(pending_storage'[d]) \intersect Range(pending_storage'[e]) = {}
           /\ \A b \in Batches \ InKept :
                pending_storage' = [pending_storage EXCEPT ![c] = <<b>>] =>
                  /\ InKept' = (InKept \ Range(pending_storage[c])) \union {b}
                  /\ \A d \in Consumers : IsInjective(pending_storage'[d])
                  /\ \A d, e \in Consumers :
                       d # e => Range(pending_storage'[d]) \intersect Range(pending_storage'[e]) = {}
           /\ \A b \in Batches \ InKept :
                pending_storage' = [pending_storage EXCEPT ![c] = Append(pending_storage[c], b)] =>
                  /\ InKept' = InKept \union {b}
                  /\ \A d \in Consumers : IsInjective(pending_storage'[d])
                  /\ \A d, e \in Consumers :
                       d # e => Range(pending_storage'[d]) \intersect Range(pending_storage'[e]) = {}
  <1>1. /\ \A d \in Consumers : pending_storage[d] \in Seq(Batches)
        /\ pending_storage \in [Consumers -> Seq(Batches)]
    BY DEF TypeInv, TypeOK
  <1>2. \A d \in Consumers : Range(pending_storage[d]) \subseteq Batches
    BY <1>1, QueueType
  <1>3. /\ \A d \in Consumers : IsInjective(pending_storage[d])
        /\ \A d, e \in Consumers :
             d # e => Range(pending_storage[d]) \intersect Range(pending_storage[e]) = {}
    BY DEF PlaceInv, OnceInStage
  <1>4. Range(pending_storage[c]) \subseteq InKept
    BY <1>2 DEF InKept
  <1>5. ASSUME NEW q, pending_storage' = [pending_storage EXCEPT ![c] = q],
               IsInjective(q), Range(q) \subseteq Batches,
               \A b \in Range(q) : b \in Range(pending_storage[c]) \/ b \notin InKept
        PROVE  /\ InKept' = (InKept \ Range(pending_storage[c])) \union Range(q)
               /\ \A d \in Consumers : IsInjective(pending_storage'[d])
               /\ \A d, e \in Consumers :
                    d # e => Range(pending_storage'[d]) \intersect Range(pending_storage'[e]) = {}
    <2>1. pending_storage'[c] = q /\ \A d \in Consumers \ {c} : pending_storage'[d] = pending_storage[d]
      BY <1>1, <1>5
    <2>2. \A d \in Consumers \ {c} : Range(pending_storage[d]) \subseteq InKept
      BY <1>2 DEF InKept
    <2>3. \A d \in Consumers \ {c} : Range(q) \intersect Range(pending_storage[d]) = {}
      BY <1>3, <1>5, <2>2
    <2>4. InKept' = {b \in Batches : b \in Range(q)
                                       \/ \E d \in Consumers \ {c} : b \in Range(pending_storage[d])}
      BY <2>1 DEF InKept
    <2>5. InKept \ Range(pending_storage[c])
            = {b \in Batches : \E d \in Consumers \ {c} : b \in Range(pending_storage[d])}
      BY <1>3 DEF InKept
    <2>6. InKept' = (InKept \ Range(pending_storage[c])) \union Range(q)
      BY <1>5, <2>4, <2>5
    <2>7. \A d \in Consumers : IsInjective(pending_storage'[d])
      BY <1>3, <1>5, <2>1
    <2>8. \A d, e \in Consumers :
             d # e => Range(pending_storage'[d]) \intersect Range(pending_storage'[e]) = {}
      BY <1>3, <2>1, <2>3
    <2> QED
      BY <2>6, <2>7, <2>8
  <1>6. ASSUME pending_storage' = [pending_storage EXCEPT ![c] = <<>>]
        PROVE  /\ InKept' = InKept \ Range(pending_storage[c])
               /\ \A d \in Consumers : IsInjective(pending_storage'[d])
               /\ \A d, e \in Consumers :
                    d # e => Range(pending_storage'[d]) \intersect Range(pending_storage'[e]) = {}
    BY <1>5, <1>6, EmptyQueue
  <1>7. ASSUME NEW b \in Batches \ InKept, pending_storage' = [pending_storage EXCEPT ![c] = <<b>>]
        PROVE  /\ InKept' = (InKept \ Range(pending_storage[c])) \union {b}
               /\ \A d \in Consumers : IsInjective(pending_storage'[d])
               /\ \A d, e \in Consumers :
                    d # e => Range(pending_storage'[d]) \intersect Range(pending_storage'[e]) = {}
    <2>1. Range(<<b>>) = {b} /\ IsInjective(<<b>>)
      BY DEF Range, IsInjective
    <2> QED
      BY <1>5, <1>7, <2>1
  <1>8. ASSUME NEW b \in Batches \ InKept,
               pending_storage' = [pending_storage EXCEPT ![c] = Append(pending_storage[c], b)]
        PROVE  /\ InKept' = InKept \union {b}
               /\ \A d \in Consumers : IsInjective(pending_storage'[d])
               /\ \A d, e \in Consumers :
                    d # e => Range(pending_storage'[d]) \intersect Range(pending_storage'[e]) = {}
    <2>1. b \notin Range(pending_storage[c])
      BY <1>4
    <2>2. /\ Range(Append(pending_storage[c], b)) = Range(pending_storage[c]) \union {b}
          /\ IsInjective(Append(pending_storage[c], b))
      BY <1>1, <1>3, <2>1, AppendedQueue
    <2>3. /\ InKept' = (InKept \ Range(pending_storage[c])) \union (Range(pending_storage[c]) \union {b})
          /\ \A d \in Consumers : IsInjective(pending_storage'[d])
          /\ \A d, e \in Consumers :
               d # e => Range(pending_storage'[d]) \intersect Range(pending_storage'[e]) = {}
      BY <1>2, <1>5, <1>8, <2>2
    <2> QED
      BY <1>4, <2>3
  <1> QED
    BY <1>4, <1>6, <1>7, <1>8

LEMMA CoalescePlace ==
    ASSUME TypeInv, PlaceInv, NEW c \in Consumers, Coalesce(c)
    PROVE  PlaceInv'
  <1> USE DEF queues, flags, readerVars, parserVars, consumerVars
  <1> DEFINE b == item[c]
             R == Range(pending_storage[c])
  <1>0. UNCHANGED <<next, raw_queue, parsing, parse_failed, queue, consumer_error, error, aborted>>
    BY DEF Coalesce
  <1>1. /\ consumer \in [Consumers -> {"pop", "coalesce", "flush", "abort", "done"}]
        /\ b # Nothing /\ b \in Batches /\ item' = [item EXCEPT ![c] = Nothing]
    BY DEF Coalesce, TypeInv, TypeOK, HandsInv
  <1>2. (WillFail => WillFail') /\ (consumer'[c] = "abort" => WillFail')
    <2>1. \A d \in Consumers : consumer[d] = "abort" => consumer'[d] = "abort"
      BY <1>1 DEF Coalesce
    <2> QED
      BY <1>0, <2>1 DEF WillFail
  <1>3. /\ InFile' = InFile /\ InRaw' = InRaw /\ InParsers' = InParsers /\ InQueue' = InQueue
    BY <1>0 DEF InFile, InRaw, InParsers, InQueue
  <1>4. /\ b \in InItems /\ InItems' = InItems \ {b}
        /\ \A d, e \in Consumers : item'[d] # Nothing /\ item'[d] = item'[e] => d = e
    BY <1>1, ConsumerHands
  <1>5. R \subseteq InKept /\ b \in Batches \ InKept
    BY <1>1, <1>4, KeptPlace DEF PlaceInv, StagesApart
  <1>6. ASSUME pending_storage' = [pending_storage EXCEPT ![c] = Append(@, item[c])],
               UNCHANGED <<ingested, dropped>>
        PROVE  PlaceInv'
    <2>1. /\ InKept' = InKept \union {b}
          /\ \A d \in Consumers : IsInjective(pending_storage'[d])
          /\ \A d, e \in Consumers :
               d # e => Range(pending_storage'[d]) \intersect Range(pending_storage'[e]) = {}
      BY <1>5, <1>6, KeptPlace
    <2>2. Settled' = Settled
      BY <1>6 DEF Settled
    <2> HIDE DEF b
    <2>3. StagesApart'
      BY <1>3, <1>4, <2>1, <2>2 DEF PlaceInv, StagesApart
    <2>4. NoneMissing'
      BY <1>2, <1>3, <1>4, <2>1, <2>2 DEF PlaceInv, NoneMissing
    <2> QED
      BY <1>0, <1>4, <1>6, <2>1, <2>3, <2>4 DEF PlaceInv, OnceInStage
  <1>7. ASSUME pending_storage[c] # <<>>, Ingest(pending_storage[c]),
               pending_storage' = [pending_storage EXCEPT ![c] = <<item[c]>>]
        PROVE  PlaceInv'
    <2>1. /\ InKept' = (InKept \ R) \union {b}
          /\ \A d \in Consumers : IsInjective(pending_storage'[d])
          /\ \A d, e \in Consumers :
               d # e => Range(pending_storage'[d]) \intersect Range(pending_storage'[e]) = {}
      BY <1>5, <1>7, KeptPlace
    <2>2. /\ Settled' = Settled \union R
          /\ \A x \in Batches : ingested'[x] \in {0, 1}
          /\ \A x \in dropped' : ingested'[x] = 0
      BY <1>7, IngestPlace
    <2> HIDE DEF b, R
    <2>3. StagesApart'
      BY <1>3, <1>4, <1>5, <2>1, <2>2 DEF PlaceInv, StagesApart
    <2>4. NoneMissing'
      BY <1>2, <1>3, <1>4, <2>1, <2>2 DEF PlaceInv, NoneMissing
    <2> QED
      BY <1>0, <1>4, <2>1, <2>2, <2>3, <2>4 DEF PlaceInv, OnceInStage
  <1>8. ASSUME pending_storage' = [pending_storage EXCEPT ![c] = <<>>], UNCHANGED <<ingested, dropped>>,
               consumer'[c] = "abort"
        PROVE  PlaceInv'
    <2>1. /\ InKept' = InKept \ R
          /\ \A d \in Consumers : IsInjective(pending_storage'[d])
          /\ \A d, e \in Consumers :
               d # e => Range(pending_storage'[d]) \intersect Range(pending_storage'[e]) = {}
      BY <1>8, KeptPlace
    <2>2. Settled' = Settled
      BY <1>8 DEF Settled
    <2> HIDE DEF b, R
    <2>3. StagesApart'
      BY <1>3, <1>4, <1>5, <2>1, <2>2 DEF PlaceInv, StagesApart
    <2> QED
      BY <1>0, <1>2, <1>4, <1>8, <2>1, <2>3 DEF PlaceInv, OnceInStage, NoneMissing
  <1> QED
    BY <1>1, <1>6, <1>7, <1>8 DEF Coalesce, Joins

LEMMA FlushPlace ==
    ASSUME TypeInv, PlaceInv, NEW c \in Consumers, Flush(c)
    PROVE  PlaceInv'
  <1> USE DEF queues, flags, readerVars, parserVars, consumerVars
  <1> DEFINE R == Range(pending_storage[c])
  <1>0. UNCHANGED <<next, raw_queue, parsing, parse_failed, queue, item, consumer_error, error, aborted>>
    BY DEF Flush
  <1>1. consumer \in [Consumers -> {"pop", "coalesce", "flush", "abort", "done"}]
    BY DEF TypeInv, TypeOK
  <1>2. (WillFail => WillFail') /\ (consumer'[c] = "abort" => WillFail')
    <2>1. \A d \in Consumers : consumer[d] = "abort" => consumer'[d] = "abort"
      BY <1>1 DEF Flush
    <2> QED
      BY <1>0, <2>1 DEF WillFail
  <1>3. /\ InFile' = InFile /\ InRaw' = InRaw /\ InParsers' = InParsers /\ InQueue' = InQueue
        /\ InItems' = InItems
    BY <1>0 DEF InFile, InRaw, InParsers, InQueue, InItems
  <1>4. /\ R \subseteq InKept /\ InKept' = InKept \ R
        /\ \A d \in Consumers : IsInjective(pending_storage'[d])
        /\ \A d, e \in Consumers :
             d # e => Range(pending_storage'[d]) \intersect Range(pending_storage'[e]) = {}
    BY KeptPlace DEF Flush
  <1>5. \/ R = {} /\ UNCHANGED <<ingested, dropped>>
        \/ pending_storage[c] # <<>> /\ Ingest(pending_storage[c])
        \/ consumer'[c] = "abort" /\ UNCHANGED <<ingested, dropped>>
    BY <1>1, EmptyQueue DEF Flush
  <1>6. CASE pending_storage[c] # <<>> /\ Ingest(pending_storage[c])
    <2>1. /\ Settled' = Settled \union R
          /\ \A x \in Batches : ingested'[x] \in {0, 1}
          /\ \A x \in dropped' : ingested'[x] = 0
      BY <1>6, IngestPlace
    <2> HIDE DEF R
    <2>2. StagesApart'
      BY <1>3, <1>4, <2>1 DEF PlaceInv, StagesApart
    <2>3. NoneMissing'
      BY <1>2, <1>3, <1>4, <2>1 DEF PlaceInv, NoneMissing
    <2> QED
      BY <1>0, <1>4, <2>1, <2>2, <2>3 DEF PlaceInv, OnceInStage
  <1>7. CASE UNCHANGED <<ingested, dropped>> /\ (R = {} \/ consumer'[c] = "abort")
    <2>1. Settled' = Settled
      BY <1>7 DEF Settled
    <2> HIDE DEF R
    <2>2. StagesApart'
      BY <1>3, <1>4, <2>1 DEF PlaceInv, StagesApart
    <2>3. NoneMissing'
      BY <1>2, <1>3, <1>4, <1>7, <2>1 DEF PlaceInv, NoneMissing
    <2> QED
      BY <1>0, <1>4, <1>7, <2>2, <2>3 DEF PlaceInv, OnceInStage
  <1> QED
    BY <1>5, <1>6, <1>7

LEMMA PlaceStep ==
    ASSUME TypeInv, PlaceInv, [Next]_vars
    PROVE  PlaceInv'
  <1> USE DEF queues, flags, readerVars, parserVars, consumerVars
  <1>1. CASE ReadBatch \/ ReaderDone \/ Finish \/ Join \/ UNCHANGED vars
    <2>1. UNCHANGED <<next, raw_queue, parsing, queue, item, pending_storage, ingested, dropped>>
      BY <1>1 DEF ReadBatch, ReaderDone, Finish, Join, vars
    <2>2. WillFail => WillFail'
      BY <1>1 DEF ReadBatch, ReaderDone, Finish, SetAborted, Join, vars, WillFail
    <2> QED
      BY <2>1, <2>2, StillPlace
  <1>2. ASSUME NEW p \in Parsers, ParserDone(p)
        PROVE  PlaceInv'
    <2>1. UNCHANGED <<next, raw_queue, parsing, queue, item, pending_storage, ingested, dropped>>
      BY <1>2 DEF ParserDone
    <2>2. WillFail => WillFail'
      BY <1>2 DEF ParserDone, WillFail
    <2> QED
      BY <2>1, <2>2, StillPlace
  <1>3. ASSUME NEW c \in Consumers, Abort(c)
        PROVE  PlaceInv'
    <2>1. UNCHANGED <<next, raw_queue, parsing, queue, item, pending_storage, ingested, dropped>>
      BY <1>3 DEF Abort
    <2>2. WillFail'
      BY <1>3 DEF Abort, WillFail
    <2> QED
      BY <2>1, <2>2, StillPlace
  <1> QED
    BY <1>1, <1>2, <1>3, PushRawPlace, ParserPlace, PopPlace, CoalescePlace, FlushPlace, NextCases

\* Cardinality of what has at most one element.
LEMMA AtMostOne ==
    ASSUME NEW S, \A x, y \in S : x = y
    PROVE  Cardinality(S) <= 1
  <1>1. CASE S = {}
    BY <1>1, FS_EmptySet
  <1>2. CASE S # {}
    <2>1. PICK x \in S : S = {x}
      BY <1>2
    <2> QED
      BY <2>1, FS_Singleton
  <1> QED
    BY <1>1, <1>2

THEOREM PlaceInvariant == Spec => []PlaceInv
  <1>1. Init => PlaceInv
    <2> SUFFICES ASSUME Init PROVE PlaceInv
      OBVIOUS
    <2>1. /\ InFile = Batches /\ InRaw = {} /\ InParsers = {} /\ InQueue = {} /\ InItems = {}
          /\ InKept = {} /\ Settled = {}
      BY PipelineAssumption, EmptyQueue
         DEF Init, Batches, Nothing, InFile, InRaw, InParsers, InQueue, InItems, InKept, Settled
    <2>2. OnceInStage
      BY EmptyQueue DEF Init, OnceInStage
    <2> QED
      BY <2>1, <2>2 DEF PlaceInv, StagesApart, NoneMissing
  <1> QED
    BY <1>1, PlaceStep, TypeInvariant, PTL DEF Spec

\* A place of b is one of the stages, at one position of it.
LEMMA PlacesApart ==
    ASSUME TypeInv, PlaceInv, NEW b \in Batches
    PROVE  \A x, y \in Places(b) : x = y
  <1> DEFINE File   == {<<"file", 0, i>> : i \in {i \in {b} : b >= next}}
             Raw    == {<<"raw", 0, i>> : i \in {i \in DOMAIN raw_queue : raw_queue[i] = b}}
             Parser == {<<"parser", p, 0>> : p \in {p \in Parsers : parsing[p] = b}}
             Parsed == {<<"parsed", 0, i>> : i \in {i \in DOMAIN queue : queue[i] = b}}
             Popped == {<<"popped", c, 0>> : c \in {c \in Consumers : item[c] = b}}
             Kept   == UNION {{<<"kept", c, i>> : i \in {i \in DOMAIN pending_storage[c] :
                                                           pending_storage[c][i] = b}} : c \in Consumers}
             Done   == {<<"ingested", 0, i>> : i \in 1..ingested[b]}
             Drop   == {<<"dropped", 0, i>> : i \in {b} \intersect dropped}
  <1>0. b # Nothing /\ ingested[b] \in {0, 1}
    BY DEF Batches, Nothing, PlaceInv, OnceInStage
  <1>1. Places(b) = File \union Raw \union Parser \union Parsed \union Popped \union Kept \union Done
                   \union Drop
    BY Zenon DEF Places
  <1>2. /\ \A x, y \in File : x = y
        /\ File # {} => b \in InFile
    BY DEF InFile
  <1>3. /\ \A x, y \in Raw : x = y
        /\ Raw # {} => b \in InRaw
    BY DEF InRaw, Range, PlaceInv, OnceInStage, IsInjective
  <1>4. /\ \A x, y \in Parser : x = y
        /\ Parser # {} => b \in InParsers
    BY <1>0 DEF InParsers, PlaceInv, OnceInStage
  <1>5. /\ \A x, y \in Parsed : x = y
        /\ Parsed # {} => b \in InQueue
    BY DEF InQueue, Range, PlaceInv, OnceInStage, IsInjective
  <1>6. /\ \A x, y \in Popped : x = y
        /\ Popped # {} => b \in InItems
    BY <1>0 DEF InItems, PlaceInv, OnceInStage
  <1>7. /\ \A x, y \in Kept : x = y
        /\ Kept # {} => b \in InKept
    <2>1. ASSUME NEW x \in Kept
          PROVE  \E c \in Consumers : \E i \in DOMAIN pending_storage[c] :
                   x = <<"kept", c, i>> /\ pending_storage[c][i] = b
      OBVIOUS
    <2>2. \A c \in Consumers : \A i \in DOMAIN pending_storage[c] :
            pending_storage[c][i] = b => b \in Range(pending_storage[c])
      BY DEF Range
    <2>3. /\ \A c \in Consumers : IsInjective(pending_storage[c])
          /\ \A c, d \in Consumers :
               b \in Range(pending_storage[c]) /\ b \in Range(pending_storage[d]) => c = d
      BY DEF PlaceInv, OnceInStage
    <2>4. ASSUME NEW x \in Kept, NEW y \in Kept
          PROVE  x = y
      <3>1. PICK c \in Consumers : \E i \in DOMAIN pending_storage[c] :
              x = <<"kept", c, i>> /\ pending_storage[c][i] = b
        BY <2>1
      <3>2. PICK i \in DOMAIN pending_storage[c] : x = <<"kept", c, i>> /\ pending_storage[c][i] = b
        BY <3>1
      <3>3. PICK d \in Consumers : \E j \in DOMAIN pending_storage[d] :
              y = <<"kept", d, j>> /\ pending_storage[d][j] = b
        BY <2>1
      <3>4. PICK j \in DOMAIN pending_storage[d] : y = <<"kept", d, j>> /\ pending_storage[d][j] = b
        BY <3>3
      <3>5. c = d
        BY <2>2, <2>3, <3>2, <3>4
      <3>6. i = j
        BY <2>3, <3>2, <3>4, <3>5 DEF IsInjective
      <3> QED
        BY <3>2, <3>4, <3>5, <3>6
    <2>5. Kept # {} => b \in InKept
      BY <2>1, <2>2 DEF InKept
    <2> HIDE DEF Kept
    <2> QED
      BY <2>4, <2>5
  <1>8. /\ \A x, y \in Done : x = y
        /\ Done # {} => b \in Settled /\ ingested[b] = 1
    <2>1. CASE ingested[b] = 0
      <3>1. Done = {}
        BY <2>1
      <3> QED
        BY <3>1
    <2>2. CASE ingested[b] = 1
      <3>1. Done = {<<"ingested", 0, 1>>}
        BY <2>2
      <3> QED
        BY <2>2, <3>1 DEF Settled
    <2> QED
      BY <1>0, <2>1, <2>2
  <1>9. /\ \A x, y \in Drop : x = y
        /\ Drop # {} => b \in Settled /\ ingested[b] = 0
    BY DEF Settled, PlaceInv, OnceInStage
  <1> HIDE DEF File, Raw, Parser, Parsed, Popped, Kept, Done, Drop
  <1> QED
    BY <1>1, <1>2, <1>3, <1>4, <1>5, <1>6, <1>7, <1>8, <1>9 DEF PlaceInv, StagesApart

\* A batch in a stage has a place.
LEMMA PlacesFound ==
    ASSUME TypeInv, PlaceInv, NEW b \in Batches,
           b \in InFile \union InRaw \union InParsers \union InQueue \union InItems
                   \union InKept \union Settled
    PROVE  Places(b) # {}
  <1> DEFINE Kept == UNION {{<<"kept", c, i>> : i \in {i \in DOMAIN pending_storage[c] :
                                                         pending_storage[c][i] = b}} : c \in Consumers}
             Done == {<<"ingested", 0, i>> : i \in 1..ingested[b]}
  <1>0. Kept \subseteq Places(b) /\ Done \subseteq Places(b)
    BY Zenon DEF Places
  <1>1. CASE b \in InFile
    <2>1. <<"file", 0, b>> \in Places(b)
      BY <1>1 DEF InFile, Places
    <2> QED
      BY <2>1
  <1>2. CASE b \in InRaw
    <2>1. PICK i \in DOMAIN raw_queue : raw_queue[i] = b
      BY <1>2 DEF InRaw, Range
    <2>2. <<"raw", 0, i>> \in Places(b)
      BY <2>1 DEF Places
    <2> QED
      BY <2>2
  <1>3. CASE b \in InParsers
    <2>1. PICK p \in Parsers : parsing[p] = b
      BY <1>3 DEF InParsers
    <2>2. <<"parser", p, 0>> \in Places(b)
      BY <2>1 DEF Places
    <2> QED
      BY <2>2
  <1>4. CASE b \in InQueue
    <2>1. PICK i \in DOMAIN queue : queue[i] = b
      BY <1>4 DEF InQueue, Range
    <2>2. <<"parsed", 0, i>> \in Places(b)
      BY <2>1 DEF Places
    <2> QED
      BY <2>2
  <1>5. CASE b \in InItems
    <2>1. PICK c \in Consumers : item[c] = b
      BY <1>5 DEF InItems
    <2>2. <<"popped", c, 0>> \in Places(b)
      BY <2>1 DEF Places
    <2> QED
      BY <2>2
  <1>6. CASE b \in InKept
    <2>1. PICK c \in Consumers : b \in Range(pending_storage[c])
      BY <1>6 DEF InKept
    <2>2. PICK i \in DOMAIN pending_storage[c] : pending_storage[c][i] = b
      BY <2>1 DEF Range
    <2>3. <<"kept", c, i>> \in {<<"kept", c, j>> : j \in {j \in DOMAIN pending_storage[c] :
                                                            pending_storage[c][j] = b}}
      BY <2>2
    <2>4. <<"kept", c, i>> \in Kept
      BY <2>3
    <2> QED
      BY <1>0, <2>4
  <1>7. CASE b \in Settled
    <2>1. CASE ingested[b] # 0
      <3>1. ingested[b] = 1
        BY <2>1 DEF PlaceInv, OnceInStage
      <3>2. <<"ingested", 0, 1>> \in Done
        BY <3>1
      <3> QED
        BY <1>0, <3>2
    <2>2. CASE b \in dropped
      <3>1. <<"dropped", 0, b>> \in Places(b)
        BY <2>2 DEF Places
      <3> QED
        BY <3>1
    <2> QED
      BY <1>7, <2>1, <2>2 DEF Settled
  <1> QED
    BY <1>1, <1>2, <1>3, <1>4, <1>5, <1>6, <1>7

\* No hand-over between the threads loses or repeats a batch, however the threads
\* interleave and whichever of them fails.
THEOREM BatchesKept == Spec => []NoBatchLostOrRepeated
  <1>1. ASSUME TypeInv, PlaceInv
        PROVE  NoBatchLostOrRepeated
    <2> SUFFICES ASSUME NEW b \in Batches
                 PROVE  /\ Cardinality(Places(b)) <= 1
                        /\ ~WillFail => Places(b) # {}
      BY DEF NoBatchLostOrRepeated
    <2>1. Cardinality(Places(b)) <= 1
      BY <1>1, PlacesApart, AtMostOne
    <2>2. ~WillFail => Places(b) # {}
      BY <1>1, PlacesFound DEF PlaceInv, NoneMissing
    <2> QED
      BY <2>1, <2>2
  <1> QED
    BY <1>1, TypeInvariant, PlaceInvariant, PTL

--------------------------------------------------------------------------------
(* The end of the statement *)

\* The reader has left, without an exception only at the end of the file.
ReaderInv ==
    /\ reader = "exit" => next = N + 1
    /\ reader = "done" => error \/ next = N + 1
    /\ reader_done => reader = "done" \/ aborted
    /\ aborted => error \/ consumer_error \/ result \in {"failing", "failed"}

\* A parser leaves when there are no raw batches left, and an exception of its
\* is stored before it is gone.
ParserInv ==
    \A p \in Parsers :
        /\ p \in parse_failed => parser[p] \in {"exit", "done"}
        /\ p \in parse_failed /\ parser[p] = "done" => error
        /\ parser[p] \in {"exit", "done"} =>
             p \in parse_failed \/ aborted \/ (reader = "done" /\ raw_queue = <<>>)

AllParsed ==
    reader = "done" /\ queue = <<>> /\ \A p \in Parsers : parser[p] = "done"

\* So does a consumer; the statement succeeds only if all did.
EndInv ==
    /\ \A c \in Consumers : consumer[c] \in {"flush", "done"} => aborted \/ AllParsed
    /\ result # "running" => \A c \in Consumers : consumer[c] = "done"
    /\ result \in {"joining", "ok"} => ~consumer_error
    /\ result = "ok" => /\ ~error /\ reader = "done"
                        /\ \A p \in Parsers : parser[p] = "done"

LEMMA ReaderInvStep ==
    ASSUME TypeInv, ReaderInv, EndInv, [Next]_vars
    PROVE  ReaderInv'
  <1> USE DEF queues, flags, readerVars, parserVars, consumerVars
  <1>1. CASE PushRaw
    BY <1>1 DEF PushRaw, ReaderInv
  <1>2. CASE ReadBatch
    BY <1>2, PipelineAssumption DEF ReadBatch, MoreToRead, ReaderInv, TypeInv, TypeOK
  <1>3. CASE ReaderDone
    BY <1>3 DEF ReaderDone, ReaderInv
  <1>4. ASSUME NEW p \in Parsers, PopRaw(p) \/ Parse(p) \/ Push(p)
        PROVE  ReaderInv'
    BY <1>4 DEF PopRaw, Parse, Push, ReaderInv
  <1>5. ASSUME NEW p \in Parsers, ParserDone(p)
        PROVE  ReaderInv'
    BY <1>5 DEF ParserDone, ReaderInv
  <1>6. ASSUME NEW c \in Consumers, Pop(c) \/ Coalesce(c) \/ Flush(c)
        PROVE  ReaderInv'
    BY <1>6 DEF Pop, Coalesce, Flush, ReaderInv
  <1>7. ASSUME NEW c \in Consumers, Abort(c)
        PROVE  ReaderInv'
    BY <1>7 DEF Abort, SetAborted, ReaderInv
  <1>8. CASE Finish
    BY <1>8 DEF Finish, SetAborted, ReaderInv
  <1>9. CASE Join
    BY <1>9 DEF Join, ReaderInv
  <1>10. CASE UNCHANGED vars
    BY <1>10 DEF vars, ReaderInv
  <1> QED
    BY <1>1, <1>2, <1>3, <1>4, <1>5, <1>6, <1>7, <1>8, <1>9, <1>10, NextCases

LEMMA ParserInvStep ==
    ASSUME TypeInv, ReaderInv, ParserInv, [Next]_vars
    PROVE  ParserInv'
  <1> USE DEF queues, flags, readerVars, parserVars, consumerVars
  <1>0. /\ parser \in [Parsers -> {"pop", "parse", "push", "exit", "done"}]
        /\ raw_queue \in Seq(Batches)
    BY DEF TypeInv, TypeOK
  <1>1. CASE PushRaw
    BY <1>1 DEF PushRaw, ParserInv
  <1>2. CASE ReadBatch
    BY <1>2 DEF ReadBatch, ParserInv
  <1>3. CASE ReaderDone
    BY <1>3 DEF ReaderDone, ParserInv
  <1>4. ASSUME NEW p \in Parsers, PopRaw(p)
        PROVE  ParserInv'
    <2>1. raw_queue = <<>> => raw_queue' = <<>>
      BY <1>4 DEF PopRaw
    <2>2. parser'[p] = "exit" => aborted \/ (reader = "done" /\ raw_queue' = <<>>)
      BY <1>0, <1>4 DEF PopRaw, ReaderInv, ParserInv
    <2>3. parser'[p] # "done" /\ parser[p] = "pop"
          /\ \A q \in Parsers \ {p} : parser'[q] = parser[q]
      BY <1>0, <1>4 DEF PopRaw
    <2> QED
      BY <1>4, <2>1, <2>2, <2>3 DEF PopRaw, ParserInv
  <1>5. ASSUME NEW p \in Parsers, Parse(p)
        PROVE  ParserInv'
    BY <1>0, <1>5 DEF Parse, ParserInv
  <1>6. ASSUME NEW p \in Parsers, Push(p)
        PROVE  ParserInv'
    BY <1>0, <1>6 DEF Push, ParserInv
  <1>7. ASSUME NEW p \in Parsers, ParserDone(p)
        PROVE  ParserInv'
    BY <1>0, <1>7 DEF ParserDone, ParserInv
  <1>8. ASSUME NEW c \in Consumers, Pop(c) \/ Coalesce(c) \/ Flush(c) \/ Abort(c)
        PROVE  ParserInv'
    BY <1>8 DEF Pop, Coalesce, Flush, Abort, SetAborted, ParserInv
  <1>9. CASE Finish \/ Join \/ UNCHANGED vars
    BY <1>9 DEF Finish, SetAborted, Join, vars, ParserInv
  <1> QED
    BY <1>1, <1>2, <1>3, <1>4, <1>5, <1>6, <1>7, <1>8, <1>9, NextCases

\* All parsers have left once active_parsers is zero.
LEMMA NoneActive ==
    ASSUME TypeInv, active_parsers = 0
    PROVE  \A p \in Parsers : parser[p] = "done"
  <1> DEFINE P == {p \in Parsers : parser[p] # "done"}
  <1>1. IsFiniteSet(P) /\ Cardinality(P) = 0
    BY PipelineAssumption, FS_Subset DEF TypeInv, ActiveExact
  <1>2. P = {}
    BY <1>1, FS_EmptySet
  <1> QED
    BY <1>2

LEMMA EndInvStep ==
    ASSUME TypeInv, ReaderInv, EndInv, [Next]_vars
    PROVE  EndInv'
  <1> USE DEF queues, flags, readerVars, parserVars, consumerVars
  <1>0. /\ parser \in [Parsers -> {"pop", "parse", "push", "exit", "done"}]
        /\ consumer \in [Consumers -> {"pop", "coalesce", "flush", "abort", "done"}]
    BY DEF TypeInv, TypeOK
  <1>1. CASE PushRaw \/ ReadBatch \/ ReaderDone
    <2>1. UNCHANGED <<consumer, parser, queue, aborted, consumer_error, result>>
      BY <1>1 DEF PushRaw, ReadBatch, ReaderDone
    <2>2. reader # "done"
      BY <1>1 DEF PushRaw, ReadBatch, ReaderDone
    <2>3. result # "ok"
      BY <2>2 DEF EndInv
    <2> QED
      BY <2>1, <2>2, <2>3 DEF EndInv, AllParsed
  <1>2. ASSUME NEW p \in Parsers, PopRaw(p) \/ Parse(p) \/ Push(p) \/ ParserDone(p)
        PROVE  EndInv'
    <2>1. parser[p] # "done"
      BY <1>2 DEF PopRaw, Parse, Push, ParserDone
    <2>2. ~AllParsed /\ result # "ok"
      BY <2>1 DEF AllParsed, EndInv
    <2>3. UNCHANGED <<consumer, consumer_error, result>> /\ (aborted => aborted')
      <3>1. CASE PopRaw(p) \/ Parse(p) \/ Push(p)
        BY <3>1 DEF PopRaw, Parse, Push
      <3>2. CASE ParserDone(p)
        BY <3>2 DEF ParserDone
      <3> QED
        BY <1>2, <3>1, <3>2
    <2> QED
      BY <2>2, <2>3 DEF EndInv
  <1>3. ASSUME NEW c \in Consumers, Pop(c)
        PROVE  EndInv'
    <2>1. consumer[c] # "done" /\ result = "running"
      BY <1>3 DEF Pop, EndInv
    <2>2. AllParsed => AllParsed'
      BY <1>3 DEF Pop, AllParsed
    <2>3. consumer'[c] \in {"flush", "done"} => aborted \/ AllParsed'
      BY <1>0, <1>3, NoneActive DEF Pop, AllParsed, ReaderInv
    <2>4. /\ \A d \in Consumers \ {c} : consumer'[d] = consumer[d]
          /\ UNCHANGED <<aborted, result>>
      BY <1>0, <1>3 DEF Pop
    <2> QED
      BY <2>1, <2>2, <2>3, <2>4 DEF EndInv
  <1>4. ASSUME NEW c \in Consumers, Coalesce(c)
        PROVE  EndInv'
    <2>1. result = "running"
      BY <1>4 DEF Coalesce, EndInv
    <2>2. /\ consumer'[c] \notin {"flush", "done"}
          /\ \A d \in Consumers \ {c} : consumer'[d] = consumer[d]
          /\ UNCHANGED <<aborted, result, reader, queue, parser>>
      BY <1>0, <1>4 DEF Coalesce
    <2> QED
      BY <2>1, <2>2 DEF EndInv, AllParsed
  <1>5. ASSUME NEW c \in Consumers, Flush(c)
        PROVE  EndInv'
    <2>1. result = "running" /\ (aborted \/ AllParsed)
      BY <1>5 DEF Flush, EndInv
    <2>2. /\ \A d \in Consumers \ {c} : consumer'[d] = consumer[d]
          /\ UNCHANGED <<aborted, result, reader, queue, parser>>
      BY <1>0, <1>5 DEF Flush
    <2> QED
      BY <2>1, <2>2 DEF EndInv, AllParsed
  <1>6. ASSUME NEW c \in Consumers, Abort(c)
        PROVE  EndInv'
    <2>1. result = "running"
      BY <1>6 DEF Abort, EndInv
    <2> QED
      BY <1>6, <2>1 DEF Abort, SetAborted, EndInv
  <1>7. CASE Finish
    BY <1>7 DEF Finish, SetAborted, EndInv, AllParsed
  <1>8. CASE Join
    BY <1>8 DEF Join, EndInv, AllParsed
  <1>9. CASE UNCHANGED vars
    BY <1>9 DEF vars, EndInv, AllParsed
  <1> QED
    BY <1>1, <1>2, <1>3, <1>4, <1>5, <1>6, <1>7, <1>8, <1>9, NextCases

THEOREM EndInvariant == Spec => [](ReaderInv /\ ParserInv /\ EndInv)
  <1>1. Init => ReaderInv /\ ParserInv /\ EndInv
    BY DEF Init, ReaderInv, ParserInv, EndInv
  <1> QED
    BY <1>1, ReaderInvStep, ParserInvStep, EndInvStep, TypeInvariant, PTL DEF Spec

\* Only a stream ingestor's consumers, or a table that is not native, drop batches.
THEOREM DroppersKnown == Spec => [](dropped # {} => Several \/ ~Native)
  <1> DEFINE Inv == dropped # {} => Several \/ ~Native
  <1>1. Init => Inv
    BY DEF Init
  <1>2. ASSUME Inv, [Next]_vars
        PROVE  Inv'
    <2> USE DEF readerVars, parserVars, consumerVars
    <2>1. ASSUME NEW merged, Ingest(merged)
          PROVE  Inv'
      BY <1>2, <2>1 DEF Ingest, Delivered, Several
    <2>2. ASSUME NEW c \in Consumers, Coalesce(c) \/ Flush(c)
          PROVE  Inv'
      BY <1>2, <2>1, <2>2 DEF Coalesce, Flush, Several
    <2>3. ASSUME dropped' = dropped
          PROVE  Inv'
      BY <1>2, <2>3 DEF Several
    <2>4. CASE ReadBatch \/ PushRaw \/ ReaderDone \/ Finish \/ Join \/ UNCHANGED vars
      BY <2>3, <2>4 DEF ReadBatch, PushRaw, ReaderDone, Finish, Join, vars
    <2>5. ASSUME NEW p \in Parsers, PopRaw(p) \/ Parse(p) \/ Push(p) \/ ParserDone(p)
          PROVE  Inv'
      BY <2>3, <2>5 DEF PopRaw, Parse, Push, ParserDone
    <2>6. ASSUME NEW c \in Consumers, Pop(c) \/ Abort(c)
          PROVE  Inv'
      BY <2>3, <2>6 DEF Pop, Abort
    <2> QED
      BY <1>2, <2>2, <2>4, <2>5, <2>6, NextCases
  <1> QED
    BY <1>1, <1>2, PTL DEF Spec

\* A raw_ingest_file that succeeds has ingested every batch of the file exactly
\* once but for those dropped by other settings than the default ones, whichever
\* thread failed and however they interleaved.
THEOREM SuccessIsWhole == Spec => []SuccessMeansWholeFile
  <1>1. ASSUME TypeInv, PlaceInv, ReaderInv, ParserInv, EndInv,
               dropped # {} => Several \/ ~Native
        PROVE  SuccessMeansWholeFile
    <2>2. ASSUME result = "ok", NEW b \in Batches
          PROVE  \/ ingested[b] = 1
                 \/ ingested[b] = 0 /\ b \in dropped /\ (Several \/ ~Native)
      <3>1. /\ ~error /\ ~consumer_error /\ ~aborted /\ reader = "done"
            /\ \A p \in Parsers : parser[p] = "done"
            /\ \A c \in Consumers : consumer[c] = "done"
        BY <1>1, <2>2 DEF EndInv, ReaderInv
      <3>2. parse_failed = {}
        BY <1>1, <3>1 DEF ParserInv, TypeInv, TypeOK
      <3>3. ~WillFail
        BY <3>1, <3>2 DEF WillFail
      <3>4. raw_queue = <<>> /\ queue = <<>> /\ next = N + 1
        <4>1. PICK p \in Parsers : TRUE
          BY PipelineAssumption
        <4>2. PICK c \in Consumers : TRUE
          BY PipelineAssumption
        <4> QED
          BY <1>1, <3>1, <3>2, <4>1, <4>2 DEF ReaderInv, ParserInv, EndInv, AllParsed
      <3>5. \A p \in Parsers : parsing[p] = Nothing
        BY <1>1, <3>1 DEF TypeInv, HandsInv
      <3>6. \A c \in Consumers : item[c] = Nothing /\ pending_storage[c] = <<>>
        BY <1>1, <3>1 DEF TypeInv, HandsInv
      <3>7. b \notin InFile
        BY <3>4, PipelineAssumption DEF InFile, Batches
      <3>8. b \notin InRaw \union InQueue
        BY <3>4, EmptyQueue DEF InRaw, InQueue
      <3>9. b \notin InParsers \union InItems \union InKept
        BY <3>5, <3>6, EmptyQueue DEF InParsers, InItems, InKept, Nothing, Batches
      <3>10. b \in Settled
        BY <1>1, <3>3, <3>7, <3>8, <3>9 DEF PlaceInv, NoneMissing
      <3> QED
        BY <1>1, <3>10 DEF Settled, PlaceInv, OnceInStage
    <2> QED
      BY <2>2 DEF SuccessMeansWholeFile
  <1> QED
    BY <1>1, TypeInvariant, PlaceInvariant, EndInvariant, DroppersKnown, PTL
================================================================================
