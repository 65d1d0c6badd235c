------------------------------ MODULE AsyncBuffers ------------------------------
(***************************************************************************)
(* Asynchronous inserts (raw_async.cpp, RawAsyncBuffers).  Clients append  *)
(* payloads to a buffer per table; a background flusher takes the buffers  *)
(* that are old or large enough, raw_flush() takes all of them, and either *)
(* ingests each taken buffer in one transaction, several tables at a time. *)
(* A buffer whose transaction fails is dropped.                            *)
(*                                                                         *)
(* The mutex is not a variable: each locked block is one action.  The      *)
(* lifetime of the database is one: clients hold it, and so does every     *)
(* FlushBuffer in progress; whoever lets go last runs the destructor.      *)
(***************************************************************************)
EXTENDS Naturals, Sequences, FiniteSets, Functions

CONSTANTS Payloads,      \* the payloads clients may send
          Targets,       \* the tables
          Callers,       \* the clients that call raw_flush(), once each
          Flusher,       \* the background thread
          DueSize,       \* rawduck_async_max_data_size, in payloads
          FlushThreads,  \* workers of one FlushDueParallel
          Faults         \* what DuckDB may answer besides success

ASSUME AsyncAssumption ==
    /\ Flusher \notin Callers
    /\ DueSize \in Nat \ {0}
    /\ FlushThreads \in Nat \ {0}
    /\ Faults \subseteq {"error", "commit"}

VARIABLES
    target,    \* target[p]: the table p is sent to
    unsent,    \* payloads no client has sent yet
    buffers,   \* buffers[t]: the payloads waiting for t
    aged,      \* the buffers whose oldest payload has reached the timeout
    job,       \* job[f][t]: what flushing thread f has taken for t
    wide,      \* wide[f]: f's job has more than one table (it uses workers)
    open,      \* the FlushBuffer calls in progress, as <<f, t>>
    table,     \* table[t]: the committed payloads of t
    dropped,   \* the payloads whose transaction failed or came too late
    flusher,   \* "off", "wait", "flush", "drain" or "exited"
    call,      \* call[c]: "idle", "flushing", "returned" or "threw"
    before,    \* before[c]: payloads acknowledged before c called raw_flush
    clients,   \* some client still holds the database
    fate       \* the process: "up", "closing", "closed", "crashed", "hung"

inputVars  == <<target, unsent>>
bufferVars == <<buffers, aged>>
jobVars    == <<job, wide, open>>
tableVars  == <<table, dropped>>
callVars   == <<call, before>>
lifeVars   == <<flusher, clients, fate>>
vars == <<inputVars, bufferVars, jobVars, tableVars, callVars, lifeVars>>

Threads == {Flusher} \union Callers
NoJob == [t \in Targets |-> <<>>]
NonEmpty(m) == {t \in Targets : m[t] # <<>>}

TypeOK ==
    /\ target \in [Payloads -> Targets]
    /\ unsent \subseteq Payloads
    /\ buffers \in [Targets -> Seq(Payloads)]
    /\ aged \subseteq NonEmpty(buffers)
    /\ job \in [Threads -> [Targets -> Seq(Payloads)]]
    /\ wide \in [Threads -> BOOLEAN]
    /\ open \subseteq Threads \X Targets
    /\ table \in [Targets -> Seq(Payloads)]
    /\ dropped \subseteq Payloads
    /\ flusher \in {"off", "wait", "flush", "drain", "exited"}
    /\ call \in [Callers -> {"idle", "flushing", "returned", "threw"}]
    /\ before \in [Callers -> SUBSET Payloads]
    /\ clients \in BOOLEAN
    /\ fate \in {"up", "closing", "closed", "crashed", "hung"}

Init ==
    /\ target \in [Payloads -> Targets]
    /\ unsent = Payloads
    /\ buffers = NoJob
    /\ aged = {}
    /\ job = [f \in Threads |-> NoJob]
    /\ wide = [f \in Threads |-> FALSE]
    /\ open = {}
    /\ table = NoJob
    /\ dropped = {}
    /\ flusher = "off"
    /\ call = [c \in Callers |-> "idle"]
    /\ before = [c \in Callers |-> {}]
    /\ clients = TRUE
    /\ fate = "up"

Alive == fate \in {"up", "closing"}

--------------------------------------------------------------------------------
(* Clients *)

\* Start: the first use of the buffers creates the flusher.
Start == flusher' = IF flusher = "off" THEN "wait" ELSE flusher

\* RawAsyncEnqueue: the payload is acknowledged as soon as it is buffered.
Enqueue(p) ==
    /\ clients /\ fate = "up"
    /\ p \in unsent
    /\ unsent' = unsent \ {p}
    /\ buffers' = [buffers EXCEPT ![target[p]] = Append(@, p)]
    /\ Start
    /\ UNCHANGED <<target, aged, jobVars, tableVars, callVars, clients, fate>>

\* Time passes: the oldest payload of a buffer reaches busy_timeout_ms.
Age(t) ==
    /\ Alive
    /\ t \in NonEmpty(buffers) \ aged
    /\ aged' = aged \union {t}
    /\ UNCHANGED <<inputVars, buffers, jobVars, tableVars, callVars, lifeVars>>

\* Mutant: the taken buffers stay in the map.
TakeCopies(f, S) ==
    /\ job' = [job EXCEPT ![f] = [t \in Targets |-> IF t \in S THEN buffers[t] ELSE <<>>]]
    /\ wide' = [wide EXCEPT ![f] = Cardinality(S) > 1]
    /\ UNCHANGED <<buffers, aged>>

\* Mutant: the age of a taken buffer outlives it.
TakeKeepsAge(f, S) ==
    /\ job' = [job EXCEPT ![f] = [t \in Targets |-> IF t \in S THEN buffers[t] ELSE <<>>]]
    /\ wide' = [wide EXCEPT ![f] = Cardinality(S) > 1]
    /\ buffers' = [t \in Targets |-> IF t \in S THEN <<>> ELSE buffers[t]]
    /\ UNCHANGED aged

\* Thread f takes the buffers of the tables S out of the map.
Take(f, S) ==
    /\ job' = [job EXCEPT ![f] = [t \in Targets |-> IF t \in S THEN buffers[t] ELSE <<>>]]
    /\ wide' = [wide EXCEPT ![f] = Cardinality(S) > 1]
    /\ buffers' = [t \in Targets |-> IF t \in S THEN <<>> ELSE buffers[t]]
    /\ aged' = aged \ S

\* Mutant: raw_flush() only takes what the flusher would have taken.
FlushAllDueOnly(c) ==
    /\ clients /\ fate = "up"
    /\ call[c] = "idle"
    /\ call' = [call EXCEPT ![c] = "flushing"]
    /\ before' = [before EXCEPT ![c] = Payloads \ unsent]
    /\ Take(c, aged)
    /\ Start
    /\ UNCHANGED <<inputVars, open, tableVars, clients, fate>>

\* raw_flush(): take everything that is buffered now.
FlushAll(c) ==
    /\ clients /\ fate = "up"
    /\ call[c] = "idle"
    /\ call' = [call EXCEPT ![c] = "flushing"]
    /\ before' = [before EXCEPT ![c] = Payloads \ unsent]
    /\ Take(c, NonEmpty(buffers))
    /\ Start
    /\ UNCHANGED <<inputVars, open, tableVars, clients, fate>>

\* raw_flush() has flushed all it took.
FlushAllReturns(c) ==
    /\ Alive
    /\ call[c] = "flushing"
    /\ job[c] = NoJob
    /\ call' = [call EXCEPT ![c] = "returned"]
    /\ UNCHANGED <<inputVars, bufferVars, jobVars, tableVars, before, lifeVars>>

--------------------------------------------------------------------------------
(* FlushBuffer, on behalf of flushing thread f *)

DatabaseAlive == clients \/ open # {}
OpenOf(f) == {t \in Targets : <<f, t>> \in open}
Workers(f) == IF wide[f] THEN FlushThreads ELSE 1

\* A worker takes the next table, locks the database and begins.
OpenFlush(f, t) ==
    /\ Alive
    /\ job[f][t] # <<>> /\ <<f, t>> \notin open
    /\ Cardinality(OpenOf(f)) < Workers(f)
    /\ DatabaseAlive
    /\ open' = open \union {<<f, t>>}
    /\ UNCHANGED <<inputVars, bufferVars, job, wide, tableVars, callVars, lifeVars>>

\* Mutant: a buffer that finds the database gone is tried again.
FlushTooLateRetries(f, t) ==
    /\ Alive
    /\ job[f][t] # <<>> /\ <<f, t>> \notin open
    /\ ~DatabaseAlive
    /\ UNCHANGED vars

\* The database is gone: the buffer is dropped.
FlushTooLate(f, t) ==
    /\ Alive
    /\ job[f][t] # <<>> /\ <<f, t>> \notin open
    /\ ~DatabaseAlive
    /\ dropped' = dropped \union Range(job[f][t])
    /\ job' = [job EXCEPT ![f][t] = <<>>]
    /\ UNCHANGED <<inputVars, bufferVars, wide, open, table, callVars, lifeVars>>

\* FlushBuffer returns and lets go of the database.  The last to let go runs
\* ~RawAsyncBuffers, which joins the flusher: on the flusher itself the join
\* throws out of a destructor, on one of its workers it waits for ever.
Release(f, t) ==
    /\ job' = [job EXCEPT ![f][t] = <<>>]
    /\ open' = open \ {<<f, t>>}
    /\ fate' = IF clients \/ open' # {} THEN fate
               ELSE IF wide[f] THEN "hung" ELSE "crashed"

\* All payloads of the buffer are committed, in order, in one transaction.
CommitFlush(f, t) ==
    /\ Alive
    /\ <<f, t>> \in open
    /\ table' = [table EXCEPT ![t] = @ \o job[f][t]]
    /\ Release(f, t)
    /\ UNCHANGED <<inputVars, bufferVars, wide, dropped, callVars, flusher, clients>>

\* Another transaction on the same table is in progress: CREATE and ALTER may
\* conflict with it.
Contended(f, t) == \E g \in Threads \ {f} : <<g, t>> \in open

\* The transaction fails and is rolled back: the buffer is dropped.
FailFlush(f, t) ==
    /\ Alive
    /\ <<f, t>> \in open
    /\ "error" \in Faults \/ Contended(f, t)
    /\ dropped' = dropped \union Range(job[f][t])
    /\ Release(f, t)
    /\ UNCHANGED <<inputVars, bufferVars, wide, table, callVars, flusher, clients>>

\* The commit itself fails: DuckDB has ended the transaction, so the rollback
\* of the catch block throws.  Inline in raw_flush() the statement fails; in
\* the flusher or in a worker thread nothing catches it.
CommitThrows(f, t) ==
    /\ Alive
    /\ <<f, t>> \in open
    /\ "commit" \in Faults
    /\ dropped' = dropped \union Range(job[f][t])
    /\ job' = [job EXCEPT ![f][t] = <<>>]
    /\ open' = open \ {<<f, t>>}
    /\ \/ /\ f \in Callers /\ ~wide[f]
          /\ call' = [call EXCEPT ![f] = "threw"]
          /\ UNCHANGED fate
       \/ /\ f = Flusher \/ wide[f]
          /\ fate' = "crashed"
          /\ UNCHANGED call
    /\ UNCHANGED <<inputVars, bufferVars, wide, table, before, flusher, clients>>

--------------------------------------------------------------------------------
(* The flusher and the end of the database *)

\* Mutant: the flusher forgets the buffers that are old but not large.
DueBySizeOnly == {t \in Targets : Len(buffers[t]) >= DueSize}

Due == aged \union {t \in Targets : Len(buffers[t]) >= DueSize}

\* The flusher wakes up and takes the buffers that are due, if any.
FlushLoopRound ==
    /\ fate = "up"
    /\ flusher = "wait"
    /\ Due # {}
    /\ Take(Flusher, Due)
    /\ flusher' = "flush"
    /\ UNCHANGED <<inputVars, open, tableVars, callVars, clients, fate>>

FlushLoopBack ==
    /\ Alive
    /\ flusher = "flush"
    /\ job[Flusher] = NoJob
    /\ flusher' = "wait"
    /\ UNCHANGED <<inputVars, bufferVars, jobVars, tableVars, callVars, clients, fate>>

\* The last client lets go of the database.  With no FlushBuffer in progress
\* the destructor runs here: running is cleared and the flusher is joined.
Close ==
    /\ clients /\ fate = "up"
    /\ \A c \in Callers : call[c] # "flushing"
    /\ clients' = FALSE
    /\ fate' = IF open # {} THEN fate
               ELSE IF flusher = "off" THEN "closed" ELSE "closing"
    /\ UNCHANGED <<inputVars, bufferVars, jobVars, tableVars, callVars, flusher>>

\* The flusher sees that it is no longer running and drains what is left.
FlushLoopDrain ==
    /\ fate = "closing"
    /\ flusher = "wait"
    /\ Take(Flusher, NonEmpty(buffers))
    /\ flusher' = "drain"
    /\ UNCHANGED <<inputVars, open, tableVars, callVars, clients, fate>>

FlushLoopExit ==
    /\ fate = "closing"
    /\ flusher = "drain"
    /\ job[Flusher] = NoJob
    /\ flusher' = "exited"
    /\ fate' = "closed"
    /\ UNCHANGED <<inputVars, bufferVars, jobVars, tableVars, callVars, clients>>

--------------------------------------------------------------------------------
FlushStep(f) ==
    \E t \in Targets :
      \/ OpenFlush(f, t) \/ FlushTooLate(f, t)
      \/ CommitFlush(f, t) \/ FailFlush(f, t) \/ CommitThrows(f, t)

FlusherStep ==
    \/ FlushStep(Flusher)
    \/ FlushLoopRound \/ FlushLoopBack \/ FlushLoopDrain \/ FlushLoopExit

CallerStep(c) == FlushStep(c) \/ FlushAllReturns(c)

Next ==
    \/ \E p \in Payloads : Enqueue(p)
    \/ \E t \in Targets : Age(t)
    \/ \E c \in Callers : FlushAll(c) \/ CallerStep(c)
    \/ FlusherStep
    \/ Close

Spec == Init /\ [][Next]_vars

\* Time passes, and a thread that can run is eventually scheduled.  Clients
\* need not send, call raw_flush() or close the database.
FairSpec ==
    /\ Spec
    /\ \A t \in Targets : WF_vars(Age(t))
    /\ WF_vars(FlusherStep)
    /\ \A c \in Callers : WF_vars(CallerStep(c))

--------------------------------------------------------------------------------
(* Properties *)

Sent == Payloads \ unsent
Committed == UNION {Range(table[t]) : t \in Targets}
Buffered == UNION {Range(buffers[t]) : t \in Targets}
Taken(f) == UNION {Range(job[f][t]) : t \in Targets}

\* A sent payload is in exactly one place, there once, and never under another
\* table's name: one buffer, one flush in progress, its table, or dropped.
PayloadInOnePlace ==
    /\ \A p \in Sent :
         Cardinality({f \in Threads : p \in Taken(f)}
                     \union {x \in {"buffer"} : p \in Buffered}
                     \union {x \in {"table"} : p \in Committed}
                     \union {x \in {"dropped"} : p \in dropped}) = 1
    /\ \A t \in Targets :
         /\ IsInjective(buffers[t]) /\ IsInjective(table[t])
         /\ \A p \in Range(buffers[t]) \union Range(table[t])
                       \union UNION {Range(job[f][t]) : f \in Threads} : target[p] = t

\* Once raw_flush() has returned, nothing that was acknowledged before the call
\* is still waiting in a buffer.
FlushEmptiesBuffers ==
    \A c \in Callers : call[c] \in {"returned", "threw"} => before[c] \intersect Buffered = {}

\* Every acknowledged payload is eventually committed or dropped, as long as
\* the process is up and its clients have not left: no wake-up is needed from
\* a later insert.
EveryPayloadSettled ==
    \A p \in Payloads :
      p \in Sent ~> (p \in Committed \union dropped \/ ~clients \/ fate = "crashed")

\* Closing the database with no flush in progress always completes.
QuietCloseCompletes == fate = "closing" ~> fate = "closed"

\* When raw_flush() has returned, everything acknowledged before the call can
\* be read ("call raw_flush() to drain before reading").
FlushedMeansVisible ==
    \A c \in Callers : call[c] = "returned" => before[c] \subseteq Committed
================================================================================
