------------------------------ MODULE GroupCommit ------------------------------
(***************************************************************************)
(* Group commit of concurrent HTTP ingest requests (raw_ingest.cpp,        *)
(* RawIngestGroupCommit and RawIngestSerialized).  Every request runs on   *)
(* its own thread with its own Connection.  The first request to find its  *)
(* table idle leads: it takes the whole queue of its target, merges it,    *)
(* ingests it in one transaction and publishes the result to every item of *)
(* the batch; the others sleep on one condition variable shared by all     *)
(* tables.                                                                 *)
(*                                                                         *)
(* coord.lock is not a variable: each block the code runs under it is one  *)
(* action.  What the code does outside it (the transaction, the            *)
(* publication of results, a waiter's read of its result) is split into    *)
(* the steps another thread can observe.                                   *)
(***************************************************************************)
EXTENDS Naturals, Sequences, FiniteSets, Functions

CONSTANTS Requests,      \* the ingest requests, one handler thread each
          Targets,       \* the spellings of a target a request may use
          Fold,          \* Fold[t]: t as a case-insensitive set compares it
          TableOf,       \* TableOf[t]: the catalog table t resolves to
          Keys,          \* the JSON keys a payload may carry
          Faults,        \* what DuckDB may answer besides success
          LingerTarget,  \* LINGER_TARGET_BATCH
          NoOne          \* creation_lock is free

\* The catalog compares names as case_insensitive_set_t does: spellings the set
\* takes for one target resolve to one table.
ASSUME GroupCommitAssumption ==
    /\ IsFiniteSet(Requests)
    /\ Fold \in [Targets -> Range(Fold)]
    /\ TableOf \in [Targets -> Range(TableOf)]
    /\ \A t, u \in Targets : Fold[t] = Fold[u] => TableOf[t] = TableOf[u]
    /\ Keys # {}
    /\ Faults \subseteq {"conflict", "error", "commit"}
    /\ LingerTarget \in Nat
    /\ NoOne \notin Requests

VARIABLES
    pc,             \* where each request's thread is
    target,         \* target[r]: the spelling r was sent to
    keys,           \* keys[r]: the keys of r's rows
    pending,        \* coord.pending: a FIFO per spelling
    committing,     \* coord.committing: folded targets being led
    active,         \* coord.active: requests inside, per spelling
    asleep,         \* the requests blocked in coord.cv.wait
    item,           \* PendingItem: "new", "queued", "done", "filled"
    failed,         \* PendingItem::failed, as last written
    batch,          \* batch[l]: what leader l has still to publish
    front,          \* front[l]: the request whose parse tree heads the batch
    ok,             \* ok[l]: the local result of l's current batch
    tries,          \* tries[l]: attempts RawIngestSerialized has made
    txn,            \* txn[l]: "none" (autocommit), "open" or "creating"
    known,          \* RawTableCreationCache::known_to_exist
    creation_lock,  \* its creation_lock: the holder, or NoOne
    exists,         \* tables of the committed catalog
    commits,        \* commits[r]: transactions that committed r's rows
    kept,           \* kept[r]: the keys of r that reached the table
    ack             \* ack[r]: what r's client was told

queueVars == <<pending, committing, active, asleep>>
itemVars  == <<item, failed, ack>>
inputVars == <<target, keys>>
batchVars == <<batch, front, ok>>
txnVars   == <<tries, txn, known, creation_lock>>
dbVars    == <<exists, commits, kept>>
vars == <<pc, queueVars, itemVars, inputVars, batchVars, txnVars, dbVars>>

--------------------------------------------------------------------------------
(* Abbreviations *)

Tables == Range(TableOf)
Folded == Range(Fold)
TableFor(r) == TableOf[target[r]]
FoldFor(r)  == Fold[target[r]]

\* The program points of a thread while it leads its target.  "wedged" is a
\* leader whose handler an exception left with committing still set.
LeaderPCs == {"linger", "serialize", "lock", "attempt", "commit", "mark",
              "rollback", "publish", "fill", "wedged"}
PCs == {"idle", "wait", "return", "answered"} \union LeaderPCs

\* Mutant: the set of led targets is compared case-sensitively.
LedCaseSensitive(t) == \E s \in Requests : pc[s] \in LeaderPCs /\ target[s] = t

\* Mutant: a request that enters is not counted.
CountInForgotten(t) == active

\* ++coord.active[target]
CountIn(t) == [active EXCEPT ![t] = @ + 1]

Led(t) == Fold[t] \in committing
Resolved(r) == item[r] \in {"done", "filled"}

\* Answers: "error", or success with the row count the client was shown: its
\* own ("own"), the whole batch's ("batch") or that of an unfilled item ("zero").
Answers == {"error", "own", "batch", "zero"}

TypeOK ==
    /\ pc \in [Requests -> PCs]
    /\ target \in [Requests -> Targets]
    /\ keys \in [Requests -> SUBSET Keys]
    /\ pending \in [Targets -> Seq(Requests)]
    /\ committing \subseteq Folded
    /\ active \in [Targets -> Nat]
    /\ asleep \subseteq Requests
    /\ item \in [Requests -> {"new", "queued", "done", "filled"}]
    /\ failed \in [Requests -> BOOLEAN]
    /\ ack \in [Requests -> Answers \union {"none"}]
    /\ batch \in [Requests -> Seq(Requests)]
    /\ front \in [Requests -> Requests]
    /\ ok \in [Requests -> BOOLEAN]
    /\ tries \in [Requests -> 1..2]
    /\ txn \in [Requests -> {"none", "open", "creating"}]
    /\ known \subseteq Folded
    /\ creation_lock \in Requests \union {NoOne}
    /\ exists \subseteq Tables
    /\ commits \in [Requests -> Nat]
    /\ kept \in [Requests -> SUBSET Keys]

Init ==
    /\ pc = [r \in Requests |-> "idle"]
    /\ target \in [Requests -> Targets]
    /\ keys \in [Requests -> (SUBSET Keys) \ {{}}]
    /\ pending = [t \in Targets |-> <<>>]
    /\ committing = {}
    /\ active = [t \in Targets |-> 0]
    /\ asleep = {}
    /\ item = [r \in Requests |-> "new"]
    /\ failed = [r \in Requests |-> FALSE]
    /\ ack = [r \in Requests |-> "none"]
    /\ batch = [r \in Requests |-> <<>>]
    /\ front = [r \in Requests |-> r]
    /\ ok = [r \in Requests |-> TRUE]
    /\ tries = [r \in Requests |-> 1]
    /\ txn = [r \in Requests |-> "none"]
    /\ known = {}
    /\ creation_lock = NoOne
    /\ exists \in SUBSET Tables
    /\ commits = [r \in Requests |-> 0]
    /\ kept = [r \in Requests |-> {}]

--------------------------------------------------------------------------------
(* Entering, waiting and leading: the blocks under coord.lock *)

\* Mutant: the queue is copied and never cleared.
TakeBatchKeepsQueue(r, q) ==
    /\ batch' = [batch EXCEPT ![r] = q]
    /\ front' = [front EXCEPT ![r] = Head(q)]
    /\ ok' = [ok EXCEPT ![r] = TRUE]
    /\ tries' = [tries EXCEPT ![r] = 1]
    /\ pc' = [pc EXCEPT ![r] = "serialize"]
    /\ UNCHANGED pending

\* Mutant: only the front item is taken from the queue that is cleared.
TakeBatchFrontOnly(r, q) ==
    /\ pending' = [pending EXCEPT ![target[r]] = <<>>]
    /\ batch' = [batch EXCEPT ![r] = <<Head(q)>>]
    /\ front' = [front EXCEPT ![r] = Head(q)]
    /\ ok' = [ok EXCEPT ![r] = TRUE]
    /\ tries' = [tries EXCEPT ![r] = 1]
    /\ pc' = [pc EXCEPT ![r] = "serialize"]

\* The leader's loop body starts: it moves q, the queue of its spelling, into
\* its own batch; the front item's parse tree is what the others merge into.
TakeBatch(r, q) ==
    /\ pending' = [pending EXCEPT ![target[r]] = <<>>]
    /\ batch' = [batch EXCEPT ![r] = q]
    /\ front' = [front EXCEPT ![r] = Head(q)]
    /\ ok' = [ok EXCEPT ![r] = TRUE]
    /\ tries' = [tries EXCEPT ![r] = 1]
    /\ pc' = [pc EXCEPT ![r] = "serialize"]

\* A request enters: it is counted, it is queued and every sleeper is woken.
\* It waits if its table is led, lingers if a sibling is inside, else drains.
Enter(r) ==
    /\ pc[r] = "idle"
    /\ active' = CountIn(target[r])
    /\ item' = [item EXCEPT ![r] = "queued"]
    /\ LET q == Append(pending[target[r]], r)
       IN \/ /\ Led(target[r])
             /\ pending' = [pending EXCEPT ![target[r]] = q]
             /\ asleep' = {r}
             /\ pc' = [pc EXCEPT ![r] = "wait"]
             /\ UNCHANGED <<committing, batchVars, tries>>
          \/ /\ ~Led(target[r])
             /\ committing' = committing \union {FoldFor(r)}
             /\ asleep' = {}
             /\ \/ /\ active[target[r]] > 0
                   /\ pending' = [pending EXCEPT ![target[r]] = q]
                   /\ pc' = [pc EXCEPT ![r] = "linger"]
                   /\ UNCHANGED <<batchVars, tries>>
                \/ /\ active[target[r]] = 0
                   /\ TakeBatch(r, q)
    /\ UNCHANGED <<inputVars, failed, ack, txn, known, creation_lock, dbVars>>

\* The bounded wait of a new leader ends: its batch is large enough ...
LingerFull(r) ==
    /\ pc[r] = "linger"
    /\ Len(pending[target[r]]) >= LingerTarget
    /\ TakeBatch(r, pending[target[r]])
    /\ UNCHANGED <<committing, active, asleep, itemVars, inputVars, txn, known,
                   creation_lock, dbVars>>

\* ... or its 25 ms are over.
LingerTimeout(r) ==
    /\ pc[r] = "linger"
    /\ Len(pending[target[r]]) < LingerTarget
    /\ TakeBatch(r, pending[target[r]])
    /\ UNCHANGED <<committing, active, asleep, itemVars, inputVars, txn, known,
                   creation_lock, dbVars>>

\* A notified waiter re-tests item->done: it leaves, or sleeps again.
Wake(r) ==
    /\ pc[r] = "wait"
    /\ r \notin asleep
    /\ \/ /\ Resolved(r)
          /\ pc' = [pc EXCEPT ![r] = "return"]
          /\ UNCHANGED asleep
       \/ /\ ~Resolved(r)
          /\ asleep' = asleep \union {r}
          /\ UNCHANGED pc
    /\ UNCHANGED <<pending, committing, active, itemVars, inputVars, batchVars,
                   txnVars, dbVars>>

--------------------------------------------------------------------------------
(* RawIngestSerialized, on the leader's own connection *)

\* The fast path: a target known to exist skips the creation lock.
Serialize(r) ==
    /\ pc[r] = "serialize"
    /\ pc' = [pc EXCEPT ![r] = IF FoldFor(r) \in known THEN "attempt" ELSE "lock"]
    /\ UNCHANGED <<queueVars, itemVars, inputVars, batchVars, txnVars, dbVars>>

\* Mutant: the creation lock only covers the second look at known_to_exist.
LockCreationReleased(r) ==
    /\ pc[r] = "lock"
    /\ creation_lock = NoOne
    /\ pc' = [pc EXCEPT ![r] = "attempt"]
    /\ UNCHANGED <<queueVars, itemVars, inputVars, batchVars, txnVars, dbVars>>

\* The first insert takes the creation lock and looks again: it gives the lock
\* back when another request created and committed the table meanwhile.
LockCreation(r) ==
    /\ pc[r] = "lock"
    /\ creation_lock = NoOne
    /\ creation_lock' = IF FoldFor(r) \in known THEN NoOne ELSE r
    /\ pc' = [pc EXCEPT ![r] = "attempt"]
    /\ UNCHANGED <<queueVars, itemVars, inputVars, batchVars, tries, txn, known, dbVars>>

\* creation_guard is destroyed when RawIngestSerialized returns or throws.
ReleaseCreation(r) ==
    creation_lock' = IF creation_lock = r THEN NoOne ELSE creation_lock

\* Another transaction holds an uncommitted CREATE of r's table.
CreateConflict(r) ==
    /\ TableFor(r) \notin exists
    /\ \E s \in Requests \ {r} : txn[s] = "creating" /\ TableFor(s) = TableFor(r)

\* Begin and ingest: the table is created when the catalog does not have it.
AttemptSucceeds(r) ==
    /\ pc[r] = "attempt"
    /\ txn[r] = "none"
    /\ ~CreateConflict(r)
    /\ txn' = [txn EXCEPT ![r] = IF TableFor(r) \in exists THEN "open" ELSE "creating"]
    /\ pc' = [pc EXCEPT ![r] = "commit"]
    /\ UNCHANGED <<queueVars, itemVars, inputVars, batchVars, tries, known,
                   creation_lock, dbVars>>

\* Mutant: the conflicting first attempt is not rolled back before the retry.
AttemptConflictsOpen(r) ==
    /\ pc[r] = "attempt"
    /\ CreateConflict(r) \/ "conflict" \in Faults
    /\ tries[r] = 1
    /\ tries' = [tries EXCEPT ![r] = 2]
    /\ txn' = [txn EXCEPT ![r] = "open"]
    /\ UNCHANGED <<pc, creation_lock, queueVars, itemVars, inputVars, batchVars, known, dbVars>>

\* Begin and ingest end in a TransactionException: the first one is rolled
\* back and tried again, the second is left open for the caller.
AttemptConflicts(r) ==
    /\ pc[r] = "attempt"
    /\ txn[r] = "none"
    /\ CreateConflict(r) \/ "conflict" \in Faults
    /\ \/ /\ tries[r] = 1
          /\ tries' = [tries EXCEPT ![r] = 2]
          /\ UNCHANGED <<pc, txn, ok, creation_lock>>
       \/ /\ tries[r] = 2
          /\ txn' = [txn EXCEPT ![r] = "open"]
          /\ ok' = [ok EXCEPT ![r] = FALSE]
          /\ pc' = [pc EXCEPT ![r] = "rollback"]
          /\ ReleaseCreation(r)
          /\ UNCHANGED tries
    /\ UNCHANGED <<queueVars, itemVars, inputVars, batch, front, known, dbVars>>

\* Begin and ingest end in any other exception, before or after the CREATE of a
\* missing table: it is not caught here and the transaction stays open.
AttemptErrors(r) ==
    /\ pc[r] = "attempt"
    /\ txn[r] = "none"
    /\ "error" \in Faults
    /\ \/ txn' = [txn EXCEPT ![r] = "open"]
       \/ /\ TableFor(r) \notin exists
          /\ ~CreateConflict(r)
          /\ txn' = [txn EXCEPT ![r] = "creating"]
    /\ ok' = [ok EXCEPT ![r] = FALSE]
    /\ pc' = [pc EXCEPT ![r] = "rollback"]
    /\ ReleaseCreation(r)
    /\ UNCHANGED <<queueVars, itemVars, inputVars, batch, front, tries, known, dbVars>>

\* Mutant: the front payload is ingested, what was merged into it is not.
CommitSucceedsFrontOnly(r) ==
    /\ pc[r] = "commit"
    /\ txn' = [txn EXCEPT ![r] = "none"]
    /\ exists' = exists \union {TableFor(r)}
    /\ commits' = [commits EXCEPT ![front[r]] = @ + 1]
    /\ kept' = [kept EXCEPT ![front[r]] = keys[front[r]]]
    /\ pc' = [pc EXCEPT ![r] = "mark"]
    /\ UNCHANGED <<queueVars, itemVars, inputVars, batchVars, tries, known, creation_lock>>

\* The transaction commits: every row merged into the batch reaches the table,
\* shredded by the front payload's keys (a key the front lacks is skipped).
CommitSucceeds(r) ==
    /\ pc[r] = "commit"
    /\ txn' = [txn EXCEPT ![r] = "none"]
    /\ exists' = exists \union {TableFor(r)}
    /\ commits' = [q \in Requests |->
                     IF q \in Range(batch[r]) THEN commits[q] + 1 ELSE commits[q]]
    /\ kept' = [q \in Requests |->
                  IF q \in Range(batch[r]) THEN keys[q] \intersect keys[front[r]] ELSE kept[q]]
    /\ pc' = [pc EXCEPT ![r] = "mark"]
    /\ UNCHANGED <<queueVars, itemVars, inputVars, batchVars, tries, known, creation_lock>>

\* The commit fails with a TransactionException.  DuckDB has then ended the
\* transaction, so the rollback of the catch block throws in its turn and the
\* exception leaves RawIngestSerialized with no transaction open.
CommitFails(r) ==
    /\ pc[r] = "commit"
    /\ "commit" \in Faults
    /\ txn' = [txn EXCEPT ![r] = "none"]
    /\ ok' = [ok EXCEPT ![r] = FALSE]
    /\ pc' = [pc EXCEPT ![r] = "rollback"]
    /\ ReleaseCreation(r)
    /\ UNCHANGED <<queueVars, itemVars, inputVars, batch, front, tries, known, dbVars>>

\* Mutant: an exception after the commit is reported as a failed batch.
MarkKnownThrows(r) ==
    /\ pc[r] = "mark"
    /\ ok' = [ok EXCEPT ![r] = FALSE]
    /\ ReleaseCreation(r)
    /\ pc' = [pc EXCEPT ![r] = "publish"]
    /\ UNCHANGED <<queueVars, itemVars, inputVars, batch, front, tries, txn, known, dbVars>>

\* The target is remembered before the creation lock is given back.
MarkKnown(r) ==
    /\ pc[r] = "mark"
    /\ known' = known \union {FoldFor(r)}
    /\ ReleaseCreation(r)
    /\ pc' = [pc EXCEPT ![r] = "publish"]
    /\ UNCHANGED <<queueVars, itemVars, inputVars, batchVars, tries, txn, dbVars>>

--------------------------------------------------------------------------------
(* The leader's own error path and the publication of the batch's result *)

\* The leader rolls the failed attempt back and goes on to publish the error.
RollbackBatch(r) ==
    /\ pc[r] = "rollback"
    /\ txn[r] # "none"
    /\ txn' = [txn EXCEPT ![r] = "none"]
    /\ pc' = [pc EXCEPT ![r] = "publish"]
    /\ UNCHANGED <<queueVars, itemVars, inputVars, batchVars, tries, known,
                   creation_lock, dbVars>>

\* Mutant: the exception bypasses ActiveGuard.
EscapeLeaderUncounted(r) ==
    /\ pc[r] = "rollback"
    /\ txn[r] = "none"
    /\ ack' = [ack EXCEPT ![r] = "error"]
    /\ pc' = [pc EXCEPT ![r] = "wedged"]
    /\ UNCHANGED <<pending, committing, active, asleep, item, failed, inputVars,
                   batchVars, txnVars, dbVars>>

\* With no transaction open the rollback throws out of the catch block: the
\* handler answers its client, but committing stays set, the batch is never
\* published and nobody is woken.
EscapeLeader(r) ==
    /\ pc[r] = "rollback"
    /\ txn[r] = "none"
    /\ ack' = [ack EXCEPT ![r] = "error"]
    /\ active' = [active EXCEPT ![target[r]] = @ - 1]
    /\ pc' = [pc EXCEPT ![r] = "wedged"]
    /\ UNCHANGED <<pending, committing, asleep, item, failed, inputVars, batchVars,
                   txnVars, dbVars>>

\* b->done = true, for the next item of the batch and without coord.lock ...
MarkDone(r) ==
    /\ pc[r] = "publish"
    /\ batch[r] # <<>>
    /\ item' = [item EXCEPT ![Head(batch[r])] = "done"]
    /\ pc' = [pc EXCEPT ![r] = "fill"]
    /\ UNCHANGED <<queueVars, failed, ack, inputVars, batchVars, txnVars, dbVars>>

\* ... and then its failed, error_message and stats.
FillResult(r) ==
    /\ pc[r] = "fill"
    /\ item' = [item EXCEPT ![Head(batch[r])] = "filled"]
    /\ failed' = [failed EXCEPT ![Head(batch[r])] = ~ok[r]]
    /\ batch' = [batch EXCEPT ![r] = Tail(@)]
    /\ pc' = [pc EXCEPT ![r] = "publish"]
    /\ UNCHANGED <<queueVars, ack, inputVars, front, ok, txnVars, dbVars>>

\* Mutant: the publication loop stops one item short.
NextRoundEarly(r) ==
    /\ pc[r] = "publish"
    /\ Len(batch[r]) <= 1
    /\ asleep' = {}
    /\ pending[target[r]] = <<>>
    /\ committing' = committing \ {FoldFor(r)}
    /\ pc' = [pc EXCEPT ![r] = "return"]
    /\ UNCHANGED <<pending, batchVars, tries>>
    /\ UNCHANGED <<active, itemVars, inputVars, txn, known, creation_lock, dbVars>>

\* Mutant: the leader stops without waking anybody.
NextRoundSilent(r) ==
    /\ pc[r] = "publish"
    /\ batch[r] = <<>>
    /\ pending[target[r]] = <<>>
    /\ committing' = committing \ {FoldFor(r)}
    /\ pc' = [pc EXCEPT ![r] = "return"]
    /\ UNCHANGED <<pending, batchVars, tries, asleep>>
    /\ UNCHANGED <<active, itemVars, inputVars, txn, known, creation_lock, dbVars>>

\* The batch is published: under the lock again, wake everybody, and lead
\* another round if requests queued up meanwhile.
NextRound(r) ==
    /\ pc[r] = "publish"
    /\ batch[r] = <<>>
    /\ asleep' = {}
    /\ \/ /\ pending[target[r]] # <<>>
          /\ TakeBatch(r, pending[target[r]])
          /\ UNCHANGED committing
       \/ /\ pending[target[r]] = <<>>
          /\ committing' = committing \ {FoldFor(r)}
          /\ pc' = [pc EXCEPT ![r] = "return"]
          /\ UNCHANGED <<pending, batchVars, tries>>
    /\ UNCHANGED <<active, itemVars, inputVars, txn, known, creation_lock, dbVars>>

--------------------------------------------------------------------------------
(* Answering the client *)

\* What reading r's item without the lock may give.  Once the item is filled,
\* exactly what was written; while its leader is between done and the rest,
\* any mixture of the default and the new values of failed and stats.
Readable(r) ==
    IF item[r] = "filled"
    THEN {IF failed[r] THEN "error" ELSE "own"}
    ELSE UNION {IF ok[l] THEN {"zero", "batch", "own"} ELSE {"zero", "error"} :
                  l \in {s \in Requests : pc[s] = "fill" /\ Head(batch[s]) = r}}

\* The handler throws or returns the item's result and is no longer active.
Return(r) ==
    /\ pc[r] = "return"
    /\ \E a \in Readable(r) : ack' = [ack EXCEPT ![r] = a]
    /\ active' = [active EXCEPT ![target[r]] = @ - 1]
    /\ pc' = [pc EXCEPT ![r] = "answered"]
    /\ UNCHANGED <<pending, committing, asleep, item, failed, inputVars, batchVars,
                   txnVars, dbVars>>

--------------------------------------------------------------------------------
LeaderStep(r) ==
    \/ LingerFull(r) \/ LingerTimeout(r)
    \/ Serialize(r) \/ LockCreation(r)
    \/ AttemptSucceeds(r) \/ AttemptConflicts(r) \/ AttemptErrors(r)
    \/ CommitSucceeds(r) \/ CommitFails(r) \/ MarkKnown(r)
    \/ RollbackBatch(r) \/ EscapeLeader(r)
    \/ MarkDone(r) \/ FillResult(r) \/ NextRound(r)

Next == \E r \in Requests : Enter(r) \/ Wake(r) \/ Return(r) \/ LeaderStep(r)

Spec == Init /\ [][Next]_vars

\* A thread that can run is eventually scheduled; clients need not send.
FairSpec == Spec /\ \A r \in Requests : WF_vars(Wake(r) \/ Return(r) \/ LeaderStep(r))

--------------------------------------------------------------------------------
(* Properties *)

IsLeader(r) == pc[r] \in LeaderPCs
IsSuccess(a) == a \in {"own", "batch", "zero"}

\* committing holds exactly the targets that have a leader, and two requests
\* never lead the same target, however they spell it (coord.committing is what
\* keeps a table's commits and schema changes on one thread).
OneLeaderPerTarget ==
    /\ committing = {FoldFor(r) : r \in {s \in Requests : IsLeader(s)}}
    /\ \A r, s \in Requests :
         IsLeader(r) /\ IsLeader(s) /\ FoldFor(r) = FoldFor(s) => r = s

\* coord.active counts the threads inside RawIngestGroupCommit, also when an
\* exception unwinds the leader: a count that drifted would make every later
\* lone request linger, or run below zero.
Inside(t) ==
    {r \in Requests : pc[r] \notin {"idle", "answered", "wedged"} /\ target[r] = t}

ActiveCounts == \A t \in Targets : active[t] = Cardinality(Inside(t))

\* An unresolved request is in exactly one place, and there once: the queue of
\* its own spelling, or the batch of one leader of that spelling.
HeldBy(r) == {l \in Requests : r \in Range(batch[l])}

QueuedExactlyOnce ==
    /\ \A r \in Requests : item[r] = "queued" =>
         \/ r \in Range(pending[target[r]]) /\ HeldBy(r) = {}
         \/ /\ r \notin Range(pending[target[r]])
            /\ \E l \in Requests : HeldBy(r) = {l} /\ target[l] = target[r]
    /\ \A t \in Targets : IsInjective(pending[t])
    /\ \A l \in Requests : IsInjective(batch[l])

\* However often a leader retries and however many rounds it leads, a request's
\* rows are committed at most once.
AtMostOnce == \A r \in Requests : commits[r] <= 1

\* A client that is told of an error has none of its rows in the table, so it
\* may safely send them again ("RawIngestGroupCommit already rolled back a
\* failed batch").
ErrorMeansNotCommitted ==
    \A r \in Requests : ack[r] = "error" => commits[r] = 0

\* A connection is back in autocommit mode whenever its thread is not between
\* RawBeginTransaction and the matching commit or rollback: no Begin is ever
\* "within a transaction" and no handler leaves one open.
ConnectionsClean ==
    \A r \in Requests :
      /\ pc[r] \notin {"commit", "rollback"} => txn[r] = "none"
      /\ pc[r] = "commit" => txn[r] # "none"

\* A transaction that is about to commit a CREATE holds the creation lock, so
\* two first inserts never race (known_to_exist must never run ahead of the
\* catalog, and the lock must be held through the commit).
CreatorHoldsLock ==
    \A r \in Requests :
      pc[r] = "commit" /\ txn[r] = "creating" => creation_lock = r

\* A leader goes back to its client only once its own item is filled, so the
\* answer of a leader is never read half-published.
LeaderReturnsResolved ==
    [][\A r \in Requests :
         IsLeader(r) /\ pc'[r] = "return" => item[r] = "filled"]_vars

\* The decisions the batches take and the answers the clients get are those of
\* AtomicIngest.
Rejected ==
    {r \in Requests :
       \/ item[r] = "filled" /\ failed[r]
       \/ \E l \in HeldBy(r) : ~ok[l] /\ pc[l] \in {"rollback", "wedged", "publish", "fill"}}

Atomic == INSTANCE AtomicIngest WITH
            committed <- {r \in Requests : commits[r] > 0},
            rejected  <- Rejected,
            answer    <- [r \in Requests |-> IF IsSuccess(ack[r]) THEN "ok" ELSE ack[r]]

ImplementsAtomicIngest == Atomic!Spec

\* Every request that has entered is eventually answered (a waiter's item is
\* resolved "by that (or a subsequent) leader round").
EveryRequestAnswered ==
    \A r \in Requests : pc[r] # "idle" ~> pc[r] \in {"answered", "wedged"}

\* A success answer tells the client the truth: its rows are committed and the
\* count is its own ("wakes every waiter with its own row/error count against
\* the batch's shared result").
AnswerIsTrue ==
    \A r \in Requests : IsSuccess(ack[r]) => commits[r] = 1 /\ ack[r] = "own"

\* Every key of an acknowledged payload reaches the table ("nothing is ever
\* dropped").
NothingDropped ==
    \A r \in Requests : commits[r] > 0 => kept[r] = keys[r]
================================================================================
