--------------------------------- MODULE Server ---------------------------------
(***************************************************************************)
(* The in-process servers: raw_serve and raw_serve_stop with the HTTP      *)
(* handlers (raw_api.cpp), raw_serve_grpc and raw_serve_grpc_stop with     *)
(* ExportSignal (raw_grpc.cpp).  Each server is one static object whose    *)
(* lock serializes start and stop.  Handlers read its settings without     *)
(* that lock; what protects them is that Shutdown waits for them.  SQL     *)
(* sessions start and stop servers, and so may a query that arrives over   *)
(* HTTP.                                                                   *)
(***************************************************************************)
EXTENDS Naturals, FiniteSets

CONSTANTS Http, Grpc,        \* the two servers
          Sessions,          \* SQL connections of the program that embeds the database
          Databases,
          DatabaseOf,        \* DatabaseOf[t]: the database of session t
          Requests,
          Kind,              \* Kind[r]: "query", "ingest" or "export"
          Tokens, NoToken,   \* a server without a token serves everybody
          Sends,             \* Sends[r]: the token of request r
          Modes,             \* how raw_serve may be called: [token, async]
          None,
          MaxCalls,          \* bound on the calls that start or stop a server
          Faults,            \* of "bind", "ingest", "commit"
          EarlyStopCounts    \* stop() before the listener's loop began ends it

Servers == {Http, Grpc}
\* Who can run SQL.
Callers == Sessions \union {r \in Requests : Kind[r] = "query"}

ASSUME ServerAssumption ==
    /\ Http # Grpc
    /\ Sessions \intersect Requests = {} /\ None \notin Sessions \union Requests \union Databases
    /\ DatabaseOf \in [Sessions -> Databases]
    /\ Kind \in [Requests -> {"query", "ingest", "export"}]
    /\ NoToken \in Tokens
    /\ Sends \in [Requests -> Tokens]
    /\ Modes \subseteq [token : Tokens, async : BOOLEAN]
    /\ MaxCalls \in Nat
    /\ Faults \subseteq {"bind", "ingest", "commit"}
    /\ EarlyStopCounts \in BOOLEAN

\* raw_api.cpp serves queries and ingests, raw_grpc.cpp exports.
Via(r) == IF Kind[r] = "export" THEN Grpc ELSE Http

Settings == [db : Databases \union {None}, token : Tokens, async : BOOLEAN]
Unmoded == [token |-> NoToken, async |-> FALSE]
Calls == [op : {"serve", "stop"}, on : Servers, mode : Modes \union {Unmoded},
          at : {"lock", "join"}]
NoCall == [op |-> "none"]

VARIABLES
    running,   \* running[s]
    listener,  \* listener[s]: the thread: "none", "starting", "listening", "stopped"
    settings,  \* settings[s]: the server's db, token and async
    lock,      \* who holds the server's lock, or None
    call,      \* call[t]: the raw_serve or raw_serve_stop that t is in
    calls,     \* how many there have been
    handles,   \* the databases the program holds open
    pc,        \* pc[r]: "new", "authorize", "database", "work", "sql", "commit", or the answer
    db,        \* db[r]: the handler's reference to a database
    accepted,  \* history: the settings with which the server accepted r
    stored,    \* stored[d]: the requests whose rows are committed in d
    buffered   \* buffered[d]: those queued in the async buffers of d

serverVars == <<running, listener, settings>>
callVars == <<lock, call, calls>>
requestVars == <<pc, db, accepted, stored, buffered>>
vars == <<serverVars, callVars, handles, requestVars>>

Answers == {"ok", "queued", "unauthorized", "unavailable", "refused", "unknown"}

\* A server's thread exists exactly while the server runs: assigning to a joinable
\* std::thread would end the process.
TypeOK ==
    /\ running \in [Servers -> BOOLEAN]
    /\ listener \in [Servers -> {"none", "starting", "listening", "stopped"}]
    /\ \A s \in Servers : running[s] <=> listener[s] # "none"
    /\ settings \in [Servers -> Settings]
    /\ lock \in [Servers -> Callers \union {None}]
    /\ call \in [Callers -> Calls \union {NoCall}]
    /\ calls \in 0..MaxCalls
    /\ handles \subseteq Databases
    /\ pc \in [Requests -> {"new", "authorize", "database", "work", "sql", "commit"} \union Answers]
    /\ db \in [Requests -> Databases \union {None}]
    /\ accepted \in [Requests -> Settings]
    /\ stored \in [Databases -> SUBSET Requests]
    /\ buffered \in [Databases -> SUBSET Requests]

Unset == [db |-> None, token |-> NoToken, async |-> FALSE]

Init ==
    /\ running = [s \in Servers |-> FALSE]
    /\ listener = [s \in Servers |-> "none"]
    /\ settings = [s \in Servers |-> Unset]
    /\ lock = [s \in Servers |-> None]
    /\ call = [t \in Callers |-> NoCall]
    /\ calls = 0
    /\ handles = Databases
    /\ pc = [r \in Requests |-> "new"]
    /\ db = [r \in Requests |-> None]
    /\ accepted = [r \in Requests |-> Unset]
    /\ stored = [d \in Databases |-> {}]
    /\ buffered = [d \in Databases |-> {}]

Handlers(s) == {r \in Requests : Via(r) = s /\ pc[r] \notin {"new"} \union Answers}

\* A database lives while the program or a handler refers to it.
Alive(d) == d \in handles \/ \E r \in Requests : db[r] = d

--------------------------------------------------------------------------------
(* raw_serve, raw_serve_stop and their gRPC counterparts *)

\* The database in whose context t runs.
ContextOf(t) == IF t \in Sessions THEN DatabaseOf[t] ELSE db[t]

\* t is at a point where it may execute a statement.
Runs(t) == IF t \in Sessions THEN DatabaseOf[t] \in handles
           ELSE pc[t] = "work"

\* t executes one of the functions; a query over HTTP waits for its result.
Call(t) ==
    /\ Runs(t) /\ call[t] = NoCall
    /\ calls < MaxCalls
    /\ \E s \in Servers, mode \in Modes, op \in {"serve", "stop"} :
           call' = [call EXCEPT ![t] = [op |-> op, on |-> s, at |-> "lock",
                                        mode |-> IF op = "serve" THEN mode ELSE Unmoded]]
    /\ calls' = calls + 1
    /\ pc' = IF t \in Requests THEN [pc EXCEPT ![t] = "sql"] ELSE pc
    /\ UNCHANGED <<serverVars, lock, handles, db, accepted, stored, buffered>>

\* t is about to take the lock of the server it calls.
AtLock(t, op) == call[t] # NoCall /\ call[t].op = op /\ call[t].at = "lock" /\ lock[call[t].on] = None
Returned(t) == call' = [call EXCEPT ![t] = NoCall]

\* "... is already running; call raw_serve_stop() first"
ServeRunning(t) ==
    /\ AtLock(t, "serve") /\ running[call[t].on]
    /\ Returned(t)
    /\ UNCHANGED <<serverVars, lock, calls, handles, requestVars>>

\* gRPC's BuildAndStart returns with the server listening, HTTP's thread has yet to
\* get there.
Started(s) == IF s = Http THEN "starting" ELSE "listening"

\* The settings are overwritten before the port is bound, and stay if that fails.
Serve(t) ==
    LET s == call[t].on
    IN /\ AtLock(t, "serve") /\ ~running[s]
       /\ settings' = [settings EXCEPT ![s] = [db |-> ContextOf(t),
                                               token |-> call[t].mode.token,
                                               async |-> call[t].mode.async]]
       /\ \/ /\ running' = [running EXCEPT ![s] = TRUE]
             /\ listener' = [listener EXCEPT ![s] = Started(s)]
          \/ "bind" \in Faults /\ UNCHANGED <<running, listener>>
       /\ Returned(t)
       /\ UNCHANGED <<lock, calls, handles, requestVars>>

\* The listener's thread gets to its loop.
Listen(s) ==
    /\ listener[s] = "starting"
    /\ listener' = [listener EXCEPT ![s] = "listening"]
    /\ UNCHANGED <<running, settings, callVars, handles, requestVars>>

StopIdle(t) ==
    /\ AtLock(t, "stop") /\ ~running[call[t].on]
    /\ Returned(t)
    /\ UNCHANGED <<serverVars, lock, calls, handles, requestVars>>

\* Shutdown up to the join, which waits with the lock held.
Stop(t) ==
    LET s == call[t].on
    IN /\ AtLock(t, "stop") /\ running[s]
       /\ lock' = [lock EXCEPT ![s] = t]
       /\ listener' = [listener EXCEPT ![s] =
                          IF @ = "listening" \/ EarlyStopCounts THEN "stopped" ELSE @]
       /\ call' = [call EXCEPT ![t].at = "join"]
       /\ UNCHANGED <<running, settings, calls, handles, requestVars>>

\* Mutant: the listener is joined, its handlers are not.
ListenerEnded(s) == listener[s] = "stopped"

\* listen_after_bind returns, and server->Shutdown, when every handler has.
Ended(s) == listener[s] = "stopped" /\ Handlers(s) = {}

\* Mutant: running is not reset.
ServerGoneStillRunning(s) == listener' = [listener EXCEPT ![s] = "none"] /\ UNCHANGED running

\* server.reset(), running = false.
ServerGone(s) ==
    /\ listener' = [listener EXCEPT ![s] = "none"]
    /\ running' = [running EXCEPT ![s] = FALSE]

\* The rest of Shutdown.
Join(t) ==
    LET s == call[t].on
    IN /\ call[t] # NoCall /\ call[t].at = "join"
       /\ Ended(s)
       /\ ServerGone(s)
       /\ lock' = [lock EXCEPT ![s] = None]
       /\ Returned(t)
       /\ UNCHANGED <<settings, calls, handles, requestVars>>

\* The program closes a database; its sessions are gone with it.
Close(d) ==
    /\ d \in handles
    /\ \A t \in Sessions : DatabaseOf[t] = d => call[t] = NoCall
    /\ handles' = handles \ {d}
    /\ UNCHANGED <<serverVars, callVars, requestVars>>

--------------------------------------------------------------------------------
(* A request *)

Goto(r, where) == pc' = [pc EXCEPT ![r] = where]

\* The handler returns, and with it its connection and reference to the database.
Answer(r, answer) ==
    /\ Goto(r, answer)
    /\ db' = [db EXCEPT ![r] = None]

Accept(r) ==
    /\ pc[r] = "new"
    /\ listener[Via(r)] = "listening"
    /\ accepted' = [accepted EXCEPT ![r] = settings[Via(r)]]
    /\ Goto(r, "authorize")
    /\ UNCHANGED <<serverVars, callVars, handles, db, stored, buffered>>


\* Handlers read the settings without the server's lock.
Readable(r) == TRUE

Matches(r, token) == token \in {NoToken, Sends[r]}

Authorized(r) ==
    /\ pc[r] = "authorize"
    /\ Readable(r)
    /\ IF Matches(r, settings[Via(r)].token)
       THEN Goto(r, "database") /\ UNCHANGED db
       ELSE Answer(r, "unauthorized")
    /\ UNCHANGED <<serverVars, callVars, handles, accepted, stored, buffered>>

\* RequireDatabase: the weak reference is locked, for as long as the handler runs.
RequireDatabase(r) ==
    /\ pc[r] = "database"
    /\ IF settings[Via(r)].db # None /\ Alive(settings[Via(r)].db)
       THEN db' = [db EXCEPT ![r] = settings[Via(r)].db] /\ Goto(r, "work")
       ELSE Answer(r, "unavailable")
    /\ UNCHANGED <<serverVars, callVars, handles, accepted, stored, buffered>>

\* A query, a listing or a DROP that has nothing to do with the servers; or the end
\* of one that had.  Whatever it responds is "ok" here.
Query(r) ==
    /\ Kind[r] = "query"
    /\ pc[r] = "work" \/ (pc[r] = "sql" /\ call[r] = NoCall)
    /\ Answer(r, "ok")
    /\ UNCHANGED <<serverVars, callVars, handles, accepted, stored, buffered>>

\* The server's async, or the connection's setting, sends the payload to the buffers.
Enqueue(r) ==
    /\ pc[r] = "work" /\ Kind[r] # "query"
    /\ buffered' = [buffered EXCEPT ![db[r]] = @ \union {r}]
    /\ Answer(r, "queued")
    /\ UNCHANGED <<serverVars, callVars, handles, accepted, stored>>

\* The body, or the transform, is refused, or the ingest fails and is rolled back.
Refuse(r) ==
    /\ "ingest" \in Faults
    /\ pc[r] = "work" /\ Kind[r] # "query"
    /\ Answer(r, "refused")
    /\ UNCHANGED <<serverVars, callVars, handles, accepted, stored, buffered>>

\* HandleIngest and HandleOtlpProtobuf through RawIngestGroupCommit.  Where ingests
\* fail, its answer and what it stored need not agree: a waiter may read its item
\* before the result is in it, and a leader may have the error of a later round.
\* GroupCommit has both, step by step.
Ingest(r) ==
    /\ pc[r] = "work" /\ Kind[r] = "ingest"
    /\ ~settings[Via(r)].async
    /\ \/ stored' = [stored EXCEPT ![db[r]] = @ \union {r}]
       \/ "ingest" \in Faults /\ UNCHANGED stored
    /\ \/ Answer(r, "ok")
       \/ "ingest" \in Faults /\ Answer(r, "refused")
    /\ UNCHANGED <<serverVars, callVars, handles, accepted, buffered>>

\* ExportSignal: a transaction of its own, with neither group commit nor retry.
Export(r) ==
    /\ pc[r] = "work" /\ Kind[r] = "export"
    /\ ~settings[Via(r)].async
    /\ Goto(r, "commit")
    /\ UNCHANGED <<serverVars, callVars, handles, db, accepted, stored, buffered>>

\* Mutant: a commit that throws is answered like one that did not.
CommitAnswersOk(r) ==
    \/ stored' = [stored EXCEPT ![db[r]] = @ \union {r}] /\ Answer(r, "ok")
    \/ "commit" \in Faults /\ Answer(r, "ok") /\ UNCHANGED stored

\* A commit that throws has ended the transaction, so that the rollback in the
\* handler throws as well: the exception leaves ExportSignal.
Commit(r) ==
    \/ stored' = [stored EXCEPT ![db[r]] = @ \union {r}] /\ Answer(r, "ok")
    \/ "commit" \in Faults /\ Answer(r, "unknown") /\ UNCHANGED stored

ExportCommits(r) ==
    /\ pc[r] = "commit"
    /\ Commit(r)
    /\ UNCHANGED <<serverVars, callVars, handles, accepted, buffered>>

--------------------------------------------------------------------------------
CallStep(t) == ServeRunning(t) \/ Serve(t) \/ StopIdle(t) \/ Stop(t) \/ Join(t)
HandlerStep(r) ==
    Authorized(r) \/ RequireDatabase(r) \/ Query(r) \/ Enqueue(r) \/ Refuse(r)
    \/ Ingest(r) \/ Export(r) \/ ExportCommits(r)

Next ==
    \/ \E t \in Callers : Call(t) \/ CallStep(t)
    \/ \E s \in Servers : Listen(s)
    \/ \E d \in Databases : Close(d)
    \/ \E r \in Requests : Accept(r) \/ HandlerStep(r)

Spec == Init /\ [][Next]_vars

\* A session or a handler is a thread, which also makes the calls of its queries.
ThreadStep(x) == (x \in Callers /\ CallStep(x)) \/ (x \in Requests /\ HandlerStep(x))

\* Threads that can run do; nobody has to call, to send a request or to close.
FairSpec ==
    /\ Spec
    /\ \A x \in Sessions \union Requests : WF_vars(ThreadStep(x))
    /\ WF_vars(Listen(Http))

--------------------------------------------------------------------------------
(* Properties *)

\* A handler's server stands still under it: it runs, and its token, database and
\* mode, which the handler reads one by one without a lock, are those with which
\* the request was accepted, whoever stops and starts servers meanwhile.
ServedByItsServer ==
    \A s \in Servers : \A r \in Handlers(s) : running[s] /\ settings[s] = accepted[r]

\* The answers after which rows of r may be stored.  An export's are exact; those of
\* an ingest over HTTP are what group commit makes of them.
MayBeStored(r) == IF Kind[r] = "export" THEN {"ok"} ELSE {"ok", "refused"}

\* What a client is told is so: an export's "ok" and everybody's "queued" went to the
\* database of the server that took the request, and an export that was answered
\* otherwise stored nothing.  Whatever the answer, rows went nowhere but to that
\* database and only with that server's token, and a request that was turned away
\* left nothing.
AnswerMatchesStore ==
    \A r \in Requests :
        /\ pc[r] = "ok" /\ Kind[r] = "export" => r \in stored[accepted[r].db]
        /\ pc[r] = "queued" => r \in buffered[accepted[r].db]
        /\ \A d \in Databases :
               /\ r \in stored[d] => pc[r] \in MayBeStored(r) /\ d = accepted[r].db
               /\ r \in buffered[d] => pc[r] = "queued" /\ d = accepted[r].db
               /\ r \in stored[d] \union buffered[d] => Matches(r, accepted[r].token)

\* A handler waits for its own server: to end, or for the lock of somebody who waits
\* for the server to end.
Deadlocked == \E s \in Servers : \E r \in Handlers(s) \intersect Callers :
                  lock[s] # None /\ call[r] # NoCall /\ call[r].on = s

================================================================================
