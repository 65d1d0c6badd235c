------------------------------ MODULE ServerProofs ------------------------------
(***************************************************************************)
(* Theorems about Server, for any sessions, databases, requests, tokens    *)
(* and number of calls.                                                    *)
(***************************************************************************)
EXTENDS Server, TLAPS

\* What a handler has read so far is what the request was accepted with.
HandlersRead ==
    \A r \in Requests :
        /\ pc[r] \in {"database", "work", "sql", "commit"} => Matches(r, accepted[r].token)
        /\ pc[r] \in {"work", "sql", "commit"} => db[r] \in Databases /\ db[r] = accepted[r].db
        /\ pc[r] = "commit" => Kind[r] = "export"
        /\ pc[r] = "queued" \/ (pc[r] = "ok" /\ Kind[r] # "query") => accepted[r].db \in Databases

\* What has been stored or buffered of r agrees with its answer.
StoreMatches(r) ==
    /\ pc[r] = "ok" /\ Kind[r] = "export" => r \in stored[accepted[r].db]
    /\ pc[r] = "queued" => r \in buffered[accepted[r].db]
    /\ \A d \in Databases :
           /\ r \in stored[d] => pc[r] \in MayBeStored(r) /\ d = accepted[r].db
           /\ r \in buffered[d] => pc[r] = "queued" /\ d = accepted[r].db
           /\ r \in stored[d] \union buffered[d] => Matches(r, accepted[r].token)

Inv == TypeOK /\ ServedByItsServer /\ HandlersRead /\ AnswerMatchesStore

LEMMA ViaServer == \A r \in Requests : Via(r) \in Servers
  BY DEF Via, Servers

\* A request on its way is a handler of the server it came by.
LEMMA HandlerServed ==
    ASSUME Inv, NEW r \in Requests, pc[r] \notin {"new"} \union Answers
    PROVE  running[Via(r)] /\ settings[Via(r)] = accepted[r]
  BY ViaServer DEF Inv, ServedByItsServer, Handlers

--------------------------------------------------------------------------------
(* Steps of callers *)

LEMMA InitInv == Init => Inv
  <1> SUFFICES ASSUME Init PROVE Inv
    OBVIOUS
  <1>1. TypeOK
    BY ServerAssumption DEF Init, TypeOK, Unset, Settings
  <1>2. ServedByItsServer
    BY DEF Init, ServedByItsServer, Handlers
  <1>3. HandlersRead
    BY DEF Init, HandlersRead
  <1>4. AnswerMatchesStore
    BY DEF Init, AnswerMatchesStore
  <1> QED BY <1>1, <1>2, <1>3, <1>4 DEF Inv

\* Only requests move: what the other parts of Inv say follows from TypeOK'.
LEMMA CallInv ==
    ASSUME Inv, NEW t \in Callers, Call(t)
    PROVE  Inv'
  <1> USE DEF Inv
  <1>1. PICK op \in {"serve", "stop"}, s \in Servers, mode \in Modes :
            call' = [call EXCEPT ![t] = [op |-> op, on |-> s, at |-> "lock",
                                         mode |-> IF op = "serve" THEN mode ELSE Unmoded]]
    BY DEF Call
  <1>2. [op |-> op, on |-> s, at |-> "lock",
         mode |-> IF op = "serve" THEN mode ELSE Unmoded] \in Calls
    BY DEF Calls
  <1>3. call' \in [Callers -> Calls \union {NoCall}]
    BY <1>1, <1>2 DEF TypeOK
  <1>4. pc' \in [Requests -> {"new", "authorize", "database", "work", "sql", "commit"} \union Answers]
    BY DEF Call, TypeOK
  <1>5. calls' \in 0..MaxCalls
    BY ServerAssumption DEF Call, TypeOK
  <1>6. TypeOK'
    BY <1>3, <1>4, <1>5 DEF Call, TypeOK, serverVars
  <1>7. \A r \in Requests : pc'[r] = pc[r] \/ (pc[r] = "work" /\ pc'[r] = "sql")
    BY ServerAssumption DEF Call, Runs, TypeOK
  <1>8. ServedByItsServer'
    BY <1>7 DEF Call, ServedByItsServer, Handlers, Answers, serverVars
  <1>9. HandlersRead'
    BY <1>7 DEF Call, HandlersRead
  <1>10. AnswerMatchesStore'
    BY <1>7 DEF Call, AnswerMatchesStore, MayBeStored, Answers
  <1> QED BY <1>6, <1>8, <1>9, <1>10

\* t is in a call.
LEMMA InCall ==
    ASSUME Inv, NEW t \in Callers, call[t] # NoCall
    PROVE  call[t] \in Calls /\ call[t].on \in Servers
  BY DEF Inv, TypeOK, Calls

\* A step that leaves the requests and the servers of handlers alone.
LEMMA RequestsKept ==
    ASSUME Inv, TypeOK', UNCHANGED requestVars,
           \A s \in Servers : Handlers(s) # {} => running'[s] = running[s] /\ settings'[s] = settings[s]
    PROVE  Inv'
  <1> USE DEF Inv
  <1>1. ServedByItsServer'
    BY DEF ServedByItsServer, Handlers, requestVars
  <1>2. HandlersRead'
    BY DEF HandlersRead, requestVars
  <1>3. AnswerMatchesStore'
    BY DEF AnswerMatchesStore, requestVars
  <1> QED BY <1>1, <1>2, <1>3

LEMMA CallStepInv ==
    ASSUME Inv, NEW t \in Callers, CallStep(t)
    PROVE  Inv'
  <1> USE DEF Inv
  <1> DEFINE s == call[t].on
  <1>0. call[t] \in Calls /\ s \in Servers
    BY InCall DEF CallStep, ServeRunning, Serve, StopIdle, Stop, Join, AtLock
  <1>1. CASE ServeRunning(t) \/ StopIdle(t)
    <2>1. TypeOK'
      BY <1>1 DEF ServeRunning, StopIdle, Returned, TypeOK, serverVars, requestVars
    <2> QED BY <1>1, <2>1, RequestsKept DEF ServeRunning, StopIdle, serverVars
  <1>2. CASE Serve(t)
    <2>1. ContextOf(t) \in Databases \union {None}
      BY ServerAssumption DEF ContextOf, TypeOK, Callers
    <2>2. call[t].mode \in [token : Tokens, async : BOOLEAN]
      <3>1. call[t].mode \in Modes \/ call[t].mode = Unmoded
        BY <1>0 DEF Calls
      <3>2. Unmoded \in [token : Tokens, async : BOOLEAN]
        BY ServerAssumption DEF Unmoded
      <3> QED BY <3>1, <3>2, ServerAssumption
    <2>3. settings' \in [Servers -> Settings]
      BY <1>2, <2>1, <2>2 DEF Serve, TypeOK, Settings
    <2>4. TypeOK'
      <3>1. /\ running' \in [Servers -> BOOLEAN]
            /\ listener' \in [Servers -> {"none", "starting", "listening", "stopped"}]
            /\ \A u \in Servers : running'[u] <=> listener'[u] # "none"
        <4>1. CASE UNCHANGED <<running, listener>>
          BY <4>1 DEF TypeOK
        <4>2. CASE /\ running' = [running EXCEPT ![s] = TRUE]
                   /\ listener' = [listener EXCEPT ![s] = Started(s)]
          BY <1>0, <4>2 DEF TypeOK, Started
        <4> QED BY <1>2, <4>1, <4>2 DEF Serve
      <3>2. call' \in [Callers -> Calls \union {NoCall}]
        BY <1>2 DEF Serve, Returned, TypeOK
      <3> QED BY <1>2, <2>3, <3>1, <3>2 DEF Serve, TypeOK, requestVars
    <2>5. Handlers(s) = {}
      BY <1>0, <1>2 DEF Serve, ServedByItsServer
    <2> QED BY <1>0, <1>2, <2>4, <2>5, RequestsKept DEF Serve, TypeOK
  <1>3. CASE Stop(t)
    <2>1. call' \in [Callers -> Calls \union {NoCall}]
      BY <1>0, <1>3 DEF Stop, TypeOK, Calls
    <2>2. TypeOK'
      BY <1>0, <1>3, <2>1 DEF Stop, TypeOK, requestVars
    <2> QED BY <1>3, <2>2, RequestsKept DEF Stop
  <1>4. CASE Join(t)
    <2>1. TypeOK'
      BY <1>0, <1>4 DEF Join, ServerGone, Returned, TypeOK, requestVars
    <2>2. Handlers(s) = {}
      BY <1>4 DEF Join, Ended
    <2> QED BY <1>0, <1>4, <2>1, <2>2, RequestsKept DEF Join, ServerGone, TypeOK
  <1> QED BY <1>1, <1>2, <1>3, <1>4 DEF CallStep

LEMMA ListenInv ==
    ASSUME Inv, NEW s \in Servers, Listen(s)
    PROVE  Inv'
  <1>1. TypeOK'
    BY DEF Inv, Listen, TypeOK, callVars, requestVars
  <1> QED BY <1>1, RequestsKept DEF Listen

LEMMA CloseInv ==
    ASSUME Inv, NEW d \in Databases, Close(d)
    PROVE  Inv'
  <1>1. TypeOK'
    BY DEF Inv, Close, TypeOK, serverVars, callVars, requestVars
  <1> QED BY <1>1, RequestsKept DEF Close, serverVars

--------------------------------------------------------------------------------
(* Steps of requests *)

\* r moves, to an answer or within its handler, and the servers stand still.
LEMMA RequestMoves ==
    ASSUME Inv, NEW r \in Requests, NEW where,
           where \in {"authorize", "database", "work", "sql", "commit"} \union Answers,
           pc' = [pc EXCEPT ![r] = where],
           UNCHANGED <<serverVars, callVars, handles>>,
           where \notin Answers => accepted'[r] = settings[Via(r)] /\ running[Via(r)],
           accepted' \in [Requests -> Settings],
           \A q \in Requests \ {r} : accepted'[q] = accepted[q] /\ db'[q] = db[q],
           db' \in [Requests -> Databases \union {None}],
           stored' \in [Databases -> SUBSET Requests],
           buffered' \in [Databases -> SUBSET Requests],
           \A d \in Databases : /\ stored'[d] \ {r} = stored[d] \ {r}
                                /\ buffered'[d] \ {r} = buffered[d] \ {r}
    PROVE  /\ TypeOK'
           /\ ServedByItsServer'
           /\ \A q \in Requests \ {r} :
                 /\ pc'[q] = pc[q]
                 /\ \A d \in Databases : /\ q \in stored'[d] <=> q \in stored[d]
                                         /\ q \in buffered'[d] <=> q \in buffered[d]
  <1> USE DEF Inv
  <1>1. TypeOK'
    BY DEF TypeOK, serverVars, callVars
  <1>2. pc'[r] = where /\ \A q \in Requests \ {r} : pc'[q] = pc[q]
    BY DEF TypeOK
  <1>3. ServedByItsServer'
    BY <1>2 DEF ServedByItsServer, Handlers, serverVars
  <1> QED BY <1>1, <1>2, <1>3

\* Before it answers, nothing of a request is stored.
LEMMA NothingYet ==
    ASSUME Inv, NEW r \in Requests, pc[r] \notin Answers, NEW d \in Databases
    PROVE  r \notin stored[d] /\ r \notin buffered[d]
  BY DEF Inv, AnswerMatchesStore, MayBeStored, Answers

LEMMA AcceptInv ==
    ASSUME Inv, NEW r \in Requests, Accept(r)
    PROVE  Inv'
  <1> USE DEF Inv
  <1>1. running[Via(r)] /\ Via(r) \in Servers
    BY ViaServer DEF Accept, TypeOK
  <1>2. accepted' \in [Requests -> Settings] /\ accepted'[r] = settings[Via(r)]
    BY <1>1 DEF Accept, TypeOK
  <1>3. \A q \in Requests \ {r} : accepted'[q] = accepted[q]
    BY DEF Accept, TypeOK
  <1>4. pc' = [pc EXCEPT ![r] = "authorize"]
    BY DEF Accept, Goto
  <1>5. /\ TypeOK' /\ ServedByItsServer'
        /\ \A q \in Requests \ {r} : pc'[q] = pc[q]
    <2>1. /\ UNCHANGED <<serverVars, callVars, handles>>
          /\ UNCHANGED <<db, stored, buffered>>
      BY DEF Accept
    <2>2. /\ db' \in [Requests -> Databases \union {None}]
          /\ stored' \in [Databases -> SUBSET Requests]
          /\ buffered' \in [Databases -> SUBSET Requests]
      BY <2>1 DEF TypeOK
    <2>3. "authorize" \notin Answers
      BY DEF Answers
    <2> QED BY <1>1, <1>2, <1>3, <1>4, <2>1, <2>2, <2>3, RequestMoves
  <1>6. pc'[r] = "authorize"
    BY <1>4 DEF TypeOK
  <1>7. HandlersRead'
    BY <1>3, <1>5, <1>6 DEF HandlersRead, Accept
  <1>8. AnswerMatchesStore'
    BY <1>3, <1>5, <1>6, NothingYet DEF AnswerMatchesStore, Accept, Answers
  <1> QED BY <1>5, <1>7, <1>8

\* Neither stored nor buffered changes, and r's answer acknowledges nothing.
LEMMA UnacknowledgedInv ==
    ASSUME Inv, NEW r \in Requests, NEW where,
           where \in {"authorize", "database", "work", "sql", "commit"} \union Answers,
           where \in {"ok", "queued"} => where = "ok" /\ Kind[r] = "query",
           pc[r] \notin {"new"} \union Answers,
           pc' = [pc EXCEPT ![r] = where],
           UNCHANGED <<serverVars, callVars, handles, accepted, stored, buffered>>,
           db' \in [Requests -> Databases \union {None}],
           \A q \in Requests \ {r} : db'[q] = db[q],
           where \in {"database", "work", "sql", "commit"} => Matches(r, accepted[r].token),
           where \in {"work", "sql", "commit"} => db'[r] \in Databases /\ db'[r] = accepted[r].db,
           where = "commit" => Kind[r] = "export"
    PROVE  Inv'
  <1> USE DEF Inv
  <1>1. /\ TypeOK' /\ ServedByItsServer'
        /\ \A q \in Requests \ {r} : pc'[q] = pc[q]
    BY HandlerServed, RequestMoves DEF TypeOK
  <1>2. pc'[r] = where
    BY DEF TypeOK
  <1>3. HandlersRead'
    BY <1>1, <1>2 DEF HandlersRead
  <1>4. AnswerMatchesStore'
    BY <1>1, <1>2, NothingYet DEF AnswerMatchesStore
  <1> QED BY <1>1, <1>3, <1>4

\* The handler answers, and has stored or buffered rows in its database, or nothing,
\* as the answer allows.
LEMMA SettledInv ==
    ASSUME Inv, NEW r \in Requests, Kind[r] # "query", pc[r] \in {"work", "commit"},
           UNCHANGED <<serverVars, callVars, handles, accepted>>,
           NEW answer \in Answers, Answer(r, answer),
           \/ /\ answer \in MayBeStored(r)
              /\ stored' = [stored EXCEPT ![db[r]] = @ \union {r}]
              /\ UNCHANGED buffered
           \/ /\ answer = "queued"
              /\ buffered' = [buffered EXCEPT ![db[r]] = @ \union {r}]
              /\ UNCHANGED stored
           \/ /\ ~(answer = "queued" \/ (answer = "ok" /\ Kind[r] = "export"))
              /\ UNCHANGED <<stored, buffered>>
    PROVE  Inv'
  <1> USE DEF Inv
  <1>1. db[r] \in Databases /\ db[r] = accepted[r].db /\ Matches(r, accepted[r].token)
    BY DEF HandlersRead
  <1>2. pc' = [pc EXCEPT ![r] = answer] /\ db' = [db EXCEPT ![r] = None]
    BY DEF Answer, Goto
  <1>3. /\ stored' \in [Databases -> SUBSET Requests]
        /\ buffered' \in [Databases -> SUBSET Requests]
        /\ db' \in [Requests -> Databases \union {None}]
        /\ \A q \in Requests \ {r} : db'[q] = db[q]
        /\ \A d \in Databases : /\ stored'[d] \ {r} = stored[d] \ {r}
                                /\ buffered'[d] \ {r} = buffered[d] \ {r}
    BY <1>1, <1>2 DEF TypeOK
  <1>4. /\ TypeOK' /\ ServedByItsServer'
        /\ \A q \in Requests \ {r} :
              /\ pc'[q] = pc[q]
              /\ \A d \in Databases : /\ q \in stored'[d] <=> q \in stored[d]
                                      /\ q \in buffered'[d] <=> q \in buffered[d]
    BY <1>2, <1>3, RequestMoves DEF TypeOK
  <1>5. pc'[r] = answer
    BY <1>2 DEF TypeOK
  <1>6. HandlersRead'
    BY <1>1, <1>3, <1>4, <1>5 DEF HandlersRead, Answers
  <1>7. \A d \in Databases : r \notin stored[d] /\ r \notin buffered[d]
    BY NothingYet DEF Answers
  <1>8. AnswerMatchesStore'
    <2>1. StoreMatches(r)'
      <3>1. CASE /\ answer \in MayBeStored(r)
                 /\ stored' = [stored EXCEPT ![db[r]] = @ \union {r}]
                 /\ UNCHANGED buffered
        <4>1. /\ \A d \in Databases : r \notin buffered'[d]
              /\ \A d \in Databases : r \in stored'[d] <=> d = accepted[r].db
          BY <1>1, <1>7, <3>1 DEF TypeOK
        <4>2. answer # "queued"
          BY <3>1 DEF MayBeStored
        <4> QED BY <1>1, <1>5, <3>1, <4>1, <4>2 DEF StoreMatches, MayBeStored, Matches
      <3>2. CASE /\ answer = "queued"
                 /\ buffered' = [buffered EXCEPT ![db[r]] = @ \union {r}]
                 /\ UNCHANGED stored
        <4>1. /\ \A d \in Databases : r \notin stored'[d]
              /\ \A d \in Databases : r \in buffered'[d] <=> d = accepted[r].db
          BY <1>1, <1>7, <3>2 DEF TypeOK
        <4> QED BY <1>1, <1>5, <3>2, <4>1 DEF StoreMatches, Matches
      <3>3. CASE /\ ~(answer = "queued" \/ (answer = "ok" /\ Kind[r] = "export"))
                 /\ UNCHANGED <<stored, buffered>>
        BY <1>5, <1>7, <3>3 DEF StoreMatches
      <3> QED BY <3>1, <3>2, <3>3
    <2>2. ASSUME NEW q \in Requests \ {r} PROVE StoreMatches(q)'
      <3>1. StoreMatches(q) /\ accepted[q].db \in Databases \union {None}
        BY DEF AnswerMatchesStore, StoreMatches, TypeOK, Settings
      <3>2. CASE accepted[q].db \in Databases
        BY <1>4, <3>1, <3>2 DEF StoreMatches, MayBeStored, Matches
      <3>3. CASE accepted[q].db = None
        <4>1. accepted[q].db \notin Databases
          BY <3>3, ServerAssumption
        <4> QED BY <1>4, <3>1, <4>1 DEF HandlersRead, StoreMatches, MayBeStored, Matches
      <3> QED BY <3>1, <3>2, <3>3
    <2> QED BY <2>1, <2>2 DEF AnswerMatchesStore, StoreMatches
  <1> QED BY <1>4, <1>6, <1>8

LEMMA HandlerStepInv ==
    ASSUME Inv, NEW r \in Requests, HandlerStep(r)
    PROVE  Inv'
  <1> USE DEF Inv
  <1>0. pc[r] \notin {"new"} \union Answers
    BY DEF HandlerStep, Authorized, RequireDatabase, Query, Enqueue, Refuse, Ingest, Export,
           ExportCommits, Answers
  <1>1. settings[Via(r)] = accepted[r] /\ accepted[r] \in Settings
    BY <1>0, HandlerServed DEF TypeOK
  <1>2. CASE Authorized(r)
    <2>1. CASE Matches(r, settings[Via(r)].token)
      BY <1>0, <1>1, <1>2, <2>1, UnacknowledgedInv DEF Authorized, Goto, TypeOK
    <2>2. CASE ~Matches(r, settings[Via(r)].token)
      BY <1>0, <1>2, <2>2, UnacknowledgedInv DEF Authorized, Answer, Goto, TypeOK, Answers
    <2> QED BY <2>1, <2>2
  <1>3. CASE RequireDatabase(r)
    <2>1. Matches(r, accepted[r].token)
      BY <1>3 DEF RequireDatabase, HandlersRead
    <2>2. CASE settings[Via(r)].db # None /\ Alive(settings[Via(r)].db)
      <3>1. accepted[r].db \in Databases
        BY <1>1, <2>2 DEF Settings
      <3>2. /\ pc' = [pc EXCEPT ![r] = "work"]
            /\ db' = [db EXCEPT ![r] = accepted[r].db]
            /\ UNCHANGED <<serverVars, callVars, handles, accepted, stored, buffered>>
        BY <1>1, <1>3, <2>2 DEF RequireDatabase, Goto
      <3>3. /\ db' \in [Requests -> Databases \union {None}]
            /\ db'[r] = accepted[r].db
            /\ \A q \in Requests \ {r} : db'[q] = db[q]
        BY <3>1, <3>2 DEF TypeOK
      <3> QED BY <1>0, <2>1, <3>1, <3>2, <3>3, UnacknowledgedInv
    <2>3. CASE ~(settings[Via(r)].db # None /\ Alive(settings[Via(r)].db))
      BY <1>0, <1>3, <2>3, UnacknowledgedInv DEF RequireDatabase, Answer, Goto, TypeOK, Answers
    <2> QED BY <2>2, <2>3
  <1>4. CASE Query(r)
    BY <1>0, <1>4, UnacknowledgedInv DEF Query, Answer, Goto, TypeOK, Answers
  <1>5. CASE Enqueue(r)
    BY <1>5, SettledInv DEF Enqueue, Answers
  <1>6. CASE Refuse(r)
    BY <1>0, <1>6, UnacknowledgedInv DEF Refuse, Answer, Goto, TypeOK, Answers
  <1>7. CASE Ingest(r)
    <2>1. PICK answer \in {"ok", "refused"} : Answer(r, answer)
      BY <1>7 DEF Ingest
    <2>2. answer \in Answers /\ answer \in MayBeStored(r)
      BY <1>7 DEF Ingest, MayBeStored, Answers
    <2>3. Kind[r] = "ingest" /\ pc[r] = "work"
      BY <1>7 DEF Ingest
    <2> QED BY <1>7, <2>1, <2>2, <2>3, SettledInv DEF Ingest
  <1>8. CASE Export(r)
    <2>1. /\ Matches(r, accepted[r].token)
          /\ db[r] \in Databases /\ db[r] = accepted[r].db
      BY <1>8 DEF Export, HandlersRead
    <2> QED BY <1>0, <1>8, <2>1, UnacknowledgedInv DEF Export, Goto, TypeOK
  <1>9. CASE ExportCommits(r)
    <2>1. CASE stored' = [stored EXCEPT ![db[r]] = @ \union {r}] /\ Answer(r, "ok")
      <3>1. Kind[r] # "query"
        BY <1>9 DEF ExportCommits, HandlersRead
      <3>2. "ok" \in Answers /\ "ok" \in MayBeStored(r)
        BY DEF Answers, MayBeStored
      <3> QED BY <1>9, <2>1, <3>1, <3>2, SettledInv DEF ExportCommits
    <2>2. CASE Answer(r, "unknown") /\ UNCHANGED stored
      BY <1>0, <1>9, <2>2, UnacknowledgedInv DEF ExportCommits, Answer, Goto, TypeOK, Answers
    <2> QED BY <1>9, <2>1, <2>2 DEF ExportCommits, Commit
  <1> QED BY <1>2, <1>3, <1>4, <1>5, <1>6, <1>7, <1>8, <1>9 DEF HandlerStep

--------------------------------------------------------------------------------
(* The theorems *)

LEMMA NextInv == Inv /\ [Next]_vars => Inv'
  <1> SUFFICES ASSUME Inv, [Next]_vars PROVE Inv'
    OBVIOUS
  <1>1. CASE Next
    BY <1>1, CallInv, CallStepInv, ListenInv, CloseInv, AcceptInv, HandlerStepInv DEF Next
  <1>2. CASE UNCHANGED vars
    <2>1. TypeOK'
      BY <1>2 DEF Inv, TypeOK, vars, serverVars, callVars, requestVars
    <2> QED BY <1>2, <2>1, RequestsKept DEF vars, serverVars
  <1> QED BY <1>1, <1>2

LEMMA SpecInv == Spec => []Inv
  BY InitInv, NextInv, PTL DEF Spec

\* The servers' state keeps its types, and a listener's thread exists exactly while
\* its server runs (RawServeFunction, Shutdown).
THEOREM ServerTypeCorrect == Spec => []TypeOK
  <1>1. Inv => TypeOK
    BY DEF Inv
  <1> QED BY <1>1, SpecInv, PTL

\* No stop or start, by sessions or from within queries, changes a server under a
\* handler that reads its settings without the lock (Authorized, RequireDatabase,
\* HandleIngest, ExportSignal).
THEOREM ServersStandStill == Spec => []ServedByItsServer
  <1>1. Inv => ServedByItsServer
    BY DEF Inv
  <1> QED BY <1>1, SpecInv, PTL

\* An acknowledged export, and every queued request, is in the database of the server
\* that took it; no request leaves rows elsewhere, without that server's token, or
\* when it was turned away.  What an ingest over HTTP is told of its own rows is left
\* to group commit (HandleIngest, HandleOtlpProtobuf, ExportSignal).
THEOREM AnswersAreTrue == Spec => []AnswerMatchesStore
  <1>1. Inv => AnswerMatchesStore
    BY DEF Inv
  <1> QED BY <1>1, SpecInv, PTL
================================================================================
