------------------------------ MODULE AsyncProofs ------------------------------
(***************************************************************************)
(* Theorems about AsyncBuffers, for any payloads, tables and callers of    *)
(* raw_flush() and any faults.                                             *)
(***************************************************************************)
EXTENDS AsyncBuffers, QueueFacts, FiniteSetTheorems

\* The steps of FlushBuffer, on behalf of any thread.
Flushing(f, t) ==
    OpenFlush(f, t) \/ FlushTooLate(f, t) \/ CommitFlush(f, t) \/ FailFlush(f, t) \/ CommitThrows(f, t)

\* Next, by the thread and the table of its steps.
LEMMA NextCases ==
    ASSUME Next
    PROVE  \/ \E p \in Payloads : Enqueue(p)
           \/ \E t \in Targets : Age(t)
           \/ \E c \in Callers : FlushAll(c) \/ FlushAllReturns(c)
           \/ \E f \in Threads, t \in Targets : Flushing(f, t)
           \/ FlushLoopRound \/ FlushLoopBack \/ FlushLoopDrain \/ FlushLoopExit
           \/ Close
  BY DEF Next, CallerStep, FlusherStep, FlushStep, Flushing, Threads

--------------------------------------------------------------------------------
(* Typing *)

\* Taking buffers keeps the types.
LEMMA TakeType ==
    ASSUME TypeOK, NEW f \in Threads, NEW S \in SUBSET Targets, Take(f, S)
    PROVE  /\ buffers' \in [Targets -> Seq(Payloads)]
           /\ aged' \subseteq NonEmpty(buffers')
           /\ job' \in [Threads -> [Targets -> Seq(Payloads)]]
           /\ wide' \in [Threads -> BOOLEAN]
  <1>1. <<>> \in Seq(Payloads)
    OBVIOUS
  <1>2. buffers' \in [Targets -> Seq(Payloads)]
    BY <1>1 DEF TypeOK, Take
  <1>3. [t \in Targets |-> IF t \in S THEN buffers[t] ELSE <<>>] \in [Targets -> Seq(Payloads)]
    BY <1>1 DEF TypeOK
  <1>4. job' \in [Threads -> [Targets -> Seq(Payloads)]]
    BY <1>3 DEF TypeOK, Take
  <1>5. wide' \in [Threads -> BOOLEAN]
    BY DEF TypeOK, Take
  <1>6. aged' \subseteq NonEmpty(buffers')
    BY DEF TypeOK, Take, NonEmpty
  <1> QED
    BY <1>2, <1>4, <1>5, <1>6

\* Emptying one table of a job keeps its type.
LEMMA ShrinkType ==
    ASSUME TypeOK, NEW f \in Threads, NEW t \in Targets, job' = [job EXCEPT ![f][t] = <<>>]
    PROVE  /\ job' \in [Threads -> [Targets -> Seq(Payloads)]]
           /\ job'[f][t] = <<>>
           /\ \A g \in Threads, u \in Targets : <<g, u>> # <<f, t>> => job'[g][u] = job[g][u]
  <1>1. <<>> \in Seq(Payloads) /\ job[f] \in [Targets -> Seq(Payloads)]
    BY DEF TypeOK
  <1>2. [job[f] EXCEPT ![t] = <<>>] \in [Targets -> Seq(Payloads)]
    BY <1>1
  <1>3. job' = [job EXCEPT ![f] = [job[f] EXCEPT ![t] = <<>>]]
    OBVIOUS
  <1> QED
    BY <1>1, <1>2, <1>3 DEF TypeOK

LEMMA TypeStep ==
    ASSUME TypeOK, [Next]_vars
    PROVE  TypeOK'
  <1> USE DEF inputVars, bufferVars, jobVars, tableVars, callVars, lifeVars
  <1>1. ASSUME NEW p \in Payloads, Enqueue(p)
        PROVE  TypeOK'
    <2>1. target[p] \in Targets /\ buffers[target[p]] \in Seq(Payloads)
      BY DEF TypeOK
    <2>2. Append(buffers[target[p]], p) \in Seq(Payloads) /\ Append(buffers[target[p]], p) # <<>>
      <3>1. Len(Append(buffers[target[p]], p)) = Len(buffers[target[p]]) + 1
            /\ Append(buffers[target[p]], p) \in Seq(Payloads) /\ Len(buffers[target[p]]) \in Nat
        BY <2>1
      <3> QED
        BY <3>1
    <2>3. buffers' \in [Targets -> Seq(Payloads)] /\ aged' \subseteq NonEmpty(buffers')
      BY <1>1, <2>1, <2>2 DEF TypeOK, Enqueue, NonEmpty
    <2> QED
      BY <1>1, <2>3 DEF TypeOK, Enqueue, Start
  <1>2. ASSUME NEW t \in Targets, Age(t)
        PROVE  TypeOK'
    BY <1>2 DEF TypeOK, Age, NonEmpty
  <1>3. ASSUME NEW c \in Callers, FlushAll(c)
        PROVE  TypeOK'
    <2>1. c \in Threads /\ NonEmpty(buffers) \in SUBSET Targets /\ Take(c, NonEmpty(buffers))
      BY <1>3 DEF Threads, NonEmpty, FlushAll
    <2>2. before' \in [Callers -> SUBSET Payloads]
      BY <1>3 DEF TypeOK, FlushAll
    <2> QED
      BY <1>3, <2>1, <2>2, TakeType DEF TypeOK, FlushAll, Start
  <1>4. ASSUME NEW c \in Callers, FlushAllReturns(c)
        PROVE  TypeOK'
    BY <1>4 DEF TypeOK, FlushAllReturns, NonEmpty
  <1>5. ASSUME NEW f \in Threads, NEW t \in Targets, Flushing(f, t)
        PROVE  TypeOK'
    <2>0. /\ job[f][t] \in Seq(Payloads)
          /\ Range(job[f][t]) \subseteq Payloads
      <3>1. job[f][t] \in Seq(Payloads)
        BY DEF TypeOK
      <3> QED
        BY <3>1 DEF Range
    <2>1. CASE OpenFlush(f, t)
      <3>1. <<f, t>> \in Threads \X Targets
        OBVIOUS
      <3>2. open' \subseteq Threads \X Targets
        BY <2>1, <3>1 DEF TypeOK, OpenFlush
      <3>3. UNCHANGED <<inputVars, bufferVars, job, wide, tableVars, callVars, lifeVars>>
        BY <2>1 DEF OpenFlush
      <3> QED
        BY <3>2, <3>3 DEF TypeOK, NonEmpty
    <2>2. CASE FlushTooLate(f, t)
      BY <2>0, <2>2, ShrinkType DEF TypeOK, FlushTooLate, NonEmpty
    <2>3. CASE CommitFlush(f, t)
      <3>1. table[t] \o job[f][t] \in Seq(Payloads)
        BY <2>0, JoinedQueue DEF TypeOK
      <3>2. table' \in [Targets -> Seq(Payloads)]
        BY <2>3, <3>1 DEF TypeOK, CommitFlush
      <3>3. fate' \in {"up", "closing", "closed", "crashed", "hung"}
        BY <2>3 DEF TypeOK, CommitFlush, Release
      <3> QED
        BY <2>3, <3>2, <3>3, ShrinkType DEF TypeOK, CommitFlush, Release, NonEmpty
    <2>4. CASE FailFlush(f, t)
      <3>1. fate' \in {"up", "closing", "closed", "crashed", "hung"}
        BY <2>4 DEF TypeOK, FailFlush, Release
      <3> QED
        BY <2>0, <2>4, <3>1, ShrinkType DEF TypeOK, FailFlush, Release, NonEmpty
    <2>5. CASE CommitThrows(f, t)
      <3>1. /\ fate' \in {"up", "closing", "closed", "crashed", "hung"}
            /\ call' \in [Callers -> {"idle", "flushing", "returned", "threw"}]
        BY <2>5 DEF TypeOK, CommitThrows
      <3> QED
        BY <2>0, <2>5, <3>1, ShrinkType DEF TypeOK, CommitThrows, NonEmpty
    <2> QED
      BY <1>5, <2>1, <2>2, <2>3, <2>4, <2>5 DEF Flushing
  <1>6. CASE FlushLoopRound
    <2>1. Flusher \in Threads /\ Due \in SUBSET Targets /\ Take(Flusher, Due)
      BY <1>6 DEF Threads, Due, TypeOK, NonEmpty, FlushLoopRound
    <2> QED
      BY <1>6, <2>1, TakeType DEF TypeOK, FlushLoopRound
  <1>7. CASE FlushLoopDrain
    <2>1. Flusher \in Threads /\ NonEmpty(buffers) \in SUBSET Targets /\ Take(Flusher, NonEmpty(buffers))
      BY <1>7 DEF Threads, NonEmpty, FlushLoopDrain
    <2> QED
      BY <1>7, <2>1, TakeType DEF TypeOK, FlushLoopDrain
  <1>8. CASE FlushLoopBack \/ FlushLoopExit \/ Close
    BY <1>8 DEF TypeOK, FlushLoopBack, FlushLoopExit, Close, NonEmpty
  <1>9. CASE UNCHANGED vars
    BY <1>9 DEF TypeOK, vars, NonEmpty
  <1> QED
    BY <1>1, <1>2, <1>3, <1>4, <1>5, <1>6, <1>7, <1>8, <1>9, NextCases

\* No step leaves the types, and what has aged is in a buffer.
THEOREM AsyncTypeCorrect == Spec => []TypeOK
  <1>1. Init => TypeOK
    BY DEF Init, TypeOK, NoJob, NonEmpty
  <1> QED
    BY <1>1, TypeStep, PTL DEF Spec

--------------------------------------------------------------------------------
(* Where the payloads are *)

\* A buffer holds payloads of its table that were sent and are nowhere else.
BuffersHold ==
    \A t \in Targets : \A p \in Range(buffers[t]) :
        /\ target[p] = t /\ p \notin unsent /\ p \notin dropped
        /\ p \notin Range(table[t])
        /\ \A f \in Threads : p \notin Range(job[f][t])

\* So does what a thread has taken.
JobsHold ==
    \A f \in Threads, t \in Targets : \A p \in Range(job[f][t]) :
        /\ target[p] = t /\ p \notin unsent /\ p \notin dropped
        /\ p \notin Range(table[t])
        /\ \A g \in Threads \ {f} : p \notin Range(job[g][t])

TablesHold ==
    /\ \A t \in Targets : \A p \in Range(table[t]) :
         target[p] = t /\ p \notin unsent /\ p \notin dropped
    /\ dropped \intersect unsent = {}

\* What was sent is somewhere.
SentIsHeld ==
    \A p \in Payloads \ unsent :
        \/ p \in dropped
        \/ p \in Range(buffers[target[p]])
        \/ p \in Range(table[target[p]])
        \/ \E f \in Threads : p \in Range(job[f][target[p]])

NoRepeats ==
    /\ \A t \in Targets : IsInjective(buffers[t]) /\ IsInjective(table[t])
    /\ \A f \in Threads, t \in Targets : IsInjective(job[f][t])

\* A thread that is not flushing has taken nothing: what the next one it takes
\* would overwrite.
IdleHoldNothing ==
    /\ \A c \in Callers : call[c] = "idle" => \A t \in Targets : job[c][t] = <<>>
    /\ flusher \in {"off", "wait"} => \A t \in Targets : job[Flusher][t] = <<>>

PlaceInv ==
    BuffersHold /\ JobsHold /\ TablesHold /\ SentIsHeld /\ NoRepeats /\ IdleHoldNothing

\* A FlushBuffer in progress has something to flush, so nobody idle is in one.
OpenHasJob == \A f \in Threads, t \in Targets : <<f, t>> \in open => job[f][t] # <<>>

\* What a raw_flush() found acknowledged has left the buffers for good.
FlushedLeft ==
    \A c \in Callers : call[c] # "idle" =>
        \A p \in before[c] : p \notin unsent /\ \A t \in Targets : p \notin Range(buffers[t])

\* A client's payload goes into the buffer of its table.
LEMMA EnqueuePlace ==
    ASSUME TypeOK, PlaceInv, NEW p \in Payloads, Enqueue(p)
    PROVE  PlaceInv'
  <1> USE DEF inputVars, bufferVars, jobVars, tableVars, callVars, lifeVars
  <1> DEFINE t0 == target[p]
             q == Append(buffers[t0], p)
  <1>1. /\ t0 \in Targets /\ p \in unsent /\ unsent' = unsent \ {p}
        /\ buffers[t0] \in Seq(Payloads)
        /\ UNCHANGED <<target, table, dropped, job, call>>
        /\ flusher \in {"off", "wait"} <=> flusher' \in {"off", "wait"}
    BY DEF TypeOK, Enqueue, Start
  <1>2. buffers'[t0] = q /\ \A t \in Targets \ {t0} : buffers'[t] = buffers[t]
    BY <1>1 DEF TypeOK, Enqueue
  <1>3. p \notin Range(buffers[t0])
    BY <1>1 DEF PlaceInv, BuffersHold
  <1>4. Range(q) = Range(buffers[t0]) \union {p} /\ IsInjective(q)
    BY <1>1, <1>3, AppendedQueue DEF PlaceInv, NoRepeats
  <1> HIDE DEF q
  <1>5. \A t \in Targets : \A x \in Range(buffers'[t]) : x \in Range(buffers[t]) \/ (x = p /\ t = t0)
    BY <1>2, <1>4
  <1>6. \A t \in Targets : Range(buffers[t]) \subseteq Range(buffers'[t])
    BY <1>2, <1>4
  <1>7. BuffersHold'
    BY <1>1, <1>5 DEF PlaceInv, BuffersHold, JobsHold, TablesHold
  <1>8. JobsHold' /\ TablesHold'
    BY <1>1 DEF PlaceInv, JobsHold, TablesHold
  <1>9. SentIsHeld'
    <2> SUFFICES ASSUME NEW x \in Payloads \ unsent'
                 PROVE  \/ x \in dropped
                        \/ x \in Range(buffers'[target[x]])
                        \/ x \in Range(table[target[x]])
                        \/ \E f \in Threads : x \in Range(job[f][target[x]])
      BY <1>1 DEF SentIsHeld
    <2>1. CASE x = p
      BY <1>2, <1>4, <2>1
    <2>2. CASE x # p
      <3>1. x \in Payloads \ unsent /\ target[x] \in Targets
        BY <1>1, <2>2 DEF TypeOK
      <3> QED
        BY <1>6, <3>1 DEF PlaceInv, SentIsHeld
    <2> QED
      BY <2>1, <2>2
  <1>10. NoRepeats'
    BY <1>1, <1>2, <1>4 DEF PlaceInv, NoRepeats
  <1>11. IdleHoldNothing'
    BY <1>1 DEF PlaceInv, IdleHoldNothing
  <1> QED
    BY <1>7, <1>8, <1>9, <1>10, <1>11 DEF PlaceInv

\* A thread that has taken nothing takes the buffers of the tables S.
LEMMA TakePlace ==
    ASSUME TypeOK, PlaceInv, NEW f \in Threads, NEW S \in SUBSET Targets, Take(f, S),
           \A t \in Targets : job[f][t] = <<>>,
           UNCHANGED <<target, unsent, table, dropped>>,
           \A c \in Callers : call'[c] = "idle" => call[c] = "idle" /\ c # f,
           flusher' \in {"off", "wait"} => flusher \in {"off", "wait"} /\ f # Flusher
    PROVE  PlaceInv'
  <1>1. \A t \in Targets : /\ t \in S => job'[f][t] = buffers[t] /\ buffers'[t] = <<>>
                           /\ t \notin S => job'[f][t] = <<>> /\ buffers'[t] = buffers[t]
    BY DEF TypeOK, Take
  <1>2. \A g \in Threads \ {f} : job'[g] = job[g]
    BY DEF TypeOK, Take
  <1>3. BuffersHold'
    <2> SUFFICES ASSUME NEW t \in Targets, NEW p \in Range(buffers'[t])
                 PROVE  /\ target[p] = t /\ p \notin unsent /\ p \notin dropped
                        /\ p \notin Range(table[t])
                        /\ \A g \in Threads : p \notin Range(job'[g][t])
      BY DEF BuffersHold
    <2>1. t \notin S
      BY <1>1, EmptyQueue
    <2>2. p \in Range(buffers[t]) /\ job'[f][t] = <<>>
      BY <1>1, <2>1
    <2> QED
      BY <1>2, <2>2, EmptyQueue DEF PlaceInv, BuffersHold
  <1>4. JobsHold'
    <2> SUFFICES ASSUME NEW g \in Threads, NEW t \in Targets, NEW p \in Range(job'[g][t])
                 PROVE  /\ target[p] = t /\ p \notin unsent /\ p \notin dropped
                        /\ p \notin Range(table[t])
                        /\ \A h \in Threads \ {g} : p \notin Range(job'[h][t])
      BY DEF JobsHold
    <2>1. CASE g = f
      <3>1. t \in S /\ p \in Range(buffers[t])
        BY <1>1, <2>1, EmptyQueue
      <3> QED
        BY <1>2, <2>1, <3>1 DEF PlaceInv, BuffersHold
    <2>2. CASE g # f
      <3>1. p \in Range(job[g][t])
        BY <1>2, <2>2
      <3>2. p \notin Range(job'[f][t])
        BY <1>1, <3>1, EmptyQueue DEF PlaceInv, BuffersHold
      <3> QED
        BY <1>2, <3>1, <3>2 DEF PlaceInv, JobsHold
    <2> QED
      BY <2>1, <2>2
  <1>5. TablesHold'
    BY DEF PlaceInv, TablesHold
  <1>6. SentIsHeld'
    <2> SUFFICES ASSUME NEW p \in Payloads \ unsent
                 PROVE  \/ p \in dropped
                        \/ p \in Range(buffers'[target[p]])
                        \/ p \in Range(table[target[p]])
                        \/ \E g \in Threads : p \in Range(job'[g][target[p]])
      BY DEF SentIsHeld
    <2>1. target[p] \in Targets
      BY DEF TypeOK
    <2>2. CASE p \in Range(buffers[target[p]])
      BY <1>1, <2>1, <2>2
    <2>3. CASE \E g \in Threads : p \in Range(job[g][target[p]])
      <3>1. PICK g \in Threads : p \in Range(job[g][target[p]])
        BY <2>3
      <3>2. g # f
        BY <2>1, <3>1, EmptyQueue
      <3> QED
        BY <1>2, <3>1, <3>2
    <2> QED
      BY <2>2, <2>3 DEF PlaceInv, SentIsHeld
  <1>7. NoRepeats'
    <2>1. \A t \in Targets : IsInjective(buffers'[t]) /\ IsInjective(table'[t])
      BY <1>1, EmptyQueue DEF PlaceInv, NoRepeats
    <2>2. \A g \in Threads, t \in Targets : IsInjective(job'[g][t])
      BY <1>1, <1>2, EmptyQueue DEF PlaceInv, NoRepeats
    <2> QED
      BY <2>1, <2>2 DEF NoRepeats
  <1>8. IdleHoldNothing'
    <2>1. ASSUME NEW c \in Callers, call'[c] = "idle"
          PROVE  \A t \in Targets : job'[c][t] = <<>>
      <3>1. c \in Threads /\ c # f /\ call[c] = "idle"
        BY <2>1 DEF Threads
      <3> QED
        BY <1>2, <3>1 DEF PlaceInv, IdleHoldNothing
    <2>2. ASSUME flusher' \in {"off", "wait"}
          PROVE  \A t \in Targets : job'[Flusher][t] = <<>>
      <3>1. Flusher \in Threads /\ Flusher # f /\ flusher \in {"off", "wait"}
        BY <2>2 DEF Threads
      <3> QED
        BY <1>2, <3>1 DEF PlaceInv, IdleHoldNothing
    <2> QED
      BY <2>1, <2>2 DEF IdleHoldNothing
  <1> QED
    BY <1>3, <1>4, <1>5, <1>6, <1>7, <1>8 DEF PlaceInv

\* A thread is done with what it took for t: it is dropped, or all in the table.
LEMMA SettlePlace ==
    ASSUME TypeOK, PlaceInv, NEW f \in Threads, NEW t \in Targets,
           job' = [job EXCEPT ![f][t] = <<>>],
           \/ dropped' = dropped \union Range(job[f][t]) /\ table' = table
           \/ table' = [table EXCEPT ![t] = @ \o job[f][t]] /\ dropped' = dropped,
           UNCHANGED <<target, unsent, buffers, flusher>>,
           \A c \in Callers : call'[c] = "idle" => call[c] = "idle"
    PROVE  PlaceInv'
  <1> DEFINE B == Range(job[f][t])
  <1>1. /\ job' \in [Threads -> [Targets -> Seq(Payloads)]]
        /\ job'[f][t] = <<>>
        /\ \A g \in Threads, u \in Targets : <<g, u>> # <<f, t>> => job'[g][u] = job[g][u]
    BY ShrinkType, ZenonT(30)
  <1>2. \A g \in Threads, u \in Targets : /\ Range(job'[g][u]) \subseteq Range(job[g][u])
                                          /\ IsInjective(job[g][u]) => IsInjective(job'[g][u])
                                          /\ job[g][u] = <<>> => job'[g][u] = <<>>
    BY <1>1, EmptyQueue
  <1>3. \A g \in Threads, u \in Targets : \A p \in Range(job'[g][u]) : p \notin B
    <2> SUFFICES ASSUME NEW g \in Threads, NEW u \in Targets, NEW p \in Range(job'[g][u]), p \in B
                 PROVE  FALSE
      OBVIOUS
    <2>1. target[p] = u /\ target[p] = t /\ p \in Range(job[g][u])
      BY <1>2 DEF PlaceInv, JobsHold
    <2>2. g = f
      BY <2>1 DEF PlaceInv, JobsHold
    <2> QED
      BY <1>1, <2>1, <2>2, EmptyQueue
  <1>4. /\ \A p \in B : target[p] = t /\ p \notin unsent /\ p \notin dropped /\ p \notin Range(table[t])
        /\ \A p \in B, u \in Targets : p \notin Range(buffers[u])
    BY DEF PlaceInv, JobsHold, BuffersHold
  <1>5. /\ table[t] \in Seq(Payloads) /\ job[f][t] \in Seq(Payloads)
        /\ \A u \in Targets : Range(table[u]) \subseteq Range(table'[u])
        /\ \A u \in Targets : IsInjective(table'[u])
        /\ \A u \in Targets : \A p \in Range(table'[u]) :
             p \in Range(table[u]) \/ (u = t /\ p \in B /\ dropped' = dropped)
        /\ \/ B \subseteq dropped'
           \/ B \subseteq Range(table'[t])
        /\ dropped \subseteq dropped' /\ dropped' \subseteq dropped \union B
    <2>1. table[t] \in Seq(Payloads) /\ job[f][t] \in Seq(Payloads)
      BY DEF TypeOK
    <2>2. CASE dropped' = dropped \union B /\ table' = table
      BY <2>1, <2>2 DEF PlaceInv, NoRepeats
    <2>3. CASE table' = [table EXCEPT ![t] = @ \o job[f][t]] /\ dropped' = dropped
      <3>1. Range(table[t] \o job[f][t]) = Range(table[t]) \union B
        BY <2>1, JoinedQueue
      <3>2. Range(table[t]) \intersect B = {} /\ IsInjective(table[t]) /\ IsInjective(job[f][t])
        BY <1>4 DEF PlaceInv, NoRepeats
      <3>3. IsInjective(table[t] \o job[f][t])
        BY <2>1, <3>2, JoinedQueue
      <3>4. table'[t] = table[t] \o job[f][t] /\ \A u \in Targets \ {t} : table'[u] = table[u]
        BY <2>3 DEF TypeOK
      <3> HIDE DEF B
      <3> QED
        BY <2>1, <2>3, <3>1, <3>3, <3>4 DEF PlaceInv, NoRepeats
    <2> QED
      BY <2>2, <2>3
  <1> HIDE DEF B
  <1>6. BuffersHold'
    <2> SUFFICES ASSUME NEW u \in Targets, NEW p \in Range(buffers[u])
                 PROVE  /\ target[p] = u /\ p \notin unsent /\ p \notin dropped'
                        /\ p \notin Range(table'[u])
                        /\ \A g \in Threads : p \notin Range(job'[g][u])
      BY DEF BuffersHold
    <2>1. p \notin B
      BY <1>4
    <2>2. /\ target[p] = u /\ p \notin unsent /\ p \notin dropped /\ p \notin Range(table[u])
          /\ \A g \in Threads : p \notin Range(job[g][u])
      BY DEF PlaceInv, BuffersHold
    <2>3. p \notin dropped' /\ p \notin Range(table'[u])
      BY <1>5, <2>1, <2>2
    <2> QED
      BY <1>2, <2>2, <2>3
  <1>7. JobsHold'
    <2> SUFFICES ASSUME NEW g \in Threads, NEW u \in Targets, NEW p \in Range(job'[g][u])
                 PROVE  /\ target[p] = u /\ p \notin unsent /\ p \notin dropped'
                        /\ p \notin Range(table'[u])
                        /\ \A h \in Threads \ {g} : p \notin Range(job'[h][u])
      BY DEF JobsHold
    <2>1. p \notin B /\ p \in Range(job[g][u])
      BY <1>2, <1>3
    <2>2. /\ target[p] = u /\ p \notin unsent /\ p \notin dropped /\ p \notin Range(table[u])
          /\ \A h \in Threads \ {g} : p \notin Range(job[h][u])
      BY <2>1 DEF PlaceInv, JobsHold
    <2>3. p \notin dropped' /\ p \notin Range(table'[u])
      BY <1>5, <2>1, <2>2
    <2> QED
      BY <1>2, <2>2, <2>3
  <1>8. TablesHold'
    <2>1. ASSUME NEW u \in Targets, NEW p \in Range(table'[u])
          PROVE  target[p] = u /\ p \notin unsent /\ p \notin dropped'
      <3>1. CASE u = t /\ p \in B /\ dropped' = dropped
        BY <1>4, <3>1
      <3>2. CASE p \in Range(table[u])
        <4>1. target[p] = u /\ p \notin unsent /\ p \notin dropped
          BY <3>2 DEF PlaceInv, TablesHold
        <4>2. p \notin B
          BY <1>4, <3>2, <4>1
        <4> QED
          BY <1>5, <4>1, <4>2
      <3> QED
        BY <1>5, <3>1, <3>2
    <2>2. dropped' \intersect unsent = {}
      BY <1>4, <1>5 DEF PlaceInv, TablesHold
    <2> QED
      BY <2>1, <2>2 DEF TablesHold
  <1>9. SentIsHeld'
    <2> SUFFICES ASSUME NEW p \in Payloads \ unsent
                 PROVE  \/ p \in dropped'
                        \/ p \in Range(buffers[target[p]])
                        \/ p \in Range(table'[target[p]])
                        \/ \E g \in Threads : p \in Range(job'[g][target[p]])
      BY DEF SentIsHeld
    <2>1. target[p] \in Targets
      BY DEF TypeOK
    <2>2. CASE p \in B
      BY <1>4, <1>5, <2>2
    <2>3. CASE p \notin B
      <3>1. \A g \in Threads : p \in Range(job[g][target[p]]) => p \in Range(job'[g][target[p]])
        BY <1>1, <2>1, <2>3 DEF B
      <3> QED
        BY <1>5, <2>1, <3>1 DEF PlaceInv, SentIsHeld
    <2> QED
      BY <2>2, <2>3
  <1>10. NoRepeats'
    BY <1>2, <1>5 DEF PlaceInv, NoRepeats
  <1>11. IdleHoldNothing'
    <2>1. Flusher \in Threads /\ Callers \subseteq Threads
      BY DEF Threads
    <2> QED
      BY <1>2, <2>1 DEF PlaceInv, IdleHoldNothing
  <1> QED
    BY <1>6, <1>7, <1>8, <1>9, <1>10, <1>11 DEF PlaceInv

\* Steps that move no payload and start no flush.
LEMMA QuietPlace ==
    ASSUME PlaceInv,
           UNCHANGED <<target, unsent, buffers, job, table, dropped>>,
           \A c \in Callers : call'[c] = "idle" => call[c] = "idle",
           flusher' \in {"off", "wait"} =>
               flusher \in {"off", "wait"} \/ \A t \in Targets : job[Flusher][t] = <<>>
    PROVE  PlaceInv'
  <1>1. BuffersHold' /\ JobsHold' /\ TablesHold' /\ SentIsHeld' /\ NoRepeats'
    BY DEF PlaceInv, BuffersHold, JobsHold, TablesHold, SentIsHeld, NoRepeats
  <1>2. IdleHoldNothing'
    BY DEF PlaceInv, IdleHoldNothing
  <1> QED
    BY <1>1, <1>2 DEF PlaceInv

\* Every step keeps each payload in its place.
LEMMA PlaceStep ==
    ASSUME TypeOK, PlaceInv, [Next]_vars
    PROVE  PlaceInv'
  <1> USE DEF inputVars, bufferVars, jobVars, tableVars, callVars, lifeVars
  <1>0. Flusher \in Threads /\ Callers \subseteq Threads /\ Flusher \notin Callers
    BY AsyncAssumption DEF Threads
  <1>1. ASSUME NEW p \in Payloads, Enqueue(p)
        PROVE  PlaceInv'
    BY <1>1, EnqueuePlace
  <1>2. ASSUME NEW c \in Callers, FlushAll(c)
        PROVE  PlaceInv'
    <2>1. /\ Take(c, NonEmpty(buffers)) /\ NonEmpty(buffers) \in SUBSET Targets
          /\ call[c] = "idle" /\ \A t \in Targets : job[c][t] = <<>>
          /\ UNCHANGED <<target, unsent, table, dropped>>
          /\ flusher' \in {"off", "wait"} => flusher \in {"off", "wait"}
      BY <1>2 DEF FlushAll, NonEmpty, PlaceInv, IdleHoldNothing, Start
    <2>2. \A d \in Callers : call'[d] = "idle" => call[d] = "idle" /\ d # c
      BY <1>2 DEF FlushAll, TypeOK
    <2> QED
      BY <1>0, <2>1, <2>2, TakePlace
  <1>3. ASSUME NEW f \in Threads, NEW t \in Targets, Flushing(f, t)
        PROVE  PlaceInv'
    <2>1. CASE OpenFlush(f, t)
      BY <2>1, QuietPlace DEF OpenFlush
    <2>2. CASE FlushTooLate(f, t)
      BY <2>2, SettlePlace DEF FlushTooLate
    <2>3. CASE CommitFlush(f, t)
      BY <2>3, SettlePlace DEF CommitFlush, Release
    <2>4. CASE FailFlush(f, t)
      BY <2>4, SettlePlace DEF FailFlush, Release
    <2>5. CASE CommitThrows(f, t)
      <3>1. \A c \in Callers : call'[c] = "idle" => call[c] = "idle"
        BY <2>5 DEF CommitThrows, TypeOK
      <3> QED
        BY <2>5, <3>1, SettlePlace DEF CommitThrows
    <2> QED
      BY <1>3, <2>1, <2>2, <2>3, <2>4, <2>5 DEF Flushing
  <1>4. CASE FlushLoopRound
    <2>1. /\ Take(Flusher, Due) /\ Due \in SUBSET Targets
          /\ \A t \in Targets : job[Flusher][t] = <<>>
          /\ UNCHANGED <<target, unsent, table, dropped, call>>
          /\ flusher' = "flush"
      BY <1>4 DEF FlushLoopRound, Due, NonEmpty, TypeOK, PlaceInv, IdleHoldNothing
    <2> QED
      BY <1>0, <2>1, TakePlace
  <1>5. CASE FlushLoopDrain
    <2>1. /\ Take(Flusher, NonEmpty(buffers)) /\ NonEmpty(buffers) \in SUBSET Targets
          /\ \A t \in Targets : job[Flusher][t] = <<>>
          /\ UNCHANGED <<target, unsent, table, dropped, call>>
          /\ flusher' = "drain"
      BY <1>5 DEF FlushLoopDrain, NonEmpty, PlaceInv, IdleHoldNothing
    <2> QED
      BY <1>0, <2>1, TakePlace
  <1>6. CASE FlushLoopBack \/ FlushLoopExit \/ Close \/ UNCHANGED vars
    <2>1. FlushLoopBack => \A t \in Targets : job[Flusher][t] = <<>>
      BY DEF FlushLoopBack, NoJob
    <2> QED
      BY <1>6, <2>1, QuietPlace DEF FlushLoopBack, FlushLoopExit, Close, vars
  <1>7. ASSUME NEW t \in Targets, Age(t)
        PROVE  PlaceInv'
    BY <1>7, QuietPlace DEF Age
  <1>8. ASSUME NEW c \in Callers, FlushAllReturns(c)
        PROVE  PlaceInv'
    <2>1. \A d \in Callers : call'[d] = "idle" => call[d] = "idle"
      BY <1>8 DEF FlushAllReturns, TypeOK
    <2> QED
      BY <1>8, <2>1, QuietPlace DEF FlushAllReturns
  <1> QED
    BY <1>1, <1>2, <1>3, <1>4, <1>5, <1>6, <1>7, <1>8, NextCases

\* PlaceInv holds throughout.
THEOREM PlaceInvariant == Spec => []PlaceInv
  <1>1. Init => PlaceInv
    BY EmptyQueue DEF Init, NoJob, Threads, PlaceInv, BuffersHold, JobsHold, TablesHold,
                      SentIsHeld, NoRepeats, IdleHoldNothing
  <1> QED
    BY <1>1, PlaceStep, AsyncTypeCorrect, PTL DEF Spec

\* An acknowledged payload is in one buffer, one flush in progress, its table or
\* dropped, whatever flushes run at once and however they end.
THEOREM PayloadsInOnePlace == Spec => []PayloadInOnePlace
  <1>1. TypeOK /\ PlaceInv => PayloadInOnePlace
    <2> SUFFICES ASSUME TypeOK, PlaceInv PROVE PayloadInOnePlace
      OBVIOUS
    <2>1. ASSUME NEW p \in Sent
          PROVE  Cardinality({f \in Threads : p \in Taken(f)}
                             \union {x \in {"buffer"} : p \in Buffered}
                             \union {x \in {"table"} : p \in Committed}
                             \union {x \in {"dropped"} : p \in dropped}) = 1
      <3> DEFINE t0 == target[p]
                 F == {f \in Threads : p \in Taken(f)}
                 B == {x \in {"buffer"} : p \in Buffered}
                 C == {x \in {"table"} : p \in Committed}
                 D == {x \in {"dropped"} : p \in dropped}
      <3>1. p \in Payloads \ unsent /\ t0 \in Targets
        BY DEF Sent, TypeOK
      <3>2. \A f \in Threads : f \in F <=> p \in Range(job[f][t0])
        BY <3>1 DEF PlaceInv, JobsHold, Taken
      <3>3. p \in Buffered <=> p \in Range(buffers[t0])
        BY <3>1 DEF PlaceInv, BuffersHold, Buffered
      <3>4. p \in Committed <=> p \in Range(table[t0])
        BY <3>1 DEF PlaceInv, TablesHold, Committed
      <3>5. \A f \in Threads : p \in Range(job[f][t0]) =>
               /\ p \notin dropped /\ p \notin Range(table[t0]) /\ p \notin Range(buffers[t0])
               /\ \A g \in Threads \ {f} : p \notin Range(job[g][t0])
        BY <3>1 DEF PlaceInv, JobsHold, BuffersHold
      <3>6. p \in Range(buffers[t0]) => p \notin dropped /\ p \notin Range(table[t0])
        BY <3>1 DEF PlaceInv, BuffersHold
      <3>7. p \in Range(table[t0]) => p \notin dropped
        BY <3>1 DEF PlaceInv, TablesHold
      <3>8. F \subseteq Threads
        OBVIOUS
      <3> HIDE DEF F
      <3>9. \E k : F \union B \union C \union D = {k}
        <4>1. CASE p \in dropped
          BY <3>2, <3>3, <3>4, <3>5, <3>6, <3>7, <3>8, <4>1
        <4>2. CASE p \in Range(buffers[t0])
          BY <3>2, <3>3, <3>4, <3>5, <3>6, <3>8, <4>2
        <4>3. CASE p \in Range(table[t0])
          BY <3>2, <3>3, <3>4, <3>5, <3>6, <3>7, <3>8, <4>3
        <4>4. CASE \E f \in Threads : p \in Range(job[f][t0])
          <5>1. PICK f \in Threads : p \in Range(job[f][t0])
            BY <4>4
          <5>2. F = {f}
            BY <3>2, <3>5, <3>8, <5>1
          <5>3. B = {} /\ C = {} /\ D = {}
            BY <3>3, <3>4, <3>5, <5>1
          <5> QED
            BY <5>2, <5>3
        <4> QED
          BY <3>1, <4>1, <4>2, <4>3, <4>4 DEF PlaceInv, SentIsHeld
      <3> QED
        BY <3>9, FS_Singleton DEF F
    <2>2. ASSUME NEW t \in Targets
          PROVE  /\ IsInjective(buffers[t]) /\ IsInjective(table[t])
                 /\ \A p \in Range(buffers[t]) \union Range(table[t])
                              \union UNION {Range(job[f][t]) : f \in Threads} : target[p] = t
      BY DEF PlaceInv, NoRepeats, BuffersHold, JobsHold, TablesHold
    <2> QED
      BY <2>1, <2>2 DEF PayloadInOnePlace
  <1> QED
    BY <1>1, AsyncTypeCorrect, PlaceInvariant, PTL

--------------------------------------------------------------------------------
(* raw_flush() *)

\* A thread takes only what it has nothing open for.
LEMMA OpenStep ==
    ASSUME TypeOK, PlaceInv, OpenHasJob, [Next]_vars
    PROVE  OpenHasJob'
  <1> USE DEF inputVars, bufferVars, jobVars, tableVars, callVars, lifeVars
  <1>1. ASSUME NEW f \in Threads, NEW S \in SUBSET Targets, Take(f, S), open' = open,
               \A t \in Targets : job[f][t] = <<>>
        PROVE  OpenHasJob'
    <2>1. \A g \in Threads \ {f} : job'[g] = job[g]
      BY <1>1 DEF Take, TypeOK
    <2> QED
      BY <1>1, <2>1 DEF OpenHasJob
  <1>2. ASSUME NEW c \in Callers, FlushAll(c)
        PROVE  OpenHasJob'
    <2>1. /\ c \in Threads /\ NonEmpty(buffers) \in SUBSET Targets
          /\ Take(c, NonEmpty(buffers)) /\ open' = open
          /\ \A t \in Targets : job[c][t] = <<>>
      BY <1>2 DEF Threads, NonEmpty, FlushAll, PlaceInv, IdleHoldNothing
    <2> QED
      BY <1>1, <2>1
  <1>3. CASE FlushLoopRound \/ FlushLoopDrain
    <2>1. Flusher \in Threads /\ Due \in SUBSET Targets /\ NonEmpty(buffers) \in SUBSET Targets
      BY DEF Threads, Due, NonEmpty, TypeOK
    <2>2. /\ Take(Flusher, Due) \/ Take(Flusher, NonEmpty(buffers))
          /\ open' = open /\ \A t \in Targets : job[Flusher][t] = <<>>
      BY <1>3 DEF FlushLoopRound, FlushLoopDrain, PlaceInv, IdleHoldNothing
    <2> QED
      BY <1>1, <2>1, <2>2
  <1>4. ASSUME NEW f \in Threads, NEW t \in Targets, Flushing(f, t)
        PROVE  OpenHasJob'
    <2>1. CASE OpenFlush(f, t)
      BY <2>1 DEF OpenFlush, OpenHasJob
    <2>2. CASE FlushTooLate(f, t)
      <3>1. /\ <<f, t>> \notin open /\ open' = open
            /\ \A g \in Threads, u \in Targets : <<g, u>> # <<f, t>> => job'[g][u] = job[g][u]
        BY <2>2, ShrinkType DEF FlushTooLate
      <3> QED
        BY <3>1 DEF OpenHasJob
    <2>3. CASE CommitFlush(f, t) \/ FailFlush(f, t) \/ CommitThrows(f, t)
      <3>1. job' = [job EXCEPT ![f][t] = <<>>] /\ open' = open \ {<<f, t>>}
        BY <2>3 DEF CommitFlush, FailFlush, CommitThrows, Release
      <3>2. \A g \in Threads, u \in Targets : <<g, u>> # <<f, t>> => job'[g][u] = job[g][u]
        BY <3>1, ShrinkType
      <3> QED
        BY <3>1, <3>2 DEF OpenHasJob
    <2> QED
      BY <1>4, <2>1, <2>2, <2>3 DEF Flushing
  <1>5. UNCHANGED <<job, open>> => OpenHasJob'
    BY DEF OpenHasJob
  <1>6. ASSUME NEW p \in Payloads, Enqueue(p)
        PROVE  OpenHasJob'
    BY <1>5, <1>6 DEF Enqueue
  <1>7. ASSUME NEW t \in Targets, Age(t)
        PROVE  OpenHasJob'
    BY <1>5, <1>7 DEF Age
  <1>8. ASSUME NEW c \in Callers, FlushAllReturns(c)
        PROVE  OpenHasJob'
    BY <1>5, <1>8 DEF FlushAllReturns
  <1>9. CASE FlushLoopBack \/ FlushLoopExit \/ Close \/ UNCHANGED vars
    BY <1>5, <1>9 DEF FlushLoopBack, FlushLoopExit, Close, vars
  <1> QED
    BY <1>2, <1>3, <1>4, <1>6, <1>7, <1>8, <1>9, NextCases

\* What raw_flush() has found stays out of the buffers: payloads enter once.
LEMMA FlushedStep ==
    ASSUME TypeOK, PlaceInv, OpenHasJob, FlushedLeft, [Next]_vars
    PROVE  FlushedLeft'
  <1> USE DEF inputVars, bufferVars, jobVars, tableVars, callVars, lifeVars
  <1>1. ASSUME NEW p \in Payloads, Enqueue(p)
        PROVE  FlushedLeft'
    <2>1. /\ p \in unsent /\ unsent' \subseteq unsent /\ UNCHANGED <<call, before>>
          /\ target[p] \in Targets /\ buffers[target[p]] \in Seq(Payloads)
          /\ buffers' = [buffers EXCEPT ![target[p]] = Append(@, p)]
      BY <1>1 DEF Enqueue, TypeOK
    <2>2. Range(Append(buffers[target[p]], p)) \subseteq Range(buffers[target[p]]) \union {p}
      BY <2>1 DEF Range
    <2>3. \A t \in Targets : Range(buffers'[t]) \subseteq Range(buffers[t]) \union {p}
      BY <2>1, <2>2 DEF TypeOK
    <2> QED
      BY <2>1, <2>3 DEF FlushedLeft
  <1>2. ASSUME NEW f \in Threads, NEW S \in SUBSET Targets, Take(f, S)
        PROVE  \A t \in Targets : Range(buffers'[t]) \subseteq Range(buffers[t])
    BY <1>2, EmptyQueue DEF Take, TypeOK
  <1>3. ASSUME NEW c \in Callers, FlushAll(c)
        PROVE  FlushedLeft'
    <2>1. /\ \A t \in Targets : buffers'[t] = <<>>
          /\ unsent' = unsent
          /\ before'[c] = Payloads \ unsent
          /\ \A d \in Callers \ {c} : before'[d] = before[d] /\ call'[d] = call[d]
      BY <1>3 DEF FlushAll, Take, NonEmpty, TypeOK
    <2> QED
      BY <2>1, EmptyQueue DEF FlushedLeft
  <1>4. CASE FlushLoopRound \/ FlushLoopDrain
    <2>1. Flusher \in Threads /\ Due \in SUBSET Targets /\ NonEmpty(buffers) \in SUBSET Targets
      BY DEF Threads, Due, NonEmpty, TypeOK
    <2>2. Take(Flusher, Due) \/ Take(Flusher, NonEmpty(buffers))
      BY <1>4 DEF FlushLoopRound, FlushLoopDrain
    <2>3. UNCHANGED <<unsent, call, before>>
      BY <1>4 DEF FlushLoopRound, FlushLoopDrain
    <2> QED
      BY <1>2, <2>1, <2>2, <2>3 DEF FlushedLeft
  <1>5. ASSUME NEW f \in Threads, NEW t \in Targets, Flushing(f, t)
        PROVE  FlushedLeft'
    <2>1. UNCHANGED <<unsent, buffers, before>>
      BY <1>5 DEF Flushing, OpenFlush, FlushTooLate, CommitFlush, FailFlush, CommitThrows
    <2>2. \A c \in Callers : call'[c] # "idle" => call[c] # "idle"
      <3>1. CASE CommitThrows(f, t)
        <4>1. job[f][t] # <<>>
          BY <3>1 DEF CommitThrows, OpenHasJob
        <4>2. f \in Callers => call[f] # "idle"
          BY <4>1 DEF PlaceInv, IdleHoldNothing
        <4> QED
          BY <3>1, <4>2 DEF CommitThrows, TypeOK
      <3>2. CASE ~CommitThrows(f, t)
        BY <1>5, <3>2 DEF Flushing, OpenFlush, FlushTooLate, CommitFlush, FailFlush
      <3> QED
        BY <3>1, <3>2
    <2> QED
      BY <2>1, <2>2 DEF FlushedLeft
  <1>6. CASE FlushLoopBack \/ FlushLoopExit \/ Close \/ UNCHANGED vars
    BY <1>6 DEF FlushLoopBack, FlushLoopExit, Close, vars, FlushedLeft
  <1>7. ASSUME NEW t \in Targets, Age(t)
        PROVE  FlushedLeft'
    BY <1>7 DEF Age, FlushedLeft
  <1>8. ASSUME NEW c \in Callers, FlushAllReturns(c)
        PROVE  FlushedLeft'
    BY <1>8 DEF FlushAllReturns, FlushedLeft, TypeOK
  <1> QED
    BY <1>1, <1>3, <1>4, <1>5, <1>6, <1>7, <1>8, NextCases

\* After raw_flush() nothing acknowledged before it waits in a buffer, also when
\* a commit threw and whatever was sent meanwhile.
THEOREM FlushesEmptyBuffers == Spec => []FlushEmptiesBuffers
  <1>1. Init => OpenHasJob /\ FlushedLeft
    BY DEF Init, OpenHasJob, FlushedLeft
  <1>2. FlushedLeft => FlushEmptiesBuffers
    BY DEF FlushedLeft, FlushEmptiesBuffers, Buffered
  <1> QED
    BY <1>1, <1>2, OpenStep, FlushedStep, AsyncTypeCorrect, PlaceInvariant, PTL DEF Spec
================================================================================
