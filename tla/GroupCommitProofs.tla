--------------------------- MODULE GroupCommitProofs ---------------------------
(***************************************************************************)
(* Theorems about GroupCommit, for any finite set of requests, any         *)
(* spellings of targets and any faults: types, locks and connections       *)
(* first, then the requests, each in one queue or batch and committed at   *)
(* most once, and the refinement of AtomicIngest.                          *)
(***************************************************************************)
EXTENDS GroupCommit, QueueFacts, TLAPS

--------------------------------------------------------------------------------
(* Typing *)

\* The queue a lingering leader will take, and the batch it is publishing from,
\* are not empty: what Head is applied to.
HeadsExist ==
    \A r \in Requests :
      /\ pc[r] = "linger" => pending[target[r]] # <<>>
      /\ pc[r] = "fill" => batch[r] # <<>>

\* TypeOK is not inductive: the queue of a lingering leader is not empty because
\* it is the only leader of its spelling, and active stays a natural number
\* because it counts the threads inside.
TypeInv == TypeOK /\ ActiveCounts /\ OneLeaderPerTarget /\ HeadsExist

\* What a step of any request leaves alone.
Action(r) == Enter(r) \/ Wake(r) \/ Return(r) \/ LeaderStep(r)

\* The functions of the constants.
LEMMA ConstantsType ==
    /\ \A t \in Targets : Fold[t] \in Folded /\ TableOf[t] \in Tables
    /\ IsFiniteSet(Requests)
    /\ NoOne \notin Requests
    /\ \A t, u \in Targets : Fold[t] = Fold[u] => TableOf[t] = TableOf[u]
  BY GroupCommitAssumption DEF Folded, Tables

\* The head of a non-empty sequence is one of its elements' type.
LEMMA HeadType ==
    ASSUME NEW S, NEW q \in Seq(S), q # <<>>
    PROVE  Head(q) \in S /\ Tail(q) \in Seq(S) /\ Len(q) > 0
  OBVIOUS

\* Appending an element keeps a sequence's type and makes it non-empty.
LEMMA AppendType ==
    ASSUME NEW S, NEW q \in Seq(S), NEW e \in S
    PROVE  Append(q, e) \in Seq(S) /\ Append(q, e) # <<>>
  <1>1. Append(q, e) \in Seq(S) /\ Len(Append(q, e)) = Len(q) + 1 /\ Len(q) \in Nat
    OBVIOUS
  <1>2. Len(<<>>) = 0
    OBVIOUS
  <1> QED
    BY <1>1, <1>2

\* TakeBatch keeps the types of what it assigns.
LEMMA TakeBatchType ==
    ASSUME TypeOK, NEW r \in Requests, NEW q \in Seq(Requests), q # <<>>,
           TakeBatch(r, q)
    PROVE  /\ pending' \in [Targets -> Seq(Requests)]
           /\ batch' \in [Requests -> Seq(Requests)]
           /\ front' \in [Requests -> Requests]
           /\ ok' \in [Requests -> BOOLEAN]
           /\ tries' \in [Requests -> 1..2]
           /\ pc' \in [Requests -> PCs]
  <1>1. Head(q) \in Requests
    BY HeadType
  <1>2. pending' \in [Targets -> Seq(Requests)] /\ tries' \in [Requests -> 1..2]
    BY DEF TypeOK, TakeBatch
  <1>3. front' \in [Requests -> Requests] /\ batch' \in [Requests -> Seq(Requests)]
    BY <1>1 DEF TypeOK, TakeBatch
  <1>4. ok' \in [Requests -> BOOLEAN] /\ pc' \in [Requests -> PCs]
    BY DEF TypeOK, TakeBatch, PCs, LeaderPCs
  <1> QED
    BY <1>2, <1>3, <1>4

\* A thread inside is counted, so ActiveGuard never goes below zero.
LEMMA InsideCounted ==
    ASSUME TypeOK, ActiveCounts, NEW r \in Requests,
           pc[r] \notin {"idle", "answered", "wedged"}
    PROVE  active[target[r]] - 1 \in Nat
  <1> DEFINE S == Inside(target[r])
  <1>1. IsFiniteSet(S)
    BY ConstantsType, FS_Subset, S \subseteq Requests DEF Inside
  <1>2. r \in S
    BY DEF Inside
  <1>3. Cardinality(S) \in Nat /\ Cardinality(S) # 0
    BY <1>1, <1>2, FS_CardinalityType, FS_EmptySet
  <1>4. active[target[r]] = Cardinality(S)
    BY DEF TypeOK, ActiveCounts
  <1> QED
    BY <1>3, <1>4

\* Every step keeps the types.
LEMMA TypeStep ==
    ASSUME TypeInv, NEW r \in Requests, Action(r)
    PROVE  TypeOK'
  <1> USE DEF queueVars, itemVars, inputVars, batchVars, txnVars, dbVars
  <1>0. TypeOK /\ FoldFor(r) \in Folded /\ TableFor(r) \in Tables /\ target[r] \in Targets
    BY ConstantsType DEF TypeInv, TypeOK, FoldFor, TableFor
  <1>1. CASE Enter(r)
    <2> DEFINE q == Append(pending[target[r]], r)
    <2>1. q \in Seq(Requests) /\ q # <<>>
      <3>1. pending[target[r]] \in Seq(Requests)
        BY <1>0 DEF TypeOK
      <3> QED
        BY <3>1, AppendType
    <2>2. active' \in [Targets -> Nat] /\ item' \in [Requests -> {"new", "queued", "done", "filled"}]
      BY <1>0, <1>1 DEF TypeOK, Enter, CountIn
    <2>3. asleep' \subseteq Requests /\ committing' \subseteq Folded
      BY <1>0, <1>1 DEF TypeOK, Enter
    <2>4. /\ pending' \in [Targets -> Seq(Requests)]
          /\ batch' \in [Requests -> Seq(Requests)]
          /\ front' \in [Requests -> Requests]
          /\ ok' \in [Requests -> BOOLEAN]
          /\ tries' \in [Requests -> 1..2]
          /\ pc' \in [Requests -> PCs]
      <3>1. CASE TakeBatch(r, q)
        BY <1>0, <2>1, <3>1, TakeBatchType
      <3>2. CASE /\ pending' = [pending EXCEPT ![target[r]] = q]
                 /\ UNCHANGED <<batchVars, tries>>
                 /\ \/ pc' = [pc EXCEPT ![r] = "wait"]
                    \/ pc' = [pc EXCEPT ![r] = "linger"]
        <4>1. pending' \in [Targets -> Seq(Requests)]
          BY <1>0, <2>1, <3>2 DEF TypeOK
        <4>2. pc' \in [Requests -> PCs]
          BY <1>0, <3>2 DEF TypeOK, PCs, LeaderPCs
        <4> QED
          BY <1>0, <3>2, <4>1, <4>2 DEF TypeOK
      <3> QED
        BY <1>1, <3>1, <3>2 DEF Enter
    <2> QED
      BY <1>0, <1>1, <2>2, <2>3, <2>4 DEF TypeOK, Enter
  <1>2. CASE Wake(r)
    <2>1. pc' \in [Requests -> PCs] /\ asleep' \subseteq Requests
      <3>1. CASE pc' = [pc EXCEPT ![r] = "return"] /\ asleep' = asleep
        BY <1>0, <3>1 DEF TypeOK, PCs
      <3>2. CASE asleep' = asleep \union {r} /\ pc' = pc
        BY <1>0, <3>2 DEF TypeOK
      <3> QED
        BY <1>2, <3>1, <3>2 DEF Wake
    <2> QED
      BY <1>0, <1>2, <2>1 DEF TypeOK, Wake
  <1>3. CASE Return(r)
    <2>1. active' \in [Targets -> Nat]
      BY <1>0, <1>3, InsideCounted DEF TypeOK, TypeInv, Return
    <2>2. ack' \in [Requests -> Answers \union {"none"}]
      <3>1. Readable(r) \subseteq Answers
        BY DEF Readable, Answers
      <3> QED
        BY <1>0, <1>3, <3>1 DEF TypeOK, Return
    <2> QED
      BY <1>0, <1>3, <2>1, <2>2 DEF TypeOK, Return, PCs
  <1>4. CASE LingerFull(r) \/ LingerTimeout(r)
    <2>1. pending[target[r]] \in Seq(Requests) /\ pending[target[r]] # <<>>
      BY <1>0, <1>4 DEF TypeOK, TypeInv, HeadsExist, LingerFull, LingerTimeout
    <2>2. TakeBatch(r, pending[target[r]])
      BY <1>4 DEF LingerFull, LingerTimeout
    <2>3. UNCHANGED <<committing, active, asleep, itemVars, inputVars, txn, known,
                      creation_lock, dbVars>>
      BY <1>4 DEF LingerFull, LingerTimeout
    <2> QED
      BY <1>0, <2>1, <2>2, <2>3, TakeBatchType DEF TypeOK
  <1>5. CASE Serialize(r)
    BY <1>0, <1>5 DEF TypeOK, Serialize, PCs, LeaderPCs
  <1>6. CASE LockCreation(r)
    BY <1>0, <1>6 DEF TypeOK, LockCreation, PCs, LeaderPCs
  <1>7. CASE AttemptSucceeds(r)
    BY <1>0, <1>7 DEF TypeOK, AttemptSucceeds, PCs, LeaderPCs
  <1>8. CASE AttemptConflicts(r)
    <2>1. CASE tries' = [tries EXCEPT ![r] = 2] /\ UNCHANGED <<pc, txn, ok, creation_lock>>
      BY <1>0, <1>8, <2>1 DEF TypeOK, AttemptConflicts
    <2>2. CASE /\ txn' = [txn EXCEPT ![r] = "open"]
               /\ ok' = [ok EXCEPT ![r] = FALSE]
               /\ pc' = [pc EXCEPT ![r] = "rollback"]
               /\ ReleaseCreation(r)
               /\ UNCHANGED tries
      BY <1>0, <1>8, <2>2 DEF TypeOK, AttemptConflicts, ReleaseCreation, PCs, LeaderPCs
    <2> QED
      BY <1>8, <2>1, <2>2 DEF AttemptConflicts
  <1>9. CASE AttemptErrors(r)
    <2>1. /\ ok' = [ok EXCEPT ![r] = FALSE]
          /\ pc' = [pc EXCEPT ![r] = "rollback"]
          /\ \/ txn' = [txn EXCEPT ![r] = "open"]
             \/ txn' = [txn EXCEPT ![r] = "creating"]
      BY <1>9 DEF AttemptErrors
    <2>2. /\ ok' \in [Requests -> BOOLEAN]
          /\ pc' \in [Requests -> PCs]
          /\ txn' \in [Requests -> {"none", "open", "creating"}]
      BY <1>0, <2>1 DEF TypeOK, PCs, LeaderPCs
    <2>3. creation_lock' \in Requests \union {NoOne}
      BY <1>0, <1>9 DEF TypeOK, AttemptErrors, ReleaseCreation
    <2>4. UNCHANGED <<queueVars, itemVars, inputVars, batch, front, tries, known, dbVars>>
      BY <1>9 DEF AttemptErrors
    <2> QED
      BY <1>0, <2>2, <2>3, <2>4 DEF TypeOK, queueVars, itemVars, inputVars, dbVars
  <1>10. CASE CommitSucceeds(r)
    BY <1>0, <1>10 DEF TypeOK, CommitSucceeds, PCs, LeaderPCs
  <1>11. CASE CommitFails(r)
    BY <1>0, <1>11 DEF TypeOK, CommitFails, ReleaseCreation, PCs, LeaderPCs
  <1>12. CASE MarkKnown(r)
    BY <1>0, <1>12 DEF TypeOK, MarkKnown, ReleaseCreation, PCs, LeaderPCs
  <1>13. CASE RollbackBatch(r)
    BY <1>0, <1>13 DEF TypeOK, RollbackBatch, PCs, LeaderPCs
  <1>14. CASE EscapeLeader(r)
    <2>1. active' \in [Targets -> Nat]
      BY <1>0, <1>14, InsideCounted DEF TypeOK, TypeInv, EscapeLeader
    <2> QED
      BY <1>0, <1>14, <2>1 DEF TypeOK, EscapeLeader, PCs, LeaderPCs, Answers
  <1>15. CASE MarkDone(r)
    <2>1. Head(batch[r]) \in Requests
      BY <1>0, <1>15, HeadType DEF TypeOK, MarkDone
    <2> QED
      BY <1>0, <1>15, <2>1 DEF TypeOK, MarkDone, PCs, LeaderPCs
  <1>16. CASE FillResult(r)
    <2>1. Head(batch[r]) \in Requests /\ Tail(batch[r]) \in Seq(Requests)
      BY <1>0, <1>16, HeadType DEF TypeOK, TypeInv, HeadsExist, FillResult
    <2> QED
      BY <1>0, <1>16, <2>1 DEF TypeOK, FillResult, PCs, LeaderPCs
  <1>17. CASE NextRound(r)
    <2>1. CASE /\ pending[target[r]] # <<>>
               /\ TakeBatch(r, pending[target[r]])
               /\ UNCHANGED committing
      BY <1>0, <1>17, <2>1, TakeBatchType DEF TypeOK, NextRound
    <2>2. CASE /\ committing' = committing \ {FoldFor(r)}
               /\ pc' = [pc EXCEPT ![r] = "return"]
               /\ UNCHANGED <<pending, batchVars, tries>>
      BY <1>0, <1>17, <2>2 DEF TypeOK, NextRound, PCs
    <2> QED
      BY <1>17, <2>1, <2>2 DEF NextRound
  <1> QED
    BY <1>1, <1>2, <1>3, <1>4, <1>5, <1>6, <1>7, <1>8, <1>9, <1>10, <1>11, <1>12,
       <1>13, <1>14, <1>15, <1>16, <1>17 DEF Action, LeaderStep

--------------------------------------------------------------------------------
(* Leaders *)

\* A request's step moves no other request and re-addresses none.
LEMMA OthersStay ==
    ASSUME TypeOK, NEW r \in Requests, Action(r)
    PROVE  /\ target' = target
           /\ keys' = keys
           /\ \A s \in Requests : s # r => pc'[s] = pc[s]
  <1> USE DEF queueVars, itemVars, inputVars, batchVars, txnVars, dbVars, TypeOK
  <1>1. CASE Enter(r)
    <2>1. \E p \in PCs : pc' = [pc EXCEPT ![r] = p]
      BY <1>1 DEF Enter, TakeBatch, PCs, LeaderPCs
    <2> QED
      BY <1>1, <2>1 DEF Enter
  <1>2. CASE Wake(r)
    BY <1>2 DEF Wake
  <1>3. CASE Return(r)
    BY <1>3 DEF Return
  <1>4. CASE LingerFull(r) \/ LingerTimeout(r)
    BY <1>4 DEF LingerFull, LingerTimeout, TakeBatch
  <1>5. CASE Serialize(r) \/ LockCreation(r) \/ AttemptSucceeds(r) \/ AttemptErrors(r)
    BY <1>5 DEF Serialize, LockCreation, AttemptSucceeds, AttemptErrors
  <1>6. CASE AttemptConflicts(r)
    BY <1>6 DEF AttemptConflicts
  <1>7. CASE CommitSucceeds(r) \/ CommitFails(r) \/ MarkKnown(r)
    BY <1>7 DEF CommitSucceeds, CommitFails, MarkKnown
  <1>8. CASE RollbackBatch(r) \/ EscapeLeader(r) \/ MarkDone(r) \/ FillResult(r)
    BY <1>8 DEF RollbackBatch, EscapeLeader, MarkDone, FillResult
  <1>9. CASE NextRound(r)
    BY <1>9 DEF NextRound, TakeBatch
  <1> QED
    BY <1>1, <1>2, <1>3, <1>4, <1>5, <1>6, <1>7, <1>8, <1>9 DEF Action, LeaderStep

\* committing changes exactly when leadership does.
LEMMA Leadership ==
    ASSUME TypeOK, NEW r \in Requests, Action(r)
    PROVE  \/ committing' = committing /\ (pc'[r] \in LeaderPCs <=> pc[r] \in LeaderPCs)
           \/ /\ ~Led(target[r])
              /\ pc[r] \notin LeaderPCs /\ pc'[r] \in LeaderPCs
              /\ committing' = committing \union {FoldFor(r)}
           \/ /\ pc[r] \in LeaderPCs /\ pc'[r] \notin LeaderPCs
              /\ committing' = committing \ {FoldFor(r)}
  <1> USE DEF queueVars, itemVars, inputVars, batchVars, txnVars, dbVars, LeaderPCs
  <1>0. pc \in [Requests -> PCs]
    BY DEF TypeOK
  <1>1. CASE Enter(r)
    BY <1>0, <1>1 DEF Enter, TakeBatch
  <1>2. CASE Wake(r)
    BY <1>0, <1>2 DEF Wake
  <1>3. CASE Return(r)
    BY <1>0, <1>3 DEF Return
  <1>4. CASE LingerFull(r) \/ LingerTimeout(r)
    BY <1>0, <1>4 DEF LingerFull, LingerTimeout, TakeBatch
  <1>5. CASE Serialize(r) \/ LockCreation(r) \/ AttemptSucceeds(r) \/ AttemptErrors(r)
    BY <1>0, <1>5 DEF Serialize, LockCreation, AttemptSucceeds, AttemptErrors
  <1>6. CASE AttemptConflicts(r)
    BY <1>0, <1>6 DEF AttemptConflicts
  <1>7. CASE CommitSucceeds(r) \/ CommitFails(r) \/ MarkKnown(r)
    BY <1>0, <1>7 DEF CommitSucceeds, CommitFails, MarkKnown
  <1>8. CASE RollbackBatch(r) \/ EscapeLeader(r) \/ MarkDone(r) \/ FillResult(r)
    BY <1>0, <1>8 DEF RollbackBatch, EscapeLeader, MarkDone, FillResult
  <1>9. CASE NextRound(r)
    BY <1>0, <1>9 DEF NextRound, TakeBatch
  <1> QED
    BY <1>1, <1>2, <1>3, <1>4, <1>5, <1>6, <1>7, <1>8, <1>9 DEF Action, LeaderStep

\* Every step keeps committing in step with the leaders, and them apart.
LEMMA OneLeaderStep ==
    ASSUME TypeInv, NEW r \in Requests, Action(r)
    PROVE  OneLeaderPerTarget'
  <1> USE DEF IsLeader, FoldFor
  <1>1. TypeOK /\ OneLeaderPerTarget
    BY DEF TypeInv
  <1>2. target' = target /\ \A s \in Requests : s # r => pc'[s] = pc[s]
    BY <1>1, OthersStay
  <1>3. CASE committing' = committing /\ (pc'[r] \in LeaderPCs <=> pc[r] \in LeaderPCs)
    <2>1. \A s \in Requests : pc'[s] \in LeaderPCs <=> pc[s] \in LeaderPCs
      BY <1>2, <1>3
    <2> QED
      BY <1>1, <1>2, <1>3, <2>1 DEF OneLeaderPerTarget
  <1>4. CASE /\ ~Led(target[r])
             /\ pc[r] \notin LeaderPCs /\ pc'[r] \in LeaderPCs
             /\ committing' = committing \union {FoldFor(r)}
    <2>1. \A s \in Requests : pc[s] \in LeaderPCs => Fold[target[s]] # Fold[target[r]]
      BY <1>1, <1>4 DEF OneLeaderPerTarget, Led
    <2> QED
      BY <1>1, <1>2, <1>4, <2>1 DEF OneLeaderPerTarget
  <1>5. CASE /\ pc[r] \in LeaderPCs /\ pc'[r] \notin LeaderPCs
             /\ committing' = committing \ {FoldFor(r)}
    <2>1. \A s \in Requests : pc[s] \in LeaderPCs /\ s # r => Fold[target[s]] # Fold[target[r]]
      BY <1>1, <1>5 DEF OneLeaderPerTarget
    <2> QED
      BY <1>1, <1>2, <1>5, <2>1 DEF OneLeaderPerTarget
  <1> QED
    BY <1>1, <1>3, <1>4, <1>5, Leadership

--------------------------------------------------------------------------------
(* The count of the threads inside *)

\* active changes exactly when a thread enters or leaves.
LEMMA Counting ==
    ASSUME TypeOK, NEW r \in Requests, Action(r)
    PROVE  LET out == {"idle", "answered", "wedged"}
           IN \/ active' = active /\ (pc'[r] \in out <=> pc[r] \in out)
              \/ /\ pc[r] \in out /\ pc'[r] \notin out
                 /\ active' = [active EXCEPT ![target[r]] = @ + 1]
              \/ /\ pc[r] \notin out /\ pc'[r] \in out
                 /\ active' = [active EXCEPT ![target[r]] = @ - 1]
  <1> USE DEF queueVars, itemVars, inputVars, batchVars, txnVars, dbVars
  <1>0. pc \in [Requests -> PCs]
    BY DEF TypeOK
  <1>1. CASE Enter(r)
    BY <1>0, <1>1 DEF Enter, TakeBatch, CountIn
  <1>2. CASE Wake(r)
    BY <1>0, <1>2 DEF Wake
  <1>3. CASE Return(r)
    BY <1>0, <1>3 DEF Return
  <1>4. CASE LingerFull(r) \/ LingerTimeout(r)
    BY <1>0, <1>4 DEF LingerFull, LingerTimeout, TakeBatch
  <1>5. CASE Serialize(r) \/ LockCreation(r) \/ AttemptSucceeds(r) \/ AttemptErrors(r)
    BY <1>0, <1>5 DEF Serialize, LockCreation, AttemptSucceeds, AttemptErrors
  <1>6. CASE AttemptConflicts(r)
    BY <1>0, <1>6 DEF AttemptConflicts
  <1>7. CASE CommitSucceeds(r) \/ CommitFails(r) \/ MarkKnown(r)
    BY <1>0, <1>7 DEF CommitSucceeds, CommitFails, MarkKnown
  <1>8. CASE RollbackBatch(r) \/ EscapeLeader(r) \/ MarkDone(r) \/ FillResult(r)
    BY <1>0, <1>8 DEF RollbackBatch, EscapeLeader, MarkDone, FillResult
  <1>9. CASE NextRound(r)
    BY <1>0, <1>9 DEF NextRound, TakeBatch
  <1> QED
    BY <1>1, <1>2, <1>3, <1>4, <1>5, <1>6, <1>7, <1>8, <1>9 DEF Action, LeaderStep

\* Every step keeps the count exact.
LEMMA CountStep ==
    ASSUME TypeInv, NEW r \in Requests, Action(r)
    PROVE  ActiveCounts'
  <1>1. TypeOK /\ ActiveCounts
    BY DEF TypeInv
  <1>2. target' = target /\ \A s \in Requests : s # r => pc'[s] = pc[s]
    BY <1>1, OthersStay
  <1> DEFINE out == {"idle", "answered", "wedged"}
  <1> SUFFICES ASSUME NEW t \in Targets
               PROVE  active'[t] = Cardinality(Inside(t)')
    BY DEF ActiveCounts
  <1>3. active[t] = Cardinality(Inside(t)) /\ active \in [Targets -> Nat]
    BY <1>1 DEF ActiveCounts, TypeOK
  <1>4. IsFiniteSet(Inside(t))
    BY ConstantsType, FS_Subset, Inside(t) \subseteq Requests DEF Inside
  <1>5. CASE active' = active /\ (pc'[r] \in out <=> pc[r] \in out)
    <2>1. Inside(t)' = Inside(t)
      BY <1>2, <1>5 DEF Inside
    <2> QED
      BY <1>3, <1>5, <2>1
  <1>6. CASE /\ pc[r] \in out /\ pc'[r] \notin out
             /\ active' = [active EXCEPT ![target[r]] = @ + 1]
    <2>1. CASE t = target[r]
      <3>1. Inside(t)' = Inside(t) \union {r} /\ r \notin Inside(t)
        BY <1>2, <1>6, <2>1 DEF Inside
      <3>2. Cardinality(Inside(t)') = Cardinality(Inside(t)) + 1
        BY <1>4, <3>1, FS_AddElement
      <3> QED
        BY <1>3, <1>6, <2>1, <3>2
    <2>2. CASE t # target[r]
      <3>1. Inside(t)' = Inside(t)
        BY <1>2, <1>6, <2>2 DEF Inside
      <3> QED
        BY <1>3, <1>6, <2>2, <3>1
    <2> QED
      BY <2>1, <2>2
  <1>7. CASE /\ pc[r] \notin out /\ pc'[r] \in out
             /\ active' = [active EXCEPT ![target[r]] = @ - 1]
    <2>1. CASE t = target[r]
      <3>1. Inside(t)' = Inside(t) \ {r} /\ r \in Inside(t)
        BY <1>2, <1>7, <2>1 DEF Inside
      <3>2. Cardinality(Inside(t)') = Cardinality(Inside(t)) - 1
        BY <1>4, <3>1, FS_RemoveElement
      <3> QED
        BY <1>3, <1>7, <2>1, <3>2
    <2>2. CASE t # target[r]
      <3>1. Inside(t)' = Inside(t)
        BY <1>2, <1>7, <2>2 DEF Inside
      <3> QED
        BY <1>3, <1>7, <2>2, <3>1
    <2> QED
      BY <2>1, <2>2
  <1> QED
    BY <1>1, <1>5, <1>6, <1>7, Counting

--------------------------------------------------------------------------------
(* The type invariant *)

\* What the queues and batches may become in a step of r: another spelling's
\* queue and another leader's batch stay, r's own queue grows by r, or r takes
\* it as a leader.
LEMMA QueueStep ==
    ASSUME TypeInv, NEW r \in Requests, Action(r)
    PROVE  /\ \A t \in Targets : t # target[r] => pending'[t] = pending[t]
           /\ \A s \in Requests : s # r => batch'[s] = batch[s]
           /\ \/ pending' = pending /\ pc'[r] # "linger"
              \/ pending'[target[r]] = Append(pending[target[r]], r)
              \/ /\ \A s \in Requests \ {r} : pc[s] = "linger" => target[s] # target[r]
                 /\ pc'[r] # "linger"
           /\ pc'[r] = "fill" => batch'[r] # <<>>
  <1> USE DEF queueVars, itemVars, inputVars, batchVars, txnVars, dbVars
  <1>0. /\ pc \in [Requests -> PCs]
        /\ pending \in [Targets -> Seq(Requests)]
        /\ batch \in [Requests -> Seq(Requests)]
        /\ target \in [Requests -> Targets]
    BY DEF TypeInv, TypeOK
  <1>a. ~Led(target[r]) \/ pc[r] \in LeaderPCs
           => \A s \in Requests \ {r} : pc[s] = "linger" => target[s] # target[r]
    BY DEF TypeInv, OneLeaderPerTarget, IsLeader, FoldFor, Led, LeaderPCs
  <1>1. CASE Enter(r)
    <2>1. CASE TakeBatch(r, Append(pending[target[r]], r)) /\ ~Led(target[r])
      BY <1>0, <1>a, <2>1 DEF TakeBatch
    <2>2. CASE /\ pending' = [pending EXCEPT ![target[r]] = Append(pending[target[r]], r)]
               /\ UNCHANGED batch
               /\ \/ pc' = [pc EXCEPT ![r] = "wait"]
                  \/ pc' = [pc EXCEPT ![r] = "linger"]
      BY <1>0, <2>2
    <2> QED
      BY <1>1, <2>1, <2>2 DEF Enter
  <1>2. CASE Wake(r)
    BY <1>0, <1>2 DEF Wake
  <1>3. CASE Return(r)
    BY <1>0, <1>3 DEF Return
  <1>4. CASE LingerFull(r) \/ LingerTimeout(r)
    BY <1>0, <1>4, <1>a DEF LingerFull, LingerTimeout, TakeBatch, LeaderPCs
  <1>5. CASE Serialize(r) \/ LockCreation(r) \/ AttemptSucceeds(r) \/ AttemptErrors(r)
    BY <1>0, <1>5 DEF Serialize, LockCreation, AttemptSucceeds, AttemptErrors
  <1>6. CASE AttemptConflicts(r)
    BY <1>0, <1>6 DEF AttemptConflicts
  <1>7. CASE CommitSucceeds(r) \/ CommitFails(r) \/ MarkKnown(r)
    BY <1>0, <1>7 DEF CommitSucceeds, CommitFails, MarkKnown
  <1>8. CASE RollbackBatch(r) \/ EscapeLeader(r) \/ MarkDone(r) \/ FillResult(r)
    BY <1>0, <1>8 DEF RollbackBatch, EscapeLeader, MarkDone, FillResult
  <1>9. CASE NextRound(r)
    <2>1. CASE TakeBatch(r, pending[target[r]])
      BY <1>0, <1>9, <1>a, <2>1 DEF NextRound, TakeBatch, LeaderPCs
    <2>2. CASE pc' = [pc EXCEPT ![r] = "return"] /\ UNCHANGED <<pending, batch>>
      BY <1>0, <2>2
    <2> QED
      BY <1>9, <2>1, <2>2 DEF NextRound
  <1> QED
    BY <1>1, <1>2, <1>3, <1>4, <1>5, <1>6, <1>7, <1>8, <1>9 DEF Action, LeaderStep

\* Every step keeps the sequences that Head is applied to non-empty.
LEMMA HeadsStep ==
    ASSUME TypeInv, NEW r \in Requests, Action(r)
    PROVE  HeadsExist'
  <1>1. TypeOK /\ HeadsExist
    BY DEF TypeInv
  <1>2. target' = target /\ \A s \in Requests : s # r => pc'[s] = pc[s]
    BY <1>1, OthersStay
  <1>3. target \in [Requests -> Targets] /\ pending[target[r]] \in Seq(Requests)
    BY <1>1 DEF TypeOK
  <1>4. Append(pending[target[r]], r) # <<>>
    BY <1>3, AppendType
  <1> SUFFICES ASSUME NEW s \in Requests
               PROVE  /\ pc'[s] = "linger" => pending'[target[s]] # <<>>
                      /\ pc'[s] = "fill" => batch'[s] # <<>>
    BY <1>2 DEF HeadsExist
  <1>5. pc'[s] = "fill" => batch'[s] # <<>>
    BY <1>1, <1>2, QueueStep DEF HeadsExist
  <1>6. ASSUME pc'[s] = "linger"
        PROVE  pending'[target[s]] # <<>>
    <2>1. CASE s = r
      BY <1>4, <1>6, <2>1, QueueStep, <1>3, <1>1 DEF HeadsExist
    <2>2. CASE s # r
      <3>1. pc[s] = "linger" /\ pending[target[s]] # <<>>
        BY <1>1, <1>2, <1>6, <2>2 DEF HeadsExist
      <3>2. CASE target[s] # target[r]
        BY <1>3, <3>1, <3>2, QueueStep
      <3>3. CASE target[s] = target[r]
        BY <1>4, <2>2, <3>1, <3>3, QueueStep
      <3> QED
        BY <3>2, <3>3
    <2> QED
      BY <2>1, <2>2
  <1> QED
    BY <1>5, <1>6

\* The initial states are typed and nobody is inside or leads.
LEMMA TypeInit == Init => TypeInv
  <1> SUFFICES ASSUME Init
               PROVE  TypeInv
    OBVIOUS
  <1>1. TypeOK
    BY GroupCommitAssumption DEF Init, TypeOK, PCs, Answers
  <1>2. ActiveCounts
    <2>1. \A t \in Targets : Inside(t) = {}
      BY DEF Init, Inside
    <2> QED
      BY <2>1, FS_EmptySet DEF Init, ActiveCounts
  <1>3. OneLeaderPerTarget
    BY DEF Init, OneLeaderPerTarget, IsLeader, LeaderPCs
  <1>4. HeadsExist
    BY DEF Init, HeadsExist
  <1> QED
    BY <1>1, <1>2, <1>3, <1>4 DEF TypeInv

\* A step that changes nothing keeps the invariant.
LEMMA TypeStutter ==
    ASSUME TypeInv, UNCHANGED vars
    PROVE  TypeInv'
  <1> USE DEF vars, queueVars, itemVars, inputVars, batchVars, txnVars, dbVars
  <1>1. TypeOK'
    BY DEF TypeInv, TypeOK
  <1>2. ActiveCounts'
    BY DEF TypeInv, ActiveCounts, Inside
  <1>3. OneLeaderPerTarget'
    BY DEF TypeInv, OneLeaderPerTarget, IsLeader, FoldFor
  <1>4. HeadsExist'
    BY DEF TypeInv, HeadsExist
  <1> QED
    BY <1>1, <1>2, <1>3, <1>4 DEF TypeInv

\* Every step of the coordinator keeps the inductive invariant.
LEMMA TypeInvStep == TypeInv /\ [Next]_vars => TypeInv'
  <1> SUFFICES ASSUME TypeInv, [Next]_vars
               PROVE  TypeInv'
    OBVIOUS
  <1>1. ASSUME NEW r \in Requests, Action(r)
        PROVE  TypeInv'
    BY <1>1, TypeStep, CountStep, OneLeaderStep, HeadsStep DEF TypeInv
  <1>2. CASE UNCHANGED vars
    BY <1>2, TypeStutter
  <1> QED
    BY <1>1, <1>2 DEF Next, Action

\* The inductive invariant holds throughout RawIngestGroupCommit.
THEOREM TypeInvariant == Spec => []TypeInv
  <1> QED
    BY TypeInit, TypeInvStep, PTL DEF Spec

\* The types of the coordinator's state are kept by every interleaving: no
\* handler subtracts from a zero count or takes the front of an empty queue.
THEOREM TypeCorrect == Spec => []TypeOK
  <1>1. TypeInv => TypeOK
    BY DEF TypeInv
  <1> QED
    BY <1>1, TypeInvariant, PTL

\* committing is exactly the set of led targets and no target, however it is
\* spelled, has two leaders at once.
THEOREM LeadersApart == Spec => []OneLeaderPerTarget
  <1>1. TypeInv => OneLeaderPerTarget
    BY DEF TypeInv
  <1> QED
    BY <1>1, TypeInvariant, PTL

\* active is the number of threads inside for every number of requests,
\* exceptions that unwind a leader included.
THEOREM CountExact == Spec => []ActiveCounts
  <1>1. TypeInv => ActiveCounts
    BY DEF TypeInv
  <1> QED
    BY <1>1, TypeInvariant, PTL

--------------------------------------------------------------------------------
(* Transactions and the creation lock *)

\* known_to_exist never runs ahead of the committed catalog.
KnownExists ==
    \A r \in Requests :
      (FoldFor(r) \in known \/ pc[r] = "mark") => TableFor(r) \in exists

\* Past the creation lock, a request holds it or does not need it.
LockPassed ==
    \A r \in Requests :
      pc[r] = "attempt" => creation_lock = r \/ FoldFor(r) \in known

\* CreatorHoldsLock is not inductive: the request that creates the table has
\* passed the lock, and had it not kept the lock the table would be known and
\* so would exist.
LockInv == ConnectionsClean /\ KnownExists /\ LockPassed /\ CreatorHoldsLock

\* The steps outside RawIngestSerialized touch no transaction, no lock and no
\* catalog, and enter it only at its start.
LEMMA OutsideSerialized ==
    ASSUME TypeOK, NEW r \in Requests,
           \/ Enter(r) \/ Wake(r) \/ Return(r) \/ LingerFull(r) \/ LingerTimeout(r)
           \/ Serialize(r) \/ EscapeLeader(r) \/ MarkDone(r) \/ FillResult(r) \/ NextRound(r)
    PROVE  /\ UNCHANGED <<txn, known, creation_lock, exists>>
           /\ pc'[r] \notin {"commit", "rollback", "mark"}
           /\ pc'[r] = "attempt" => FoldFor(r) \in known
           /\ pc[r] \notin {"commit"} /\ (pc[r] = "rollback" => txn[r] = "none")
  <1> USE DEF queueVars, itemVars, inputVars, batchVars, txnVars, dbVars
  <1>0. pc \in [Requests -> PCs]
    BY DEF TypeOK
  <1>1. CASE Enter(r)
    BY <1>0, <1>1 DEF Enter, TakeBatch
  <1>2. CASE Wake(r)
    BY <1>0, <1>2 DEF Wake
  <1>3. CASE Return(r)
    BY <1>0, <1>3 DEF Return
  <1>4. CASE LingerFull(r) \/ LingerTimeout(r)
    BY <1>0, <1>4 DEF LingerFull, LingerTimeout, TakeBatch
  <1>5. CASE Serialize(r)
    BY <1>0, <1>5 DEF Serialize
  <1>6. CASE EscapeLeader(r) \/ MarkDone(r) \/ FillResult(r)
    BY <1>0, <1>6 DEF EscapeLeader, MarkDone, FillResult
  <1>7. CASE NextRound(r)
    BY <1>0, <1>7 DEF NextRound, TakeBatch
  <1> QED
    BY <1>1, <1>2, <1>3, <1>4, <1>5, <1>6, <1>7

\* Every step keeps the lock invariant.
LEMMA LockStep ==
    ASSUME TypeOK, LockInv, NEW r \in Requests, Action(r)
    PROVE  LockInv'
  <1> USE DEF queueVars, itemVars, inputVars, batchVars, txnVars, dbVars, FoldFor, TableFor,
              LockInv, ConnectionsClean, KnownExists, LockPassed, CreatorHoldsLock
  <1>0. /\ pc \in [Requests -> PCs]
        /\ txn \in [Requests -> {"none", "open", "creating"}]
        /\ target \in [Requests -> Targets]
    BY DEF TypeOK
  <1>a. target' = target /\ \A s \in Requests : s # r => pc'[s] = pc[s]
    BY OthersStay
  <1>b. NoOne \notin Requests /\ \A t, u \in Targets : Fold[t] = Fold[u] => TableOf[t] = TableOf[u]
    BY ConstantsType
  <1>1. CASE \/ Enter(r) \/ Wake(r) \/ Return(r) \/ LingerFull(r) \/ LingerTimeout(r)
             \/ Serialize(r) \/ EscapeLeader(r) \/ MarkDone(r) \/ FillResult(r) \/ NextRound(r)
    <2>1. /\ UNCHANGED <<txn, known, creation_lock, exists>>
          /\ pc'[r] \notin {"commit", "rollback", "mark"}
          /\ pc'[r] = "attempt" => FoldFor(r) \in known
          /\ pc[r] \notin {"commit"} /\ (pc[r] = "rollback" => txn[r] = "none")
      BY <1>1, OutsideSerialized
    <2> QED
      BY <1>0, <1>a, <2>1
  <1>2. CASE LockCreation(r)
    BY <1>0, <1>a, <1>b, <1>2 DEF LockCreation
  <1>3. CASE AttemptSucceeds(r)
    BY <1>0, <1>a, <1>3 DEF AttemptSucceeds
  <1>4. CASE AttemptConflicts(r)
    <2>1. CASE UNCHANGED <<pc, txn, ok, creation_lock>>
      BY <1>0, <1>a, <1>4, <2>1 DEF AttemptConflicts
    <2>2. CASE /\ txn' = [txn EXCEPT ![r] = "open"]
               /\ pc' = [pc EXCEPT ![r] = "rollback"]
               /\ ReleaseCreation(r)
      BY <1>0, <1>a, <1>b, <1>4, <2>2 DEF AttemptConflicts, ReleaseCreation
    <2> QED
      BY <1>4, <2>1, <2>2 DEF AttemptConflicts
  <1>5. CASE AttemptErrors(r)
    BY <1>0, <1>a, <1>b, <1>5 DEF AttemptErrors, ReleaseCreation
  <1>6. CASE CommitSucceeds(r)
    BY <1>0, <1>a, <1>6 DEF CommitSucceeds
  <1>7. CASE CommitFails(r)
    BY <1>0, <1>a, <1>b, <1>7 DEF CommitFails, ReleaseCreation
  <1>8. CASE MarkKnown(r)
    BY <1>0, <1>a, <1>b, <1>8 DEF MarkKnown, ReleaseCreation
  <1>9. CASE RollbackBatch(r)
    BY <1>0, <1>a, <1>9 DEF RollbackBatch
  <1> QED
    BY <1>1, <1>2, <1>3, <1>4, <1>5, <1>6, <1>7, <1>8, <1>9 DEF Action, LeaderStep

\* The lock invariant holds throughout RawIngestSerialized.
THEOREM LockInvariant == Spec => []LockInv
  <1>1. Init => LockInv
    BY DEF Init, LockInv, ConnectionsClean, KnownExists, LockPassed, CreatorHoldsLock
  <1>2. TypeOK /\ LockInv /\ [Next]_vars => LockInv'
    <2> SUFFICES ASSUME TypeOK, LockInv, [Next]_vars
                 PROVE  LockInv'
      OBVIOUS
    <2>1. ASSUME NEW r \in Requests, Action(r)
          PROVE  LockInv'
      BY <2>1, LockStep
    <2>2. CASE UNCHANGED vars
      BY <2>2 DEF LockInv, ConnectionsClean, KnownExists, LockPassed, CreatorHoldsLock,
                  FoldFor, TableFor, vars, queueVars, itemVars, inputVars, batchVars, txnVars, dbVars
    <2> QED
      BY <2>1, <2>2 DEF Next, Action
  <1> QED
    BY <1>1, <1>2, TypeCorrect, PTL DEF Spec

\* No handler begins within a transaction or leaves one open, whatever fails
\* and however the retry goes.
THEOREM ConnectionsStayClean == Spec => []ConnectionsClean
  <1>1. LockInv => ConnectionsClean
    BY DEF LockInv
  <1> QED
    BY <1>1, LockInvariant, PTL

\* A transaction about to commit the CREATE of a table holds the creation lock,
\* also when one table is reached under several names.
THEOREM CreatorsHoldLock == Spec => []CreatorHoldsLock
  <1>1. LockInv => CreatorHoldsLock
    BY DEF LockInv
  <1> QED
    BY <1>1, LockInvariant, PTL

--------------------------------------------------------------------------------
(* Queues and batches *)

\* A queue holds requests of its spelling that nobody has resolved.
QueuesHold ==
    \A t \in Targets : \A r \in Range(pending[t]) : target[r] = t /\ item[r] = "queued"

\* Who has a batch: a leader that no longer lingers.
BatchPCs == LeaderPCs \ {"linger"}

\* A batch holds requests of its leader's spelling that have left the queue; only
\* the one being published may be resolved.
BatchesHold ==
    \A l \in Requests : \A r \in Range(batch[l]) :
        /\ pc[l] \in BatchPCs
        /\ target[r] = target[l]
        /\ r \notin Range(pending[target[r]])
        /\ item[r] = "queued" \/ (item[r] = "done" /\ pc[l] = "fill" /\ r = Head(batch[l]))

\* What is queued is in one of them.
QueuedIsHeld ==
    \A r \in Requests : item[r] = "queued" =>
        r \in Range(pending[target[r]]) \/ HeldBy(r) # {}

NoRepeats ==
    /\ \A t \in Targets : IsInjective(pending[t])
    /\ \A l \in Requests : IsInjective(batch[l])

\* A request that has not entered is not queued.
EnteredOnce == \A r \in Requests : pc[r] = "idle" => item[r] = "new"

\* QueuedExactlyOnce is not inductive: that the queue a leader takes goes to nobody
\* else is because the batch it replaces is empty and its requests are queued.
PlaceInv == QueuesHold /\ BatchesHold /\ QueuedIsHeld /\ NoRepeats /\ EnteredOnce

\* Rows that are committed belong to a resolved request or to a batch that is
\* past its commit.
CommittedIsPast ==
    \A r \in Requests : commits[r] > 0 =>
        \/ item[r] \in {"done", "filled"}
        \/ \E l \in HeldBy(r) : pc[l] \in {"mark", "publish", "fill"}

CommitInv == AtMostOnce /\ CommittedIsPast

\* Nobody else has a batch of the spelling that r leads, or is about to lead.
LEMMA OnlyLeaderHasBatch ==
    ASSUME TypeInv, PlaceInv, NEW r \in Requests,
           ~Led(target[r]) \/ pc[r] \in LeaderPCs
    PROVE  \A s \in Requests \ {r} : target[s] = target[r] => Range(batch[s]) = {}
  BY DEF TypeInv, OneLeaderPerTarget, IsLeader, FoldFor, Led, PlaceInv, BatchesHold, BatchPCs

\* A leader takes the queue of its spelling, itself included if it just entered.
LEMMA TakeStep ==
    ASSUME TypeInv, PlaceInv, NEW r \in Requests, NEW q \in Seq(Requests),
           ~Led(target[r]) \/ pc[r] \in LeaderPCs,
           Range(batch[r]) = {},
           TakeBatch(r, q), target' = target, IsInjective(q),
           \/ item' = item /\ q = pending[target[r]]
           \/ /\ item[r] = "new" /\ item' = [item EXCEPT ![r] = "queued"]
              /\ Range(q) = Range(pending[target[r]]) \union {r}
    PROVE  PlaceInv'
  <1> DEFINE t0 == target[r]
  <1>1. /\ pc \in [Requests -> PCs] /\ batch \in [Requests -> Seq(Requests)]
        /\ pending \in [Targets -> Seq(Requests)] /\ target \in [Requests -> Targets]
        /\ item \in [Requests -> {"new", "queued", "done", "filled"}]
        /\ t0 \in Targets
    BY DEF TypeInv, TypeOK
  <1>2. /\ pending'[t0] = <<>> /\ \A t \in Targets \ {t0} : pending'[t] = pending[t]
        /\ batch'[r] = q /\ \A s \in Requests \ {r} : batch'[s] = batch[s]
        /\ pc'[r] = "serialize" /\ \A s \in Requests \ {r} : pc'[s] = pc[s]
    BY <1>1 DEF TakeBatch
  <1>3. \A s \in Requests \ {r} : target[s] = t0 => Range(batch[s]) = {}
    BY OnlyLeaderHasBatch
  <1>4. \A x \in Requests : x # r => item'[x] = item[x]
    BY <1>1
  <1>5. Range(q) \subseteq Requests
    BY DEF Range
  <1>6. \A x \in Range(q) : target[x] = t0 /\ item'[x] = "queued"
    BY <1>1, <1>5 DEF PlaceInv, QueuesHold
  <1>7. \A x \in Requests : item[x] = "queued" => item'[x] = "queued"
    BY <1>1
  <1>8. item[r] = item'[r] \/ (item[r] = "new" /\ r \in Range(q))
    BY <1>1
  <1>9. \A t \in Targets : Range(pending[t]) \subseteq Requests
    BY <1>1 DEF Range
  <1>10. \A l \in Requests : Range(batch[l]) \subseteq Requests
    BY <1>1 DEF Range
  <1>11. Range(pending[t0]) \subseteq Range(q)
    OBVIOUS
  <1>12. QueuesHold'
    <2> SUFFICES ASSUME NEW t \in Targets, NEW x \in Range(pending'[t])
                 PROVE  target[x] = t /\ item'[x] = "queued"
      BY DEF QueuesHold
    <2>1. t # t0
      BY <1>2, EmptyQueue
    <2> QED
      BY <1>2, <1>7, <1>9, <2>1 DEF PlaceInv, QueuesHold
  <1>13. BatchesHold'
    <2> SUFFICES ASSUME NEW l \in Requests, NEW x \in Range(batch'[l])
                 PROVE  /\ pc'[l] \in BatchPCs
                        /\ target[x] = target[l]
                        /\ x \notin Range(pending'[target[x]])
                        /\ \/ item'[x] = "queued"
                           \/ item'[x] = "done" /\ pc'[l] = "fill" /\ x = Head(batch'[l])
      BY DEF BatchesHold
    <2>1. CASE l = r
      BY <1>2, <1>6, <2>1, EmptyQueue DEF BatchPCs, LeaderPCs
    <2>2. CASE l # r
      <3>1. x \in Range(batch[l]) /\ target[l] # t0
        BY <1>2, <1>3, <2>2
      <3>2. /\ pc[l] \in BatchPCs /\ target[x] = target[l] /\ x \notin Range(pending[target[x]])
            /\ item[x] = "queued" \/ (item[x] = "done" /\ pc[l] = "fill" /\ x = Head(batch[l]))
        BY <3>1 DEF PlaceInv, BatchesHold
      <3>3. x \in Requests /\ x # r /\ target[l] \in Targets
        BY <1>1, <1>10, <3>1, <3>2
      <3> QED
        BY <1>2, <1>4, <2>2, <3>1, <3>2, <3>3
    <2> QED
      BY <2>1, <2>2
  <1>14. QueuedIsHeld'
    <2> SUFFICES ASSUME NEW x \in Requests, item'[x] = "queued"
                 PROVE  \/ x \in Range(pending'[target[x]])
                        \/ \E l \in Requests : x \in Range(batch'[l])
      BY DEF QueuedIsHeld, HeldBy
    <2>1. CASE x \in Range(q)
      BY <1>2, <2>1
    <2>2. CASE x \notin Range(q)
      <3>1. item[x] = "queued"
        BY <1>4, <1>8, <2>2
      <3>2. x \in Range(pending[target[x]]) \/ \E l \in Requests : x \in Range(batch[l])
        BY <3>1 DEF PlaceInv, QueuedIsHeld, HeldBy
      <3>3. CASE x \in Range(pending[target[x]])
        BY <1>1, <1>2, <1>11, <2>2, <3>3
      <3>4. CASE \E l \in Requests : x \in Range(batch[l])
        BY <1>2, <3>4
      <3> QED
        BY <3>2, <3>3, <3>4
    <2> QED
      BY <2>1, <2>2
  <1>15. NoRepeats'
    BY <1>1, <1>2, EmptyQueue DEF PlaceInv, NoRepeats
  <1>16. EnteredOnce'
    BY <1>2, <1>4 DEF PlaceInv, EnteredOnce
  <1> QED
    BY <1>12, <1>13, <1>14, <1>15, <1>16 DEF PlaceInv

\* A request joins its queue and leaves it to the leader, or lingers as one.
LEMMA JoinStep ==
    ASSUME TypeInv, PlaceInv, NEW r \in Requests, Enter(r),
           pending' = [pending EXCEPT ![target[r]] = Append(pending[target[r]], r)],
           UNCHANGED batch,
           pc'[r] \in {"wait", "linger"}
    PROVE  PlaceInv'
  <1> DEFINE t0 == target[r]
             q == Append(pending[t0], r)
  <1>1. /\ batch \in [Requests -> Seq(Requests)]
        /\ pending \in [Targets -> Seq(Requests)] /\ target \in [Requests -> Targets]
        /\ item \in [Requests -> {"new", "queued", "done", "filled"}]
        /\ t0 \in Targets
    BY DEF TypeInv, TypeOK
  <1>2. target' = target /\ \A s \in Requests \ {r} : pc'[s] = pc[s]
    BY OthersStay DEF Action, TypeInv
  <1>3. /\ pc[r] = "idle" /\ item[r] = "new" /\ item'[r] = "queued"
        /\ \A x \in Requests \ {r} : item'[x] = item[x]
    BY <1>1 DEF Enter, PlaceInv, EnteredOnce
  <1>4. /\ \A t \in Targets : Range(pending[t]) \subseteq Requests \ {r}
        /\ \A l \in Requests : Range(batch[l]) \subseteq Requests \ {r}
    <2>1. /\ \A t \in Targets : Range(pending[t]) \subseteq Requests
          /\ \A l \in Requests : Range(batch[l]) \subseteq Requests
      BY <1>1 DEF Range
    <2>2. /\ \A t \in Targets : r \notin Range(pending[t])
          /\ \A l \in Requests : r \notin Range(batch[l])
      BY <1>3 DEF PlaceInv, QueuesHold, BatchesHold
    <2> QED
      BY <2>1, <2>2
  <1>5. Range(q) = Range(pending[t0]) \union {r} /\ IsInjective(q)
    BY <1>1, <1>4, AppendedQueue DEF PlaceInv, NoRepeats
  <1>6. pending'[t0] = q /\ \A t \in Targets \ {t0} : pending'[t] = pending[t]
    BY <1>1
  <1> HIDE DEF q
  <1>7. Range(batch[r]) = {}
    BY <1>3 DEF PlaceInv, BatchesHold, BatchPCs, LeaderPCs
  <1>8. QueuesHold'
    <2> SUFFICES ASSUME NEW t \in Targets, NEW x \in Range(pending'[t])
                 PROVE  target[x] = t /\ item'[x] = "queued"
      BY <1>2 DEF QueuesHold
    <2>1. CASE x = r
      BY <1>3, <1>4, <1>6, <2>1
    <2>2. CASE x # r
      <3>1. x \in Range(pending[t])
        BY <1>5, <1>6, <2>2
      <3>2. x \in Requests
        BY <1>4, <3>1
      <3> QED
        BY <1>3, <2>2, <3>1, <3>2 DEF PlaceInv, QueuesHold
    <2> QED
      BY <2>1, <2>2
  <1>9. BatchesHold'
    <2> SUFFICES ASSUME NEW l \in Requests, NEW x \in Range(batch[l])
                 PROVE  /\ pc'[l] \in BatchPCs
                        /\ target[x] = target[l]
                        /\ x \notin Range(pending'[target[x]])
                        /\ \/ item'[x] = "queued"
                           \/ item'[x] = "done" /\ pc'[l] = "fill" /\ x = Head(batch[l])
      BY <1>2 DEF BatchesHold
    <2>1. l # r /\ x \in Requests /\ x # r
      BY <1>4, <1>7
    <2> QED
      <3>1. /\ pc[l] \in BatchPCs /\ target[x] = target[l] /\ x \notin Range(pending[target[x]])
            /\ item[x] = "queued" \/ (item[x] = "done" /\ pc[l] = "fill" /\ x = Head(batch[l]))
        BY DEF PlaceInv, BatchesHold
      <3>2. pc'[l] = pc[l] /\ item'[x] = item[x] /\ target[x] \in Targets
        BY <1>1, <1>2, <1>3, <2>1
      <3>3. x \notin Range(pending'[target[x]])
        BY <1>5, <1>6, <2>1, <3>1, <3>2
      <3> QED
        BY <3>1, <3>2, <3>3
  <1>10. QueuedIsHeld'
    <2> SUFFICES ASSUME NEW x \in Requests, item'[x] = "queued"
                 PROVE  \/ x \in Range(pending'[target[x]])
                        \/ \E l \in Requests : x \in Range(batch[l])
      BY <1>2 DEF QueuedIsHeld, HeldBy
    <2>1. CASE x = r
      BY <1>5, <1>6, <2>1
    <2>2. CASE x # r
      <3>1. x \in Range(pending[target[x]]) \/ \E l \in Requests : x \in Range(batch[l])
        BY <1>3, <2>2 DEF PlaceInv, QueuedIsHeld, HeldBy
      <3>2. target[x] \in Targets
        BY <1>1
      <3> QED
        BY <1>5, <1>6, <3>1, <3>2
    <2> QED
      BY <2>1, <2>2
  <1>11. NoRepeats'
    BY <1>1, <1>5, <1>6 DEF PlaceInv, NoRepeats
  <1>12. EnteredOnce'
    BY <1>2, <1>3 DEF PlaceInv, EnteredOnce
  <1> QED
    BY <1>8, <1>9, <1>10, <1>11, <1>12 DEF PlaceInv

\* The steps that touch neither queue, batch nor item.
LEMMA QuietStep ==
    ASSUME TypeInv, PlaceInv, NEW r \in Requests,
           UNCHANGED <<pending, batch, item, target>>,
           \A s \in Requests \ {r} : pc'[s] = pc[s],
           pc[r] # "fill", pc'[r] # "idle",
           pc'[r] \in BatchPCs \/ Range(batch[r]) = {}
    PROVE  PlaceInv'
  <1>1. QueuesHold' /\ QueuedIsHeld' /\ NoRepeats' /\ EnteredOnce'
    BY DEF PlaceInv, QueuesHold, QueuedIsHeld, HeldBy, NoRepeats, EnteredOnce
  <1>2. BatchesHold'
    BY DEF PlaceInv, BatchesHold
  <1> QED
    BY <1>1, <1>2 DEF PlaceInv

\* The leader marks the head of its batch.
LEMMA MarkStep ==
    ASSUME TypeInv, PlaceInv, NEW r \in Requests, MarkDone(r)
    PROVE  PlaceInv'
  <1> DEFINE h == Head(batch[r])
  <1>1. /\ pc \in [Requests -> PCs] /\ batch \in [Requests -> Seq(Requests)]
        /\ target \in [Requests -> Targets]
        /\ item \in [Requests -> {"new", "queued", "done", "filled"}]
    BY DEF TypeInv, TypeOK
  <1>2. h \in Range(batch[r]) /\ h \in Requests
    BY <1>1, HeadType, ShortenedQueue DEF MarkDone, PlaceInv, NoRepeats
  <1>3. /\ pc[r] = "publish" /\ pc'[r] = "fill" /\ \A s \in Requests \ {r} : pc'[s] = pc[s]
        /\ item'[h] = "done" /\ \A x \in Requests \ {h} : item'[x] = item[x]
        /\ UNCHANGED <<pending, batch, target>>
    BY <1>1, <1>2 DEF MarkDone, queueVars, batchVars, inputVars
  <1>4. target[h] = target[r] /\ h \notin Range(pending[target[h]]) /\ item[h] = "queued"
    BY <1>2, <1>3 DEF PlaceInv, BatchesHold
  <1>5. \A l \in Requests \ {r} : h \notin Range(batch[l])
    BY <1>2, <1>3, <1>4, OnlyLeaderHasBatch DEF LeaderPCs, PlaceInv, BatchesHold
  <1>6. \A t \in Targets : h \notin Range(pending[t]) /\ Range(pending[t]) \subseteq Requests
    <2>1. \A t \in Targets : Range(pending[t]) \subseteq Requests
      BY DEF TypeInv, TypeOK, Range
    <2> QED
      BY <1>4, <2>1 DEF PlaceInv, QueuesHold
  <1>7. \A l \in Requests : Range(batch[l]) \subseteq Requests
    BY <1>1 DEF Range
  <1> HIDE DEF h
  <1>8. QueuesHold'
    BY <1>3, <1>6 DEF PlaceInv, QueuesHold
  <1>9. BatchesHold'
    <2> SUFFICES ASSUME NEW l \in Requests, NEW x \in Range(batch[l])
                 PROVE  /\ pc'[l] \in BatchPCs
                        /\ target[x] = target[l]
                        /\ x \notin Range(pending[target[x]])
                        /\ \/ item'[x] = "queued"
                           \/ item'[x] = "done" /\ pc'[l] = "fill" /\ x = Head(batch[l])
      BY <1>3 DEF BatchesHold
    <2>1. /\ pc[l] \in BatchPCs /\ target[x] = target[l] /\ x \notin Range(pending[target[x]])
          /\ item[x] = "queued" \/ (item[x] = "done" /\ pc[l] = "fill" /\ x = Head(batch[l]))
      BY DEF PlaceInv, BatchesHold
    <2>2. x \in Requests
      BY <1>7
    <2>3. CASE l = r
      BY <1>3, <2>1, <2>2, <2>3 DEF BatchPCs, LeaderPCs, h
    <2>4. CASE l # r
      BY <1>3, <1>5, <2>1, <2>2, <2>4
    <2> QED
      BY <2>3, <2>4
  <1>10. QueuedIsHeld'
    BY <1>3 DEF PlaceInv, QueuedIsHeld, HeldBy
  <1>11. NoRepeats'
    BY <1>3 DEF PlaceInv, NoRepeats
  <1>12. EnteredOnce'
    BY <1>3, <1>4 DEF PlaceInv, EnteredOnce
  <1> QED
    BY <1>8, <1>9, <1>10, <1>11, <1>12 DEF PlaceInv

\* The leader fills the head of its batch and goes on to the next.
LEMMA FillStep ==
    ASSUME TypeInv, PlaceInv, NEW r \in Requests, FillResult(r)
    PROVE  PlaceInv'
  <1> DEFINE h == Head(batch[r])
  <1>1. /\ pc \in [Requests -> PCs] /\ batch \in [Requests -> Seq(Requests)]
        /\ target \in [Requests -> Targets]
        /\ item \in [Requests -> {"new", "queued", "done", "filled"}]
    BY DEF TypeInv, TypeOK
  <1>2. batch[r] # <<>> /\ pc[r] = "fill"
    BY DEF TypeInv, HeadsExist, FillResult
  <1>3. /\ h \in Range(batch[r]) /\ h \in Requests
        /\ Range(Tail(batch[r])) = Range(batch[r]) \ {h} /\ IsInjective(Tail(batch[r]))
    BY <1>1, <1>2, HeadType, ShortenedQueue DEF PlaceInv, NoRepeats
  <1>4. /\ pc'[r] = "publish" /\ \A s \in Requests \ {r} : pc'[s] = pc[s]
        /\ item'[h] = "filled" /\ \A x \in Requests \ {h} : item'[x] = item[x]
        /\ batch'[r] = Tail(batch[r]) /\ \A l \in Requests \ {r} : batch'[l] = batch[l]
        /\ UNCHANGED <<pending, target>>
    BY <1>1, <1>3 DEF FillResult, queueVars, inputVars
  <1>5. /\ target[h] = target[r] /\ h \notin Range(pending[target[h]])
        /\ item[h] \in {"queued", "done"}
    BY <1>3 DEF PlaceInv, BatchesHold
  <1>6. \A l \in Requests \ {r} : h \notin Range(batch[l])
    <2>1. pc[r] \in LeaderPCs
      BY <1>2 DEF LeaderPCs
    <2>2. \A l \in Requests \ {r} : target[l] = target[r] => Range(batch[l]) = {}
      BY <2>1, OnlyLeaderHasBatch
    <2>3. \A l \in Requests : h \in Range(batch[l]) => target[h] = target[l]
      BY DEF PlaceInv, BatchesHold
    <2> QED
      BY <1>5, <2>2, <2>3
  <1>7. \A t \in Targets : h \notin Range(pending[t]) /\ Range(pending[t]) \subseteq Requests
    <2>1. \A t \in Targets : Range(pending[t]) \subseteq Requests
      BY DEF TypeInv, TypeOK, Range
    <2> QED
      BY <1>5, <2>1 DEF PlaceInv, QueuesHold
  <1>8. \A l \in Requests : Range(batch[l]) \subseteq Requests
    BY <1>1 DEF Range
  <1>a. \A x \in Range(batch[r]) : x # h => item[x] = "queued"
    BY DEF PlaceInv, BatchesHold
  <1> HIDE DEF h
  <1>9. QueuesHold'
    BY <1>4, <1>7 DEF PlaceInv, QueuesHold
  <1>10. BatchesHold'
    <2> SUFFICES ASSUME NEW l \in Requests, NEW x \in Range(batch'[l])
                 PROVE  /\ pc'[l] \in BatchPCs
                        /\ target[x] = target[l]
                        /\ x \notin Range(pending[target[x]])
                        /\ \/ item'[x] = "queued"
                           \/ item'[x] = "done" /\ pc'[l] = "fill" /\ x = Head(batch'[l])
      BY <1>4 DEF BatchesHold
    <2>1. x \in Range(batch[l]) /\ x # h
      BY <1>3, <1>4, <1>6
    <2>2. /\ pc[l] \in BatchPCs /\ target[x] = target[l] /\ x \notin Range(pending[target[x]])
          /\ item[x] = "queued" \/ (item[x] = "done" /\ pc[l] = "fill" /\ x = Head(batch[l]))
      BY <2>1 DEF PlaceInv, BatchesHold
    <2>3. item'[x] = item[x]
      BY <1>4, <1>8, <2>1
    <2>4. CASE l = r
      BY <1>4, <1>a, <2>1, <2>2, <2>3, <2>4 DEF BatchPCs, LeaderPCs
    <2>5. CASE l # r
      BY <1>4, <2>2, <2>3, <2>5
    <2> QED
      BY <2>4, <2>5
  <1>11. QueuedIsHeld'
    <2> SUFFICES ASSUME NEW x \in Requests, item'[x] = "queued"
                 PROVE  \/ x \in Range(pending[target[x]])
                        \/ \E l \in Requests : x \in Range(batch'[l])
      BY <1>4 DEF QueuedIsHeld, HeldBy
    <2>1. x # h /\ item[x] = "queued"
      BY <1>4
    <2> QED
      BY <1>3, <1>4, <2>1 DEF PlaceInv, QueuedIsHeld, HeldBy
  <1>12. NoRepeats'
    BY <1>3, <1>4 DEF PlaceInv, NoRepeats
  <1>13. EnteredOnce'
    BY <1>4, <1>5 DEF PlaceInv, EnteredOnce
  <1> QED
    BY <1>9, <1>10, <1>11, <1>12, <1>13 DEF PlaceInv

\* Every step keeps each request in its place.
LEMMA PlaceStep ==
    ASSUME TypeInv, PlaceInv, NEW r \in Requests, Action(r)
    PROVE  PlaceInv'
  <1> USE DEF queueVars, itemVars, inputVars, batchVars, txnVars, dbVars
  <1>0. /\ pc \in [Requests -> PCs] /\ batch \in [Requests -> Seq(Requests)]
        /\ pending \in [Targets -> Seq(Requests)] /\ target \in [Requests -> Targets]
        /\ item \in [Requests -> {"new", "queued", "done", "filled"}]
        /\ target[r] \in Targets
    BY DEF TypeInv, TypeOK
  <1>a. target' = target /\ \A s \in Requests \ {r} : pc'[s] = pc[s]
    BY OthersStay DEF TypeInv
  <1>b. pc[r] \notin BatchPCs => Range(batch[r]) = {}
    BY DEF PlaceInv, BatchesHold
  <1>c. \A t \in Targets : IsInjective(pending[t])
    BY DEF PlaceInv, NoRepeats
  <1>1. CASE Enter(r)
    <2> DEFINE q == Append(pending[target[r]], r)
    <2>1. CASE TakeBatch(r, q) /\ ~Led(target[r])
      <3>1. item[r] = "new" /\ item' = [item EXCEPT ![r] = "queued"] /\ Range(batch[r]) = {}
        BY <1>1, <1>b DEF Enter, PlaceInv, EnteredOnce, BatchPCs, LeaderPCs
      <3>2. r \notin Range(pending[target[r]])
        BY <1>0, <3>1 DEF PlaceInv, QueuesHold
      <3>3. Range(q) = Range(pending[target[r]]) \union {r} /\ IsInjective(q) /\ q \in Seq(Requests)
        BY <1>0, <1>c, <3>2, AppendedQueue, AppendType
      <3> HIDE DEF q
      <3> QED
        BY <1>a, <2>1, <3>1, <3>3, TakeStep
    <2>2. CASE /\ pending' = [pending EXCEPT ![target[r]] = q]
               /\ UNCHANGED batch
               /\ pc'[r] \in {"wait", "linger"}
      BY <1>1, <2>2, JoinStep
    <2> QED
      BY <1>0, <1>1, <2>1, <2>2 DEF Enter
  <1>2. CASE LingerFull(r) \/ LingerTimeout(r)
    <2>1. TakeBatch(r, pending[target[r]]) /\ item' = item /\ pc[r] = "linger"
      BY <1>2 DEF LingerFull, LingerTimeout
    <2>2. pc[r] \in LeaderPCs /\ Range(batch[r]) = {}
      BY <1>b, <2>1 DEF LeaderPCs, BatchPCs
    <2>3. pending[target[r]] \in Seq(Requests)
      BY <1>0
    <2> QED
      BY <1>a, <1>c, <1>0, <2>1, <2>2, <2>3, TakeStep
  <1>3. CASE NextRound(r)
    <2>1. pc[r] = "publish" /\ Range(batch[r]) = {} /\ item' = item
      BY <1>3, EmptyQueue DEF NextRound
    <2>2. CASE TakeBatch(r, pending[target[r]])
      <3>1. pending[target[r]] \in Seq(Requests) /\ pc[r] \in LeaderPCs
        BY <1>0, <2>1 DEF LeaderPCs
      <3> QED
        BY <1>a, <1>c, <1>0, <2>1, <2>2, <3>1, TakeStep
    <2>3. CASE pc' = [pc EXCEPT ![r] = "return"] /\ UNCHANGED <<pending, batch>>
      BY <1>0, <1>a, <2>1, <2>3, QuietStep
    <2> QED
      BY <1>3, <2>2, <2>3 DEF NextRound
  <1>4. CASE MarkDone(r)
    BY <1>4, MarkStep
  <1>5. CASE FillResult(r)
    BY <1>5, FillStep
  <1>6. CASE Wake(r) \/ Return(r)
    <2>1. UNCHANGED <<pending, batch, item>> /\ pc[r] \in {"wait", "return"}
      BY <1>6 DEF Wake, Return
    <2>2. pc'[r] # "idle" /\ pc[r] # "fill" /\ pc[r] \notin BatchPCs
      BY <1>0, <1>6, <2>1 DEF Wake, Return, BatchPCs, LeaderPCs
    <2> QED
      BY <1>a, <1>b, <2>1, <2>2, QuietStep
  <1>7. CASE \/ Serialize(r) \/ LockCreation(r) \/ AttemptSucceeds(r) \/ AttemptErrors(r)
             \/ AttemptConflicts(r)
             \/ CommitSucceeds(r) \/ CommitFails(r) \/ MarkKnown(r)
             \/ RollbackBatch(r) \/ EscapeLeader(r)
    <2>1. UNCHANGED <<pending, batch, item>>
      BY <1>7 DEF Serialize, LockCreation, AttemptSucceeds, AttemptErrors, AttemptConflicts,
                  CommitSucceeds, CommitFails, MarkKnown, RollbackBatch, EscapeLeader
    <2>2. pc[r] # "fill" /\ pc'[r] \in BatchPCs
      <3>1. CASE Serialize(r) \/ LockCreation(r) \/ AttemptSucceeds(r) \/ AttemptErrors(r)
        BY <1>0, <3>1 DEF Serialize, LockCreation, AttemptSucceeds, AttemptErrors, BatchPCs, LeaderPCs
      <3>2. CASE AttemptConflicts(r)
        BY <1>0, <3>2 DEF AttemptConflicts, BatchPCs, LeaderPCs
      <3>3. CASE CommitSucceeds(r) \/ CommitFails(r) \/ MarkKnown(r)
        BY <1>0, <3>3 DEF CommitSucceeds, CommitFails, MarkKnown, BatchPCs, LeaderPCs
      <3>4. CASE RollbackBatch(r) \/ EscapeLeader(r)
        BY <1>0, <3>4 DEF RollbackBatch, EscapeLeader, BatchPCs, LeaderPCs
      <3> QED
        BY <1>7, <3>1, <3>2, <3>3, <3>4
    <2>3. pc'[r] # "idle"
      BY <2>2 DEF BatchPCs, LeaderPCs
    <2> QED
      BY <1>a, <2>1, <2>2, <2>3, QuietStep
  <1> QED
    BY <1>1, <1>2, <1>3, <1>4, <1>5, <1>6, <1>7 DEF Action, LeaderStep

\* PlaceInv holds throughout.
THEOREM PlaceInvariant == Spec => []PlaceInv
  <1>1. Init => PlaceInv
    <2> SUFFICES ASSUME Init PROVE PlaceInv
      OBVIOUS
    <2>1. /\ \A t \in Targets : pending[t] = <<>>
          /\ \A l \in Requests : batch[l] = <<>>
          /\ \A l \in Requests : item[l] = "new"
      BY DEF Init
    <2> QED
      BY <2>1, EmptyQueue
         DEF PlaceInv, QueuesHold, BatchesHold, QueuedIsHeld, NoRepeats, EnteredOnce
  <1>2. TypeInv /\ PlaceInv /\ [Next]_vars => PlaceInv'
    <2> SUFFICES ASSUME TypeInv, PlaceInv, [Next]_vars
                 PROVE  PlaceInv'
      OBVIOUS
    <2>1. ASSUME NEW r \in Requests, Action(r)
          PROVE  PlaceInv'
      BY <2>1, PlaceStep
    <2>2. CASE UNCHANGED vars
      BY <2>2 DEF PlaceInv, QueuesHold, BatchesHold, QueuedIsHeld, NoRepeats, EnteredOnce,
                  HeldBy, vars, queueVars, itemVars, inputVars, batchVars
    <2> QED
      BY <2>1, <2>2 DEF Next, Action
  <1> QED
    BY <1>1, <1>2, TypeInvariant, PTL DEF Spec

\* No request is lost from the queues or led by two batches, whatever spellings,
\* rounds and lingering leaders interleave.
THEOREM QueuedOnce == Spec => []QueuedExactlyOnce
  <1>1. TypeInv /\ PlaceInv => QueuedExactlyOnce
    <2> SUFFICES ASSUME TypeInv, PlaceInv PROVE QueuedExactlyOnce
      OBVIOUS
    <2>1. ASSUME NEW r \in Requests, item[r] = "queued"
          PROVE  \/ r \in Range(pending[target[r]]) /\ HeldBy(r) = {}
                 \/ /\ r \notin Range(pending[target[r]])
                    /\ \E l \in Requests : HeldBy(r) = {l} /\ target[l] = target[r]
      <3>1. CASE HeldBy(r) = {}
        BY <2>1, <3>1 DEF PlaceInv, QueuedIsHeld
      <3>2. CASE HeldBy(r) # {}
        <4>1. PICK l \in Requests : r \in Range(batch[l])
          BY <3>2 DEF HeldBy
        <4>2. pc[l] \in LeaderPCs /\ target[r] = target[l] /\ r \notin Range(pending[target[r]])
          BY <4>1 DEF PlaceInv, BatchesHold, BatchPCs
        <4>3. \A s \in Requests \ {l} : target[s] = target[l] => Range(batch[s]) = {}
          BY <4>2, OnlyLeaderHasBatch
        <4>4. \A s \in Requests : r \in Range(batch[s]) => target[r] = target[s]
          BY DEF PlaceInv, BatchesHold
        <4>5. HeldBy(r) = {l}
          BY <4>1, <4>2, <4>3, <4>4 DEF HeldBy
        <4> QED
          BY <4>2, <4>5
      <3> QED
        BY <3>1, <3>2
    <2> QED
      BY <2>1 DEF QueuedExactlyOnce, PlaceInv, NoRepeats
  <1> QED
    BY <1>1, TypeInvariant, PlaceInvariant, PTL

--------------------------------------------------------------------------------
(* Commits *)

\* A request is held by one leader at most.
LEMMA OneHolder ==
    ASSUME TypeInv, PlaceInv, NEW l \in Requests, NEW m \in Requests, NEW x,
           x \in Range(batch[l]), x \in Range(batch[m])
    PROVE  l = m
  <1>1. pc[l] \in LeaderPCs /\ target[l] = target[m]
    BY DEF PlaceInv, BatchesHold, BatchPCs
  <1> QED
    BY <1>1, OnlyLeaderHasBatch

\* Nothing of a batch is committed before the batch is.
LEMMA BatchUncommitted ==
    ASSUME TypeInv, PlaceInv, CommitInv, NEW l \in Requests,
           pc[l] \notin {"mark", "publish", "fill"},
           NEW x \in Range(batch[l])
    PROVE  x \in Requests /\ item[x] = "queued" /\ commits[x] = 0
  <1>1. x \in Requests
    BY DEF TypeInv, TypeOK, Range
  <1>2. item[x] = "queued"
    BY DEF PlaceInv, BatchesHold
  <1>3. \A m \in HeldBy(x) : m = l
    BY OneHolder DEF HeldBy
  <1>4. ~(commits[x] > 0)
    BY <1>1, <1>2, <1>3 DEF CommitInv, CommittedIsPast
  <1>5. commits[x] \in Nat
    BY <1>1 DEF TypeInv, TypeOK
  <1> QED
    BY <1>1, <1>2, <1>4, <1>5

\* What a step does to the batches, beside committing one.
LEMMA HoldersMove ==
    ASSUME TypeInv, PlaceInv, NEW r \in Requests, Action(r)
    PROVE  /\ \A x \in Requests : item[x] \in {"done", "filled"} => item'[x] \in {"done", "filled"}
           /\ \A x, l \in Requests :
                x \in Range(batch[l]) /\ pc[l] \in {"mark", "publish", "fill"} =>
                  \/ item'[x] \in {"done", "filled"}
                  \/ x \in Range(batch'[l]) /\ pc'[l] \in {"mark", "publish", "fill"}
  <1> USE DEF queueVars, itemVars, inputVars, batchVars, txnVars, dbVars
  <1>0. /\ pc \in [Requests -> PCs] /\ batch \in [Requests -> Seq(Requests)]
        /\ item \in [Requests -> {"new", "queued", "done", "filled"}]
    BY DEF TypeInv, TypeOK
  <1>a. \A s \in Requests \ {r} : pc'[s] = pc[s] /\ batch'[s] = batch[s]
    BY OthersStay, QueueStep DEF TypeInv
  <1>1. CASE Enter(r)
    BY <1>0, <1>a, <1>1 DEF Enter, PlaceInv, EnteredOnce
  <1>2. CASE LingerFull(r) \/ LingerTimeout(r)
    BY <1>0, <1>a, <1>2 DEF LingerFull, LingerTimeout
  <1>3. CASE NextRound(r)
    BY <1>0, <1>a, <1>3, EmptyQueue DEF NextRound
  <1>4. CASE MarkDone(r)
    BY <1>0, <1>a, <1>4 DEF MarkDone
  <1>5. CASE FillResult(r)
    <2>1. batch[r] # <<>> /\ IsInjective(batch[r])
      BY <1>5 DEF TypeInv, HeadsExist, FillResult, PlaceInv, NoRepeats
    <2>2. Range(Tail(batch[r])) = Range(batch[r]) \ {Head(batch[r])}
      BY <1>0, <2>1, ShortenedQueue
    <2> QED
      BY <1>0, <1>a, <1>5, <2>2 DEF FillResult
  <1>6. CASE Wake(r) \/ Return(r)
    BY <1>0, <1>a, <1>6 DEF Wake, Return
  <1>7. CASE Serialize(r) \/ LockCreation(r) \/ AttemptSucceeds(r) \/ AttemptErrors(r)
    BY <1>0, <1>a, <1>7 DEF Serialize, LockCreation, AttemptSucceeds, AttemptErrors
  <1>8. CASE AttemptConflicts(r)
    BY <1>0, <1>a, <1>8 DEF AttemptConflicts
  <1>9. CASE CommitSucceeds(r) \/ CommitFails(r) \/ MarkKnown(r)
    BY <1>0, <1>a, <1>9 DEF CommitSucceeds, CommitFails, MarkKnown
  <1>10. CASE RollbackBatch(r) \/ EscapeLeader(r)
    BY <1>0, <1>a, <1>10 DEF RollbackBatch, EscapeLeader
  <1> QED
    BY <1>1, <1>2, <1>3, <1>4, <1>5, <1>6, <1>7, <1>8, <1>9, <1>10 DEF Action, LeaderStep

\* Only CommitSucceeds commits.
LEMMA CommitsStay ==
    ASSUME NEW r \in Requests, Action(r), ~CommitSucceeds(r)
    PROVE  UNCHANGED dbVars
  BY DEF Action, LeaderStep, Enter, Wake, Return, LingerFull, LingerTimeout, Serialize,
         LockCreation, AttemptSucceeds, AttemptConflicts, AttemptErrors, CommitFails, MarkKnown,
         RollbackBatch, EscapeLeader, MarkDone, FillResult, NextRound, txnVars

\* Every step commits a request's rows at most once.
LEMMA CommitStep ==
    ASSUME TypeInv, PlaceInv, CommitInv, NEW r \in Requests, Action(r)
    PROVE  CommitInv'
  <1>0. /\ commits \in [Requests -> Nat] /\ pc \in [Requests -> PCs]
        /\ batch \in [Requests -> Seq(Requests)]
    BY DEF TypeInv, TypeOK
  <1>1. CASE CommitSucceeds(r)
    <2>1. /\ pc[r] = "commit" /\ pc'[r] = "mark" /\ UNCHANGED <<item, batch>>
          /\ \A x \in Requests : commits'[x] = IF x \in Range(batch[r]) THEN commits[x] + 1
                                               ELSE commits[x]
          /\ \A s \in Requests \ {r} : pc'[s] = pc[s]
      BY <1>0, <1>1 DEF CommitSucceeds, itemVars, batchVars
    <2>2. \A x \in Range(batch[r]) : commits[x] = 0
      BY <2>1, BatchUncommitted
    <2>3. AtMostOnce'
      <3> SUFFICES ASSUME NEW x \in Requests PROVE commits'[x] <= 1
        BY DEF AtMostOnce
      <3>1. commits[x] <= 1
        BY DEF CommitInv, AtMostOnce
      <3>2. CASE x \in Range(batch[r])
        BY <2>1, <2>2, <3>2
      <3>3. CASE x \notin Range(batch[r])
        BY <2>1, <3>1, <3>3
      <3> QED
        BY <3>2, <3>3
    <2>4. CommittedIsPast'
      <3> SUFFICES ASSUME NEW x \in Requests, commits'[x] > 0
                   PROVE  \/ item[x] \in {"done", "filled"}
                          \/ \E l \in Requests : /\ x \in Range(batch[l])
                                                 /\ pc'[l] \in {"mark", "publish", "fill"}
        BY <2>1 DEF CommittedIsPast, HeldBy
      <3>1. CASE x \in Range(batch[r])
        BY <2>1, <3>1
      <3>2. CASE x \notin Range(batch[r])
        BY <2>1, <3>2 DEF CommitInv, CommittedIsPast, HeldBy
      <3> QED
        BY <3>1, <3>2
    <2> QED
      BY <2>3, <2>4 DEF CommitInv
  <1>2. CASE ~CommitSucceeds(r)
    <2>1. commits' = commits
      BY <1>2, CommitsStay DEF dbVars
    <2>2. CommittedIsPast'
      BY <2>1, HoldersMove DEF CommitInv, CommittedIsPast, HeldBy
    <2> QED
      BY <2>1, <2>2 DEF CommitInv, AtMostOnce
  <1> QED
    BY <1>1, <1>2

\* CommitInv holds throughout.
THEOREM CommitInvariant == Spec => []CommitInv
  <1>1. Init => CommitInv
    BY DEF Init, CommitInv, AtMostOnce, CommittedIsPast
  <1>2. TypeInv /\ PlaceInv /\ CommitInv /\ [Next]_vars => CommitInv'
    <2> SUFFICES ASSUME TypeInv, PlaceInv, CommitInv, [Next]_vars
                 PROVE  CommitInv'
      OBVIOUS
    <2>1. ASSUME NEW r \in Requests, Action(r)
          PROVE  CommitInv'
      BY <2>1, CommitStep
    <2>2. CASE UNCHANGED vars
      BY <2>2 DEF CommitInv, AtMostOnce, CommittedIsPast, HeldBy,
                  vars, itemVars, batchVars, dbVars
    <2> QED
      BY <2>1, <2>2 DEF Next, Action
  <1> QED
    BY <1>1, <1>2, TypeInvariant, PlaceInvariant, PTL DEF Spec

\* No request's rows are committed twice, with retries, further rounds, conflicts and
\* exceptions that unwind leaders.
THEOREM CommittedOnce == Spec => []AtMostOnce
  <1>1. CommitInv => AtMostOnce
    BY DEF CommitInv
  <1> QED
    BY <1>1, CommitInvariant, PTL

--------------------------------------------------------------------------------
(* Leaders return resolved *)

\* A leader's own request is filled, or in the first batch it takes.
OwnItem ==
    \A r \in Requests : pc[r] \in LeaderPCs =>
        \/ item[r] = "filled"
        \/ pc[r] = "linger" /\ r \in Range(pending[target[r]])
        \/ r \in Range(batch[r])

\* A filled item is not written again.
LEMMA FilledStays ==
    ASSUME TypeInv, PlaceInv, NEW r \in Requests, Action(r),
           NEW x \in Requests, item[x] = "filled"
    PROVE  item'[x] = "filled" /\ failed'[x] = failed[x]
  <1> USE DEF queueVars, itemVars, inputVars, batchVars, txnVars, dbVars
  <1>0. /\ pc \in [Requests -> PCs] /\ batch \in [Requests -> Seq(Requests)]
        /\ item \in [Requests -> {"new", "queued", "done", "filled"}]
        /\ failed \in [Requests -> BOOLEAN]
    BY DEF TypeInv, TypeOK
  <1>1. CASE Enter(r)
    BY <1>0, <1>1 DEF Enter, PlaceInv, EnteredOnce
  <1>2. CASE MarkDone(r) \/ FillResult(r)
    <2>1. batch[r] # <<>>
      BY <1>2 DEF TypeInv, HeadsExist, MarkDone, FillResult
    <2>2. Head(batch[r]) \in Range(batch[r])
      BY <1>0, <2>1, ShortenedQueue DEF PlaceInv, NoRepeats
    <2>3. x # Head(batch[r])
      BY <2>2 DEF PlaceInv, BatchesHold
    <2> QED
      BY <1>0, <1>2, <2>3 DEF MarkDone, FillResult
  <1>3. CASE ~Enter(r) /\ ~MarkDone(r) /\ ~FillResult(r)
    BY <1>3 DEF Action, LeaderStep, Wake, Return, LingerFull, LingerTimeout, Serialize,
       LockCreation, AttemptSucceeds, AttemptConflicts, AttemptErrors, CommitSucceeds, CommitFails,
       MarkKnown, RollbackBatch, EscapeLeader, NextRound
  <1> QED
    BY <1>1, <1>2, <1>3

\* Every step keeps a leader's own item with it.
LEMMA OwnStep ==
    ASSUME TypeInv, PlaceInv, OwnItem, NEW r \in Requests, Action(r)
    PROVE  OwnItem'
  <1> USE DEF queueVars, itemVars, inputVars, batchVars, txnVars, dbVars
  <1>0. /\ pc \in [Requests -> PCs] /\ batch \in [Requests -> Seq(Requests)]
        /\ pending \in [Targets -> Seq(Requests)] /\ target \in [Requests -> Targets]
        /\ item \in [Requests -> {"new", "queued", "done", "filled"}]
    BY DEF TypeInv, TypeOK
  <1>a. target' = target /\ \A s \in Requests \ {r} : pc'[s] = pc[s]
    BY OthersStay DEF TypeInv
  <1>b. \A q \in Seq(Requests) : r \in Range(Append(q, r)) /\ Range(q) \subseteq Range(Append(q, r))
    <2> SUFFICES ASSUME NEW q \in Seq(Requests)
                 PROVE  r \in Range(Append(q, r)) /\ Range(q) \subseteq Range(Append(q, r))
      OBVIOUS
    <2>1. /\ Len(q) \in Nat /\ DOMAIN q = 1..Len(q)
          /\ DOMAIN Append(q, r) = 1..(Len(q) + 1)
          /\ \A i \in 1..Len(q) : Append(q, r)[i] = q[i]
          /\ Append(q, r)[Len(q) + 1] = r
      OBVIOUS
    <2>2. /\ \A i \in 1..Len(q) : i \in 1..(Len(q) + 1)
          /\ Len(q) + 1 \in 1..(Len(q) + 1)
      BY <2>1
    <2> QED
      BY <2>1, <2>2 DEF Range
  <1>1. ASSUME NEW s \in Requests \ {r}, pc'[s] \in LeaderPCs
        PROVE  \/ item'[s] = "filled"
               \/ pc'[s] = "linger" /\ s \in Range(pending'[target[s]])
               \/ s \in Range(batch'[s])
    <2>1. pc[s] \in LeaderPCs /\ batch'[s] = batch[s] /\ target[s] \in Targets
      BY <1>0, <1>1, <1>a, QueueStep
    <2>2. CASE item[s] = "filled"
      BY <2>2, FilledStays
    <2>3. CASE pc[s] = "linger" /\ s \in Range(pending[target[s]])
      <3>1. CASE target[s] # target[r]
        BY <1>a, <2>1, <2>3, <3>1, QueueStep
      <3>2. CASE target[s] = target[r]
        <4>1. \/ pending'[target[s]] = pending[target[s]]
              \/ pending'[target[s]] = Append(pending[target[s]], r)
          BY <2>3, <3>2, QueueStep
        <4> QED
          BY <1>0, <1>a, <1>b, <2>1, <2>3, <4>1
      <3> QED
        BY <3>1, <3>2
    <2>4. CASE s \in Range(batch[s])
      BY <2>1, <2>4
    <2> QED
      BY <2>1, <2>2, <2>3, <2>4 DEF OwnItem
  <1>2. ASSUME pc'[r] \in LeaderPCs
        PROVE  \/ item'[r] = "filled"
               \/ pc'[r] = "linger" /\ r \in Range(pending'[target[r]])
               \/ r \in Range(batch'[r])
    <2>0. pending[target[r]] \in Seq(Requests)
      BY <1>0
    <2>1. CASE Enter(r)
      <3>1. CASE TakeBatch(r, Append(pending[target[r]], r))
        BY <1>0, <1>b, <2>0, <3>1 DEF TakeBatch
      <3>2. CASE /\ pending' = [pending EXCEPT ![target[r]] = Append(pending[target[r]], r)]
                 /\ pc' = [pc EXCEPT ![r] = "linger"]
        BY <1>0, <1>b, <2>0, <3>2
      <3>3. CASE pc' = [pc EXCEPT ![r] = "wait"]
        BY <1>0, <1>2, <3>3 DEF LeaderPCs
      <3> QED
        BY <2>1, <3>1, <3>2, <3>3 DEF Enter
    <2>2. CASE LingerFull(r) \/ LingerTimeout(r)
      <3>1. pc[r] = "linger" /\ batch'[r] = pending[target[r]] /\ item' = item
        BY <1>0, <2>2 DEF LingerFull, LingerTimeout, TakeBatch
      <3>2. r \notin Range(batch[r])
        BY <3>1 DEF PlaceInv, BatchesHold, BatchPCs
      <3> QED
        BY <3>1, <3>2 DEF OwnItem, LeaderPCs
    <2>3. CASE NextRound(r)
      <3>1. pc[r] = "publish" /\ batch[r] = <<>> /\ item' = item
        BY <2>3 DEF NextRound
      <3> QED
        BY <3>1, EmptyQueue DEF OwnItem, LeaderPCs
    <2>4. CASE FillResult(r)
      <3>1. batch[r] # <<>> /\ pc[r] = "fill"
        BY <2>4 DEF TypeInv, HeadsExist, FillResult
      <3>2. Range(Tail(batch[r])) = Range(batch[r]) \ {Head(batch[r])} /\ Head(batch[r]) \in Requests
        BY <1>0, <3>1, HeadType, ShortenedQueue DEF PlaceInv, NoRepeats
      <3>3. r \in Range(batch[r]) \/ item[r] = "filled"
        BY <3>1 DEF OwnItem, LeaderPCs
      <3> QED
        BY <1>0, <2>4, <3>2, <3>3, FilledStays DEF FillResult
    <2>5. CASE Wake(r) \/ Return(r)
      BY <1>0, <1>2, <2>5 DEF Wake, Return, LeaderPCs
    <2>6. CASE ~Enter(r) /\ ~LingerFull(r) /\ ~LingerTimeout(r) /\ ~NextRound(r) /\ ~FillResult(r)
               /\ ~Wake(r) /\ ~Return(r)
      <3>1. batch' = batch /\ pc[r] \in BatchPCs
        BY <2>6 DEF Action, LeaderStep, Serialize,
           LockCreation, AttemptSucceeds, AttemptConflicts, AttemptErrors, CommitSucceeds, CommitFails,
           MarkKnown, RollbackBatch, EscapeLeader, MarkDone, BatchPCs, LeaderPCs
      <3> QED
        BY <3>1, FilledStays DEF OwnItem, BatchPCs
    <2> QED
      BY <2>1, <2>2, <2>3, <2>4, <2>5, <2>6
  <1> QED
    BY <1>1, <1>2, <1>a DEF OwnItem

\* OwnItem holds throughout.
THEOREM OwnInvariant == Spec => []OwnItem
  <1>1. Init => OwnItem
    BY DEF Init, OwnItem, LeaderPCs
  <1>2. TypeInv /\ PlaceInv /\ OwnItem /\ [Next]_vars => OwnItem'
    <2> SUFFICES ASSUME TypeInv, PlaceInv, OwnItem, [Next]_vars
                 PROVE  OwnItem'
      OBVIOUS
    <2>1. ASSUME NEW r \in Requests, Action(r)
          PROVE  OwnItem'
      BY <2>1, OwnStep
    <2>2. CASE UNCHANGED vars
      BY <2>2 DEF OwnItem, vars, queueVars, itemVars, inputVars, batchVars
    <2> QED
      BY <2>1, <2>2 DEF Next, Action
  <1> QED
    BY <1>1, <1>2, TypeInvariant, PlaceInvariant, PTL DEF Spec

\* A leader goes back to its client with its own result written, however many rounds
\* it led for others: it is in the first batch it takes.
THEOREM LeadersReturnResolved == Spec => LeaderReturnsResolved
  <1>1. TypeInv /\ PlaceInv /\ OwnItem /\ [Next]_vars =>
          [\A r \in Requests : IsLeader(r) /\ pc'[r] = "return" => item[r] = "filled"]_vars
    <2> SUFFICES ASSUME TypeInv, PlaceInv, OwnItem, [Next]_vars, ~UNCHANGED vars,
                        NEW r \in Requests, IsLeader(r), pc'[r] = "return"
                 PROVE  item[r] = "filled"
      OBVIOUS
    <2>1. PICK s \in Requests : Action(s)
      BY DEF Next, Action
    <2>2. pc[r] \in LeaderPCs /\ pc[r] # "return"
      BY DEF IsLeader, LeaderPCs
    <2>3. s = r
      BY <2>1, <2>2, OthersStay DEF TypeInv
    <2>4. pc \in [Requests -> PCs]
      BY DEF TypeInv, TypeOK
    <2>5. NextRound(r)
      <3>1. ~Enter(r) /\ ~Wake(r) /\ ~Return(r)
        BY <2>2 DEF Enter, Wake, Return, LeaderPCs
      <3>2. ~LingerFull(r) /\ ~LingerTimeout(r) /\ ~Serialize(r) /\ ~LockCreation(r)
        BY <2>4 DEF LingerFull, LingerTimeout, TakeBatch, Serialize, LockCreation
      <3>3. ~AttemptSucceeds(r) /\ ~AttemptConflicts(r) /\ ~AttemptErrors(r)
        BY <2>2, <2>4 DEF AttemptSucceeds, AttemptConflicts, AttemptErrors
      <3>4. ~CommitSucceeds(r) /\ ~CommitFails(r) /\ ~MarkKnown(r)
        BY <2>4 DEF CommitSucceeds, CommitFails, MarkKnown
      <3>5. ~RollbackBatch(r) /\ ~EscapeLeader(r) /\ ~MarkDone(r) /\ ~FillResult(r)
        BY <2>4 DEF RollbackBatch, EscapeLeader, MarkDone, FillResult
      <3> QED
        BY <2>1, <2>3, <3>1, <3>2, <3>3, <3>4, <3>5 DEF Action, LeaderStep
    <2>6. batch[r] = <<>> /\ pc[r] = "publish"
      BY <2>5 DEF NextRound
    <2> QED
      BY <2>2, <2>6, EmptyQueue DEF OwnItem
  <1> QED
    BY <1>1, TypeInvariant, PlaceInvariant, OwnInvariant, PTL DEF Spec, LeaderReturnsResolved

--------------------------------------------------------------------------------
(* Answers *)

\* A leader knows its batch to be good exactly until an exception says otherwise.
OkUntilFailure ==
    \A l \in Requests : /\ pc[l] \in {"serialize", "lock", "attempt", "commit", "mark"} => ok[l]
                        /\ pc[l] = "rollback" => ~ok[l]

\* What is about to be published, or has been, as a success is committed.
SuccessCommitted ==
    /\ \A l \in Requests : ok[l] /\ pc[l] \in {"mark", "publish", "fill"} =>
          \A x \in Range(batch[l]) : commits[x] > 0
    /\ \A r \in Requests : item[r] = "filled" /\ ~failed[r] => commits[r] > 0

\* What failed is not committed.
RejectedUncommitted == \A r \in Rejected : commits[r] = 0

\* The item being filled is done.
FillsDone == \A l \in Requests : pc[l] = "fill" => item[Head(batch[l])] = "done"

\* A failed attempt leaves its transaction open: true only while commits do not throw.
RollbackOpen == \A l \in Requests : pc[l] = "rollback" => txn[l] # "none"

\* Clients are answered last, with an error only if their request was rejected.
AnsweredLast ==
    \A r \in Requests : /\ ack[r] # "none" => pc[r] \in {"answered", "wedged"}
                        /\ ack[r] = "error" => r \in Rejected

AnswerInv ==
    OkUntilFailure /\ SuccessCommitted /\ RejectedUncommitted /\ FillsDone
    /\ RollbackOpen /\ AnsweredLast

\* Where a request of a failed batch counts as rejected.
RejectedAt(x) ==
    \/ item[x] = "filled" /\ failed[x]
    \/ \E l \in Requests : /\ x \in Range(batch[l])
                           /\ ~ok[l] /\ pc[l] \in {"rollback", "wedged", "publish", "fill"}

LEMMA RejectedIs == Rejected = {x \in Requests : RejectedAt(x)}
  BY DEF Rejected, RejectedAt, HeldBy

\* The other leaders' results and transactions stay.
LEMMA OthersOk ==
    ASSUME TypeOK, NEW r \in Requests, Action(r), NEW s \in Requests, s # r
    PROVE  ok'[s] = ok[s] /\ txn'[s] = txn[s]
  <1> USE DEF queueVars, itemVars, inputVars, batchVars, txnVars, dbVars
  <1>0. /\ ok \in [Requests -> BOOLEAN]
        /\ txn \in [Requests -> {"none", "open", "creating"}]
    BY DEF TypeOK
  <1>1. CASE Enter(r) \/ LingerFull(r) \/ LingerTimeout(r) \/ NextRound(r)
    BY <1>0, <1>1 DEF Enter, LingerFull, LingerTimeout, NextRound, TakeBatch
  <1>2. CASE AttemptSucceeds(r) \/ AttemptErrors(r) \/ CommitSucceeds(r) \/ CommitFails(r)
             \/ RollbackBatch(r)
    BY <1>0, <1>2 DEF AttemptSucceeds, AttemptErrors, CommitSucceeds, CommitFails, RollbackBatch
  <1>3. CASE AttemptConflicts(r)
    BY <1>0, <1>3 DEF AttemptConflicts
  <1>4. CASE \/ Wake(r) \/ Return(r) \/ Serialize(r) \/ LockCreation(r) \/ MarkKnown(r)
             \/ EscapeLeader(r) \/ MarkDone(r) \/ FillResult(r)
    BY <1>4 DEF Wake, Return, Serialize, LockCreation, MarkKnown, EscapeLeader, MarkDone, FillResult
  <1> QED
    BY <1>1, <1>2, <1>3, <1>4 DEF Action, LeaderStep

\* A batch is rejected as a whole, by the attempt that fails; no other step rejects
\* a request or takes a rejection back.
LEMMA RejectedMoves ==
    ASSUME "commit" \notin Faults, TypeInv, PlaceInv, AnswerInv, NEW r \in Requests, Action(r)
    PROVE  \/ Rejected' = Rejected
           \/ /\ AttemptConflicts(r) \/ AttemptErrors(r)
              /\ Rejected' = Rejected \union Range(batch[r])
  <1> USE DEF queueVars, itemVars, inputVars, batchVars, txnVars, dbVars
  <1>0. /\ pc \in [Requests -> PCs] /\ batch \in [Requests -> Seq(Requests)]
        /\ item \in [Requests -> {"new", "queued", "done", "filled"}]
        /\ failed \in [Requests -> BOOLEAN] /\ ok \in [Requests -> BOOLEAN]
    BY DEF TypeInv, TypeOK
  <1>a. \A s \in Requests \ {r} : pc'[s] = pc[s] /\ batch'[s] = batch[s] /\ ok'[s] = ok[s]
    BY OthersStay, OthersOk, QueueStep DEF TypeInv
  <1>b. Rejected = {x \in Requests : RejectedAt(x)} /\ Rejected' = {x \in Requests : RejectedAt(x)'}
    BY RejectedIs DEF Rejected, RejectedAt, HeldBy
  <1>c. pc[r] \notin BatchPCs => Range(batch[r]) = {}
    BY DEF PlaceInv, BatchesHold
  <1>d. ASSUME \A x \in Requests : (item'[x] = "filled" /\ failed'[x]) <=> (item[x] = "filled" /\ failed[x]),
               \/ Range(batch[r]) = {}
               \/ ok[r] \/ pc[r] \notin {"rollback", "wedged", "publish", "fill"},
               \/ Range(batch'[r]) = {}
               \/ ok'[r] \/ pc'[r] \notin {"rollback", "wedged", "publish", "fill"}
        PROVE  Rejected' = Rejected
    BY <1>a, <1>b, <1>d DEF RejectedAt
  <1>1. CASE Enter(r)
    <2>1. pc[r] = "idle" /\ item[r] = "new" /\ Range(batch[r]) = {}
      BY <1>1, <1>c DEF Enter, PlaceInv, EnteredOnce, BatchPCs, LeaderPCs
    <2>2. \A x \in Requests : (item'[x] = "filled" /\ failed'[x]) <=> (item[x] = "filled" /\ failed[x])
      BY <1>0, <1>1, <2>1 DEF Enter
    <2>3. ok'[r] \/ batch'[r] = batch[r]
      BY <1>0, <1>1 DEF Enter, TakeBatch
    <2> QED
      BY <1>d, <2>1, <2>2, <2>3
  <1>2. CASE LingerFull(r) \/ LingerTimeout(r)
    <2>1. pc[r] = "linger" /\ ok'[r] /\ UNCHANGED <<item, failed>>
      BY <1>0, <1>2 DEF LingerFull, LingerTimeout, TakeBatch
    <2> QED
      BY <1>d, <2>1
  <1>3. CASE NextRound(r)
    <2>1. Range(batch[r]) = {} /\ UNCHANGED <<item, failed>>
      BY <1>3, EmptyQueue DEF NextRound
    <2>2. ok'[r] \/ batch'[r] = batch[r]
      BY <1>0, <1>3 DEF NextRound, TakeBatch
    <2> QED
      BY <1>d, <2>1, <2>2
  <1>4. CASE MarkDone(r)
    <2>1. batch[r] # <<>> /\ pc[r] = "publish"
      BY <1>4 DEF MarkDone
    <2>2. Head(batch[r]) \in Range(batch[r])
      BY <1>0, <2>1, ShortenedQueue DEF PlaceInv, NoRepeats
    <2>3. item[Head(batch[r])] = "queued"
      BY <2>1, <2>2 DEF PlaceInv, BatchesHold
    <2>4. \A x \in Requests : item'[x] = "filled" <=> item[x] = "filled"
      BY <1>0, <1>4, <2>3 DEF MarkDone
    <2>5. UNCHANGED <<batch, ok, failed>> /\ pc'[r] = "fill"
      BY <1>0, <1>4 DEF MarkDone
    <2> QED
      BY <1>a, <1>b, <2>1, <2>4, <2>5 DEF RejectedAt
  <1>5. CASE FillResult(r)
    <2>1. batch[r] # <<>> /\ pc[r] = "fill"
      BY <1>5 DEF TypeInv, HeadsExist, FillResult
    <2>a. PICK h \in Requests : h = Head(batch[r])
      BY <1>0, <2>1, HeadType
    <2>2. h \in Range(batch[r]) /\ h \in Requests /\ Range(Tail(batch[r])) = Range(batch[r]) \ {h}
      BY <1>0, <2>1, <2>a, ShortenedQueue DEF PlaceInv, NoRepeats
    <2>3. item[h] = "done"
      BY <2>1, <2>a DEF AnswerInv, FillsDone
    <2>4. /\ item'[h] = "filled" /\ failed'[h] = ~ok[r] /\ ok' = ok /\ pc'[r] = "publish"
          /\ \A x \in Requests \ {h} : item'[x] = item[x] /\ failed'[x] = failed[x]
          /\ batch'[r] = Tail(batch[r])
      BY <1>0, <1>5, <2>2, <2>a DEF FillResult
    <2>5. \A l \in Requests : h \in Range(batch[l]) => l = r
      BY <2>2, OneHolder
    <2>6. RejectedAt(h)' <=> ~ok[r]
      <3>1. \A l \in Requests : h \notin Range(batch'[l])
        BY <1>a, <2>2, <2>4, <2>5
      <3> QED
        BY <2>4, <3>1 DEF RejectedAt
    <2>7. RejectedAt(h) <=> ~ok[r]
      BY <2>1, <2>2, <2>3, <2>5 DEF RejectedAt
    <2>8. \A x \in Requests \ {h} : RejectedAt(x)' <=> RejectedAt(x)
      BY <1>a, <2>1, <2>2, <2>4 DEF RejectedAt
    <2> QED
      <3>1. \A x \in Requests : RejectedAt(x)' <=> RejectedAt(x)
        BY <2>2, <2>6, <2>7, <2>8
      <3> QED
        BY <1>b, <3>1
  <1>6. CASE Wake(r) \/ Return(r)
    <2>1. UNCHANGED <<batch, item, failed>> /\ pc[r] \notin BatchPCs
      BY <1>6 DEF Wake, Return, BatchPCs, LeaderPCs
    <2> QED
      BY <1>c, <1>d, <2>1
  <1>7. CASE Serialize(r) \/ LockCreation(r) \/ AttemptSucceeds(r) \/ CommitSucceeds(r)
    <2>1. /\ UNCHANGED <<item, failed>>
          /\ pc[r] \notin {"rollback", "wedged", "publish", "fill"}
          /\ pc'[r] \notin {"rollback", "wedged", "publish", "fill"}
      BY <1>0, <1>7 DEF Serialize, LockCreation, AttemptSucceeds, CommitSucceeds
    <2> QED
      BY <1>d, <2>1
  <1>8. CASE MarkKnown(r)
    <2>1. UNCHANGED <<item, failed, ok>> /\ ok[r]
      BY <1>8 DEF MarkKnown, AnswerInv, OkUntilFailure
    <2> QED
      BY <1>d, <2>1
  <1>9. CASE RollbackBatch(r) \/ EscapeLeader(r)
    <2>1. UNCHANGED <<item, failed, ok, batch>> /\ pc[r] = "rollback" /\ pc'[r] \in {"publish", "wedged"}
      BY <1>0, <1>9 DEF RollbackBatch, EscapeLeader
    <2> QED
      BY <1>a, <1>b, <2>1 DEF RejectedAt
  <1>10. CASE AttemptConflicts(r) \/ AttemptErrors(r)
    <2>1. pc[r] = "attempt" /\ UNCHANGED <<item, failed, batch>>
      BY <1>10 DEF AttemptConflicts, AttemptErrors
    <2>2. CASE pc'[r] = "attempt"
      BY <1>d, <2>1, <2>2
    <2>3. CASE pc'[r] = "rollback" /\ ~ok'[r]
      <3>1. \A x \in Requests : RejectedAt(x)' <=> RejectedAt(x) \/ x \in Range(batch[r])
        BY <1>a, <2>1, <2>3 DEF RejectedAt
      <3>2. Range(batch[r]) \subseteq Requests
        BY <1>0 DEF Range
      <3> QED
        BY <1>b, <1>10, <3>1, <3>2
    <2>4. \/ pc'[r] = "attempt"
          \/ pc'[r] = "rollback" /\ ~ok'[r]
      BY <1>0, <1>10, <2>1 DEF AttemptConflicts, AttemptErrors
    <2> QED
      BY <2>2, <2>3, <2>4
  <1>11. ~CommitFails(r)
    BY DEF CommitFails
  <1> QED
    BY <1>1, <1>2, <1>3, <1>4, <1>5, <1>6, <1>7, <1>8, <1>9, <1>10, <1>11 DEF Action, LeaderStep

\* A request is only committed while it is neither rejected nor resolved.
LEMMA CommitBatchFresh ==
    ASSUME TypeInv, PlaceInv, CommitInv, AnswerInv, NEW r \in Requests, CommitSucceeds(r),
           NEW x \in Range(batch[r])
    PROVE  x \in Requests /\ x \notin Rejected /\ commits[x] = 0 /\ commits'[x] > 0
  <1>1. pc[r] = "commit"
    BY DEF CommitSucceeds
  <1>2. x \in Requests /\ item[x] = "queued" /\ commits[x] = 0
    BY <1>1, BatchUncommitted
  <1>3. \A l \in Requests : x \in Range(batch[l]) => l = r
    BY OneHolder
  <1>4. x \notin Rejected
    BY <1>1, <1>2, <1>3, RejectedIs DEF RejectedAt
  <1>5. commits'[x] = commits[x] + 1
    BY <1>2 DEF CommitSucceeds
  <1> QED
    BY <1>2, <1>4, <1>5

\* Rows are never taken back.
LEMMA CommitsGrow ==
    ASSUME TypeInv, NEW r \in Requests, Action(r), NEW x \in Requests
    PROVE  commits'[x] = commits[x] \/ (CommitSucceeds(r) /\ x \in Range(batch[r]))
  <1>1. CASE CommitSucceeds(r)
    BY <1>1 DEF CommitSucceeds
  <1>2. CASE ~CommitSucceeds(r)
    BY <1>2, CommitsStay DEF dbVars
  <1> QED
    BY <1>1, <1>2

\* What a thread is told was decided.
LEMMA ReadableTrue ==
    ASSUME TypeInv, PlaceInv, AnswerInv, NEW r \in Requests, NEW a \in Readable(r)
    PROVE  /\ a \in Answers
           /\ a = "error" => r \in Rejected
           /\ a # "error" => r \in Rejected \/ commits[r] > 0
  <1>1. CASE item[r] = "filled"
    <2>1. failed[r] \in BOOLEAN
      BY DEF TypeInv, TypeOK
    <2> QED
      BY <1>1, <2>1, RejectedIs DEF Readable, RejectedAt, Answers, AnswerInv, SuccessCommitted
  <1>2. CASE item[r] # "filled"
    <2>1. PICK l \in Requests : /\ pc[l] = "fill" /\ Head(batch[l]) = r
                                /\ a \in IF ok[l] THEN {"zero", "batch", "own"} ELSE {"zero", "error"}
      BY <1>2 DEF Readable
    <2>2. batch[l] \in Seq(Requests) /\ batch[l] # <<>> /\ IsInjective(batch[l])
      BY <2>1 DEF TypeInv, TypeOK, HeadsExist, PlaceInv, NoRepeats
    <2>3. r \in Range(batch[l])
      BY <2>1, <2>2, ShortenedQueue
    <2>4. CASE ok[l]
      BY <2>1, <2>3, <2>4 DEF Answers, AnswerInv, SuccessCommitted
    <2>5. CASE ~ok[l]
      BY <2>1, <2>3, <2>5, RejectedIs DEF RejectedAt, Answers
    <2> QED
      BY <2>4, <2>5
  <1> QED
    BY <1>1, <1>2

\* What a step does to a leader's result, its batch and its program point.
LEMMA ResultMoves ==
    ASSUME "commit" \notin Faults, TypeInv, PlaceInv, AnswerInv, NEW r \in Requests, Action(r)
    PROVE  /\ pc'[r] \in {"serialize", "lock", "attempt", "commit", "mark"} => ok'[r]
           /\ pc'[r] = "rollback" => ~ok'[r] /\ txn'[r] # "none"
           /\ pc'[r] = "fill" => MarkDone(r)
           /\ ok'[r] /\ pc'[r] \in {"mark", "publish", "fill"} =>
                \/ CommitSucceeds(r) /\ batch' = batch
                \/ /\ ok[r] /\ pc[r] \in {"mark", "publish", "fill"}
                   /\ Range(batch'[r]) \subseteq Range(batch[r])
  <1> USE DEF queueVars, itemVars, inputVars, batchVars, txnVars, dbVars, AnswerInv,
              OkUntilFailure, RollbackOpen
  <1>0. /\ pc \in [Requests -> PCs] /\ ok \in [Requests -> BOOLEAN]
        /\ txn \in [Requests -> {"none", "open", "creating"}]
        /\ batch \in [Requests -> Seq(Requests)]
    BY DEF TypeInv, TypeOK
  <1>1. CASE Enter(r)
    BY <1>0, <1>1 DEF Enter, TakeBatch
  <1>2. CASE LingerFull(r) \/ LingerTimeout(r) \/ NextRound(r)
    BY <1>0, <1>2 DEF LingerFull, LingerTimeout, NextRound, TakeBatch
  <1>3. CASE Wake(r) \/ Return(r)
    BY <1>0, <1>3 DEF Wake, Return
  <1>4. CASE Serialize(r) \/ LockCreation(r) \/ AttemptSucceeds(r) \/ CommitSucceeds(r)
    BY <1>0, <1>4 DEF Serialize, LockCreation, AttemptSucceeds, CommitSucceeds
  <1>5. CASE AttemptErrors(r)
    BY <1>0, <1>5 DEF AttemptErrors
  <1>6. CASE AttemptConflicts(r)
    BY <1>0, <1>6 DEF AttemptConflicts
  <1>7. CASE MarkKnown(r) \/ MarkDone(r)
    BY <1>0, <1>7 DEF MarkKnown, MarkDone
  <1>8. CASE RollbackBatch(r) \/ EscapeLeader(r)
    BY <1>0, <1>8 DEF RollbackBatch, EscapeLeader
  <1>9. CASE FillResult(r)
    <2>1. batch[r] # <<>> /\ IsInjective(batch[r])
      BY <1>9 DEF TypeInv, HeadsExist, FillResult, PlaceInv, NoRepeats
    <2>2. Range(Tail(batch[r])) \subseteq Range(batch[r])
      BY <1>0, <2>1, ShortenedQueue
    <2> QED
      BY <1>0, <1>9, <2>2 DEF FillResult
  <1>10. ~CommitFails(r)
    BY DEF CommitFails
  <1> QED
    BY <1>1, <1>2, <1>3, <1>4, <1>5, <1>6, <1>7, <1>8, <1>9, <1>10 DEF Action, LeaderStep

\* What a step does to items.
LEMMA ItemMoves ==
    ASSUME TypeInv, PlaceInv, NEW r \in Requests, Action(r), NEW x \in Requests
    PROVE  \/ item'[x] = item[x] /\ failed'[x] = failed[x]
           \/ item[x] = "new" /\ item'[x] = "queued"
           \/ MarkDone(r) /\ x = Head(batch[r]) /\ item[x] = "queued" /\ item'[x] = "done"
           \/ /\ FillResult(r) /\ x = Head(batch[r]) /\ pc[r] = "fill" /\ x \in Range(batch[r])
              /\ item'[x] = "filled" /\ failed'[x] = ~ok[r]
  <1> USE DEF queueVars, itemVars, inputVars, batchVars, txnVars, dbVars
  <1>0. /\ batch \in [Requests -> Seq(Requests)]
        /\ item \in [Requests -> {"new", "queued", "done", "filled"}]
        /\ failed \in [Requests -> BOOLEAN]
    BY DEF TypeInv, TypeOK
  <1>1. CASE Enter(r)
    BY <1>0, <1>1 DEF Enter, PlaceInv, EnteredOnce
  <1>2. CASE MarkDone(r) \/ FillResult(r)
    <2>1. batch[r] # <<>>
      BY <1>2 DEF TypeInv, HeadsExist, MarkDone, FillResult
    <2>2. Head(batch[r]) \in Range(batch[r])
      BY <1>0, <2>1, ShortenedQueue DEF PlaceInv, NoRepeats
    <2>3. MarkDone(r) => item[Head(batch[r])] = "queued"
      BY <2>2 DEF MarkDone, PlaceInv, BatchesHold
    <2> QED
      BY <1>0, <1>2, <2>2, <2>3 DEF MarkDone, FillResult
  <1>3. CASE ~Enter(r) /\ ~MarkDone(r) /\ ~FillResult(r)
    BY <1>3 DEF Action, LeaderStep, Wake, Return, LingerFull, LingerTimeout, Serialize,
       LockCreation, AttemptSucceeds, AttemptConflicts, AttemptErrors, CommitSucceeds, CommitFails,
       MarkKnown, RollbackBatch, EscapeLeader, NextRound
  <1> QED
    BY <1>1, <1>2, <1>3

\* What a step does to answers.
LEMMA AckMoves ==
    ASSUME TypeInv, PlaceInv, AnswerInv, NEW r \in Requests, Action(r)
    PROVE  \/ ack' = ack /\ pc[r] \notin {"answered", "wedged"}
           \/ /\ Return(r) /\ pc[r] = "return" /\ pc'[r] = "answered"
              /\ \E a \in Readable(r) : ack' = [ack EXCEPT ![r] = a]
  <1> USE DEF queueVars, itemVars, inputVars, batchVars, txnVars, dbVars
  <1>0. pc \in [Requests -> PCs]
    BY DEF TypeInv, TypeOK
  <1>1. CASE Return(r)
    BY <1>0, <1>1 DEF Return
  <1>2. CASE ~Return(r)
    <2>1. ~EscapeLeader(r)
      BY DEF EscapeLeader, AnswerInv, RollbackOpen
    <2> QED
      BY <1>2, <2>1 DEF Action, LeaderStep, Enter, Wake, LingerFull, LingerTimeout, Serialize,
         LockCreation, AttemptSucceeds, AttemptConflicts, AttemptErrors, CommitSucceeds, CommitFails,
         MarkKnown, RollbackBatch, MarkDone, FillResult, NextRound
  <1> QED
    BY <1>1, <1>2

\* Every step keeps decisions and answers apart.
LEMMA AnswerStep ==
    ASSUME "commit" \notin Faults, TypeInv, PlaceInv, CommitInv, AnswerInv,
           NEW r \in Requests, Action(r)
    PROVE  AnswerInv'
  <1>0. /\ pc \in [Requests -> PCs] /\ batch \in [Requests -> Seq(Requests)]
        /\ commits \in [Requests -> Nat] /\ ok \in [Requests -> BOOLEAN]
        /\ ack \in [Requests -> Answers \union {"none"}]
        /\ failed \in [Requests -> BOOLEAN]
    BY DEF TypeInv, TypeOK
  <1>a. \A s \in Requests \ {r} :
          pc'[s] = pc[s] /\ batch'[s] = batch[s] /\ ok'[s] = ok[s] /\ txn'[s] = txn[s]
    BY OthersStay, OthersOk, QueueStep DEF TypeInv
  <1>b. \A x \in Requests : commits[x] > 0 => commits'[x] > 0
    BY <1>0, CommitsGrow, CommitBatchFresh
  <1>c. \A l \in Requests : Range(batch[l]) \subseteq Requests
    BY <1>0 DEF Range
  <1>1. OkUntilFailure'
    BY <1>a, ResultMoves DEF AnswerInv, OkUntilFailure
  <1>2. SuccessCommitted'
    <2>1. ASSUME NEW l \in Requests, ok'[l], pc'[l] \in {"mark", "publish", "fill"},
                 NEW x \in Range(batch'[l])
          PROVE  commits'[x] > 0
      <3>1. CASE CommitSucceeds(r) /\ batch' = batch /\ l = r
        BY <2>1, <3>1, CommitBatchFresh
      <3>2. CASE ok[l] /\ pc[l] \in {"mark", "publish", "fill"} /\ x \in Range(batch[l])
        BY <1>b, <1>c, <3>2 DEF AnswerInv, SuccessCommitted
      <3> QED
        BY <1>a, <2>1, <3>1, <3>2, ResultMoves
    <2>2. ASSUME NEW x \in Requests, item'[x] = "filled", ~failed'[x]
          PROVE  commits'[x] > 0
      <3>1. CASE item[x] = "filled" /\ ~failed[x]
        BY <1>b, <3>1 DEF AnswerInv, SuccessCommitted
      <3>2. CASE x \in Range(batch[r]) /\ pc[r] = "fill" /\ ok[r]
        BY <1>b, <3>2 DEF AnswerInv, SuccessCommitted
      <3> QED
        BY <1>0, <2>2, <3>1, <3>2, ItemMoves
    <2> QED
      BY <2>1, <2>2 DEF SuccessCommitted
  <1>3. RejectedUncommitted'
    <2> SUFFICES ASSUME NEW x \in Rejected'
                 PROVE  commits'[x] = 0
      BY DEF RejectedUncommitted
    <2>1. CASE x \in Rejected
      <3>1. x \in Requests /\ commits[x] = 0
        BY <2>1, RejectedIs DEF AnswerInv, RejectedUncommitted
      <3> QED
        BY <2>1, <3>1, CommitsGrow, CommitBatchFresh
    <2>2. CASE (AttemptConflicts(r) \/ AttemptErrors(r)) /\ x \in Range(batch[r])
      <3>1. pc[r] = "attempt" /\ ~CommitSucceeds(r)
        BY <2>2 DEF AttemptConflicts, AttemptErrors, CommitSucceeds
      <3>2. x \in Requests /\ commits[x] = 0
        BY <2>2, <3>1, BatchUncommitted
      <3> QED
        BY <3>1, <3>2, CommitsGrow
    <2> QED
      BY <2>1, <2>2, RejectedMoves
  <1>4. FillsDone'
    <2> SUFFICES ASSUME NEW l \in Requests, pc'[l] = "fill"
                 PROVE  item'[Head(batch'[l])] = "done"
      BY DEF FillsDone
    <2>1. CASE l = r
      <3>1. MarkDone(r)
        BY <2>1, ResultMoves
      <3>2. batch[r] # <<>> /\ batch' = batch
        BY <3>1 DEF MarkDone, batchVars
      <3>3. Head(batch[r]) \in Requests
        BY <1>0, <3>2, HeadType
      <3> QED
        BY <2>1, <3>1, <3>2, <3>3 DEF MarkDone, TypeInv, TypeOK
    <2>2. CASE l # r
      <3>1. pc[l] = "fill" /\ batch'[l] = batch[l] /\ batch[l] # <<>>
        BY <1>a, <2>2 DEF TypeInv, HeadsExist
      <3>2. Head(batch[l]) \in Requests /\ Head(batch[l]) \in Range(batch[l])
        BY <1>0, <3>1, HeadType, ShortenedQueue DEF PlaceInv, NoRepeats
      <3>3. item[Head(batch[l])] = "done"
        BY <3>1 DEF AnswerInv, FillsDone
      <3>4. Head(batch[l]) \notin Range(batch[r])
        BY <2>2, <3>2, OneHolder
      <3> QED
        BY <3>1, <3>2, <3>3, <3>4, ItemMoves
    <2> QED
      BY <2>1, <2>2
  <1>5. RollbackOpen'
    BY <1>a, ResultMoves DEF AnswerInv, RollbackOpen
  <1>6. AnsweredLast'
    <2>1. Rejected \subseteq Rejected'
      BY RejectedMoves
    <2>2. CASE ack' = ack /\ pc[r] \notin {"answered", "wedged"}
      BY <1>a, <2>1, <2>2 DEF AnswerInv, AnsweredLast
    <2>3. CASE pc'[r] = "answered" /\ \E a \in Readable(r) : ack' = [ack EXCEPT ![r] = a]
      <3>1. PICK a \in Readable(r) : ack' = [ack EXCEPT ![r] = a]
        BY <2>3
      <3>2. ack'[r] = a /\ \A s \in Requests \ {r} : ack'[s] = ack[s]
        BY <1>0, <3>1
      <3> QED
        BY <1>a, <2>1, <2>3, <3>2, ReadableTrue DEF AnswerInv, AnsweredLast
    <2> QED
      BY <2>2, <2>3, AckMoves
  <1> QED
    BY <1>1, <1>2, <1>3, <1>4, <1>5, <1>6 DEF AnswerInv

\* AnswerInv holds while no commit throws.
THEOREM AnswerInvariant ==
    ASSUME "commit" \notin Faults
    PROVE  Spec => []AnswerInv
  <1>1. Init => AnswerInv
    BY DEF Init, AnswerInv, OkUntilFailure, SuccessCommitted, RejectedUncommitted, FillsDone,
           RollbackOpen, AnsweredLast, Rejected, HeldBy
  <1>2. TypeInv /\ PlaceInv /\ CommitInv /\ AnswerInv /\ [Next]_vars => AnswerInv'
    <2> SUFFICES ASSUME TypeInv, PlaceInv, CommitInv, AnswerInv, [Next]_vars
                 PROVE  AnswerInv'
      OBVIOUS
    <2>1. ASSUME NEW r \in Requests, Action(r)
          PROVE  AnswerInv'
      BY <2>1, AnswerStep
    <2>2. CASE UNCHANGED vars
      BY <2>2 DEF AnswerInv, OkUntilFailure, SuccessCommitted, RejectedUncommitted, FillsDone,
           RollbackOpen, AnsweredLast, Rejected, HeldBy,
           vars, queueVars, itemVars, inputVars, batchVars, txnVars, dbVars
    <2> QED
      BY <2>1, <2>2 DEF Next, Action
  <1> QED
    BY <1>1, <1>2, TypeInvariant, PlaceInvariant, CommitInvariant, PTL DEF Spec

\* A client that is told of an error has none of its rows in the table, with the result
\* of its batch read without the lock: true as long as no commit throws.
THEOREM ErrorsAreExact ==
    ASSUME "commit" \notin Faults
    PROVE  Spec => []ErrorMeansNotCommitted
  <1>1. AnswerInv => ErrorMeansNotCommitted
    BY DEF AnswerInv, AnsweredLast, RejectedUncommitted, ErrorMeansNotCommitted
  <1> QED
    BY <1>1, AnswerInvariant, PTL

--------------------------------------------------------------------------------
(* Refinement *)

\* A step of one request's thread is a step of AtomicIngest or none.
LEMMA RefineStep ==
    ASSUME "commit" \notin Faults, TypeInv, PlaceInv, CommitInv, AnswerInv,
           NEW r \in Requests, Action(r)
    PROVE  [Atomic!Next]_(Atomic!vars)
  <1> DEFINE C == {x \in Requests : commits[x] > 0}
             A == [x \in Requests |-> IF IsSuccess(ack[x]) THEN "ok" ELSE ack[x]]
             B == Range(batch[r])
  <1>0. /\ commits \in [Requests -> Nat]
        /\ ack \in [Requests -> Answers \union {"none"}]
        /\ B \subseteq Requests
    BY DEF TypeInv, TypeOK, Range
  <1>1. CASE CommitSucceeds(r)
    <2>1. \A x \in B : x \notin C /\ x \notin Rejected
      BY <1>0, <1>1, CommitBatchFresh
    <2>2. C' = C \union B
      <3>1. \A x \in Requests : commits'[x] > 0 <=> commits[x] > 0 \/ x \in B
        BY <1>0, <1>1, CommitBatchFresh, CommitsGrow
      <3> QED
        BY <1>0, <3>1
    <2>3. Rejected' = Rejected
      <3>1. ~AttemptConflicts(r) /\ ~AttemptErrors(r)
        BY <1>1 DEF CommitSucceeds, AttemptConflicts, AttemptErrors
      <3> QED
        BY <3>1, RejectedMoves
    <2>4. ack' = ack
      BY <1>1 DEF CommitSucceeds, itemVars
    <2>5. CASE B = {}
      <3>1. C' = C
        BY <2>2, <2>5
      <3> QED
        BY <2>3, <2>4, <3>1 DEF Atomic!vars
    <2>6. CASE B # {}
      <3>1. PICK S \in (SUBSET Requests) \ {{}} : S = B
        BY <1>0, <2>6
      <3>2. Atomic!CommitBatch(S)
        BY <2>1, <2>2, <2>3, <2>4, <3>1 DEF Atomic!CommitBatch, Atomic!Decided
      <3> QED
        BY <3>2 DEF Atomic!Next
    <2> QED
      BY <2>5, <2>6
  <1>2. CASE ~CommitSucceeds(r)
    <2>1. commits' = commits
      BY <1>2, CommitsStay DEF dbVars
    <2>2. CASE Return(r)
      <3>1. Rejected' = Rejected
        <4>1. ~AttemptConflicts(r) /\ ~AttemptErrors(r)
          BY <2>2 DEF Return, AttemptConflicts, AttemptErrors
        <4> QED
          BY <4>1, RejectedMoves
      <3>2. PICK a \in Readable(r) : ack' = [ack EXCEPT ![r] = a]
        BY <2>2 DEF Return
      <3>3. /\ a \in Answers
            /\ a = "error" => r \in Rejected
            /\ a # "error" => r \in Rejected \/ commits[r] > 0
        BY ReadableTrue
      <3>4. ack[r] = "none"
        BY <2>2 DEF Return, AnswerInv, AnsweredLast
      <3> DEFINE b == IF a = "error" THEN "error" ELSE "ok"
      <3>5. A[r] = "none" /\ A' = [A EXCEPT ![r] = b]
        BY <1>0, <3>2, <3>3, <3>4 DEF IsSuccess, Answers
      <3>6. Atomic!Answer(r, b)
        BY <2>1, <3>1, <3>3, <3>5 DEF Atomic!Answer, Atomic!Decided
      <3> QED
        BY <3>6 DEF Atomic!Next
    <2>3. CASE ~Return(r)
      <3>1. ack' = ack
        BY <2>3, AckMoves
      <3>2. CASE Rejected' = Rejected
        BY <2>1, <3>1, <3>2 DEF Atomic!vars
      <3>3. CASE /\ AttemptConflicts(r) \/ AttemptErrors(r)
                 /\ Rejected' = Rejected \union B
        <4>1. pc[r] = "attempt"
          BY <3>3 DEF AttemptConflicts, AttemptErrors
        <4>2. \A x \in B : /\ x \in Requests /\ item[x] = "queued" /\ commits[x] = 0
                           /\ \A l \in Requests : x \in Range(batch[l]) => l = r
          BY <4>1, BatchUncommitted, OneHolder
        <4>3. \A x \in B : x \notin C /\ x \notin Rejected
          BY <4>1, <4>2, RejectedIs DEF RejectedAt
        <4>4. CASE B = {}
          <5>1. Rejected' = Rejected
            BY <3>3, <4>4
          <5> QED
            BY <2>1, <3>1, <5>1 DEF Atomic!vars
        <4>5. CASE B # {}
          <5>1. PICK S \in (SUBSET Requests) \ {{}} : S = B
            BY <1>0, <4>5
          <5>2. Atomic!RejectBatch(S)
            BY <2>1, <3>1, <3>3, <4>3, <5>1 DEF Atomic!RejectBatch, Atomic!Decided
          <5> QED
            BY <5>2 DEF Atomic!Next
        <4> QED
          BY <4>4, <4>5
      <3> QED
        BY <3>2, <3>3, RejectedMoves
    <2> QED
      BY <2>2, <2>3
  <1> QED
    BY <1>1, <1>2

\* Leaders, queues, retries and results published without the lock implement batches
\* that are decided as a whole and once, and answered after, while no commit throws.
THEOREM GroupCommitIsAtomic ==
    ASSUME "commit" \notin Faults
    PROVE  Spec => ImplementsAtomicIngest
  <1>1. Init => Atomic!Init
    BY DEF Init, Atomic!Init, Rejected, HeldBy, IsSuccess
  <1>2. TypeInv /\ PlaceInv /\ CommitInv /\ AnswerInv /\ [Next]_vars => [Atomic!Next]_(Atomic!vars)
    <2> SUFFICES ASSUME TypeInv, PlaceInv, CommitInv, AnswerInv, [Next]_vars
                 PROVE  [Atomic!Next]_(Atomic!vars)
      OBVIOUS
    <2>1. ASSUME NEW r \in Requests, Action(r)
          PROVE  [Atomic!Next]_(Atomic!vars)
      BY <2>1, RefineStep
    <2>2. CASE UNCHANGED vars
      BY <2>2 DEF Atomic!vars, Rejected, HeldBy, IsSuccess,
           vars, queueVars, itemVars, inputVars, batchVars, txnVars, dbVars
    <2> QED
      BY <2>1, <2>2 DEF Next, Action
  <1> QED
    BY <1>1, <1>2, TypeInvariant, PlaceInvariant, CommitInvariant, AnswerInvariant, PTL
       DEF Spec, ImplementsAtomicIngest, Atomic!Spec
================================================================================
