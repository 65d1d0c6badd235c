------------------------------ MODULE AtomicIngest ------------------------------
(***************************************************************************)
(* What group commit promises its callers, with no leaders, queues or      *)
(* wake-ups: requests are decided in batches, every batch as a whole and   *)
(* every request once, and no request is answered before it is decided.    *)
(* An error answer is exact: the request was rejected.  A success answer   *)
(* only says that the request was decided, which is all that results       *)
(* published without the lock can promise (see AnswerIsTrue of             *)
(* GroupCommit for the stronger promise).                                  *)
(***************************************************************************)
CONSTANT Requests

VARIABLES committed, rejected, answer
vars == <<committed, rejected, answer>>

Decided == committed \union rejected

Init ==
    /\ committed = {}
    /\ rejected = {}
    /\ answer = [r \in Requests |-> "none"]

\* One transaction carries the rows of every request of the batch S.
CommitBatch(S) ==
    /\ S \intersect Decided = {}
    /\ committed' = committed \union S
    /\ UNCHANGED <<rejected, answer>>

RejectBatch(S) ==
    /\ S \intersect Decided = {}
    /\ rejected' = rejected \union S
    /\ UNCHANGED <<committed, answer>>

Answer(r, a) ==
    /\ answer[r] = "none"
    /\ r \in IF a = "error" THEN rejected ELSE Decided
    /\ answer' = [answer EXCEPT ![r] = a]
    /\ UNCHANGED <<committed, rejected>>

Next ==
    \/ \E S \in (SUBSET Requests) \ {{}} : CommitBatch(S) \/ RejectBatch(S)
    \/ \E r \in Requests, a \in {"ok", "error"} : Answer(r, a)

Spec == Init /\ [][Next]_vars
================================================================================
