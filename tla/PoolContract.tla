---------------------------- MODULE PoolContract ----------------------------
(***************************************************************************)
(* What the publisher and the order worker rely on when they hand a batch  *)
(* to workerpool.Process, and what Outbox and Consumer take a pool to be:  *)
(* every item is handled once or refused because the context has ended,    *)
(* at most Limit handlers run at a time, and the answer comes after the    *)
(* last of them.                                                           *)
(***************************************************************************)
EXTENDS Integers, FiniteSets

CONSTANTS
    Item,     \* indices a batch can have
    Limit     \* handlers that may run at once

VARIABLES
    result,    \* what has become of each item
    answered,  \* TRUE when no call is in progress
    canceled   \* the context has ended

vars == <<result, answered, canceled>>

Idle == [i \in Item |-> "none"]

Init ==
    /\ result = Idle
    /\ answered = TRUE
    /\ canceled = FALSE

(* A call with the items of S.                                             *)
Accept(S) ==
    /\ answered
    /\ result' = [i \in Item |-> IF i \in S THEN "queued" ELSE "none"]
    /\ answered' = FALSE
    /\ UNCHANGED canceled

Running == {i \in Item : result[i] = "running"}

Start(i) ==
    /\ result[i] = "queued"
    /\ ~canceled
    /\ Cardinality(Running) < Limit
    /\ result' = [result EXCEPT ![i] = "running"]
    /\ UNCHANGED <<answered, canceled>>

Finish(i) ==
    /\ result[i] = "running"
    /\ \E r \in {"nil", "failed"} : result' = [result EXCEPT ![i] = r]
    /\ UNCHANGED <<answered, canceled>>

Refuse(i) ==
    /\ result[i] = "queued"
    /\ canceled
    /\ result' = [result EXCEPT ![i] = "canceled"]
    /\ UNCHANGED <<answered, canceled>>

Answer ==
    /\ ~answered
    /\ \A i \in Item : result[i] \notin {"queued", "running"}
    /\ answered' = TRUE
    /\ UNCHANGED <<result, canceled>>

Cancel == canceled' = TRUE /\ UNCHANGED <<result, answered>>

Next ==
    \/ \E S \in SUBSET Item : Accept(S)
    \/ \E i \in Item : Start(i) \/ Finish(i) \/ Refuse(i)
    \/ Answer
    \/ Cancel

Spec == Init /\ [][Next]_vars
=============================================================================
