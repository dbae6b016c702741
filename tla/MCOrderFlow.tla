----------------------------- MODULE MCOrderFlow -----------------------------
(* One order, a publisher that may end and the one that follows it, and a  *)
(* worker that is restarted.                                               *)
EXTENDS OrderFlow

CONSTANTS o1, p1, p2, w1, created, retry

MCOrder == {o1}
MCVerdict == [o \in MCOrder |-> "CONFIRMED"]
MCKind == [o \in MCOrder |-> "valid"]
MCCreatedAt == [e \in Events |-> IF e[2] = "OrderCreated" THEN 0 ELSE 1]
MCPartition == {created, retry}
MCCreatedOf == [o \in MCOrder |-> created]
MCRetryOf == [o \in MCOrder |-> retry]
MCOwners == {p1, p2}
MCMortal == {p1}
MCWorker == {w1}
=============================================================================
