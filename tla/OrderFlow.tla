------------------------------ MODULE OrderFlow ------------------------------
(***************************************************************************)
(* The three programs together: the order service places an order and the  *)
(* first outbox row, the publishers of Outbox carry rows to Kafka, the     *)
(* workers of Consumer settle the order and insert the second outbox row.  *)
(*                                                                         *)
(* An outbox row is an order and the type of its event.  The created event *)
(* of an order is the consumer's event with the order's name; a record of  *)
(* the created topic is a publication of that row and nothing else.        *)
(*                                                                         *)
(* Both ways in which the code can forget an order are parameters: a poll  *)
(* with records and an error (MixedFetch), and an event that publishOne    *)
(* refuses although event.New accepted it (Unpublishable).                 *)
(***************************************************************************)
EXTENDS Integers, Sequences, FiniteSets

CONSTANTS
    Order,
    Verdict,        \* what the processor computes for each order
    Unpublishable,  \* orders with an event that JSON makes invalid, see OrderService
    CreatedAt,      \* created_at of the outbox rows
    Owners,         \* publisher processes
    Mortal,       \* the publishers that may terminate
    NoOwner,
    OutboxBatch,  \* OUTBOX_BATCH_SIZE
    OutboxPool,   \* OUTBOX_WORKERS
    MaxLate,
    LeaseCovers,
    Kind,           \* "unsettleable": Complete is refused every time, e.g. by a CHECK
    Partition,      \* of the created and of the retry topic
    CreatedOf,
    RetryOf,
    Worker,         \* order-worker processes
    Nobody,
    MaxRetries,     \* KAFKA_MAX_RETRIES
    BatchSize,      \* KAFKA_BATCH_SIZE
    PoolSize,       \* ORDER_WORKERS
    MaxLog,
    MaxFaults,
    MixedFetch,     \* TRUE: a poll may return records and a partition error at once
    ClockSkew

Row(o, type) == <<o, type>>
Created(o) == Row(o, "OrderCreated")
Changed(o) == Row(o, "OrderStatusChanged")
Events == Order \X {"OrderCreated", "OrderStatusChanged"}

ASSUME OrderFlowAssumption ==
    /\ Verdict \in [Order -> {"CONFIRMED", "FAILED"}]
    /\ Unpublishable \subseteq Order
    /\ CreatedAt \in [Events -> Nat]
    /\ Kind \in [Order -> {"valid", "unsettleable"}]
    /\ CreatedOf \in [Order -> Partition]
    /\ RetryOf \in [Order -> Partition]
    /\ \A o, u \in Order : CreatedOf[o] # RetryOf[u]
    /\ Mortal \subseteq Owners
    /\ NoOwner \notin Owners
    /\ OutboxBatch \in Nat \ {0}
    /\ OutboxPool \in Nat \ {0}
    /\ MaxLate \in Nat
    /\ LeaseCovers \in BOOLEAN
    /\ Nobody \notin Worker
    /\ MaxRetries \in Nat
    /\ BatchSize \in Nat \ {0}
    /\ PoolSize \in Nat \ {0}
    /\ MaxLog \in Nat \ {0}
    /\ MaxFaults \in Nat
    /\ MixedFetch \in BOOLEAN
    /\ ClockSkew \in BOOLEAN

VARIABLES
    orders,                                                    \* rows of the table orders
    rowStatus, lockedBy, lockedUntil, due,                     \* outbox_events
    topic, job, alive, late, lateClaims,                       \* the publishers
    log, dlq, committed, owner, position, state, stage,        \* Kafka and the workers
    processed, status, announced, limbo, faults                \* what the workers store

outboxVars == <<rowStatus, lockedBy, lockedUntil, due, topic, job, alive, late, lateClaims>>
workerVars == <<log, dlq, committed, owner, position, processed, status, announced, limbo,
                state, stage, faults>>
vars == <<orders, outboxVars, workerVars>>

Outbox == INSTANCE Outbox WITH
    Invalid <- {Created(o) : o \in Unpublishable},
    BatchSize <- OutboxBatch, Workers <- OutboxPool,
    status <- rowStatus, stage <- job

Consumer == INSTANCE Consumer WITH
    Event <- Order,
    OrderOf <- [o \in Order |-> o]

Init == orders = {} /\ Outbox!Init /\ Consumer!Init

-----------------------------------------------------------------------------
(* Mutant of Create: the order is stored, its event by a later write.      *)
CreateAlone(o) ==
    /\ o \notin orders
    /\ orders' = orders \cup {o}
    /\ UNCHANGED <<outboxVars, workerVars>>

(* CreateWithEvent commits: the order and its row, in one transaction.     *)
Create(o) ==
    /\ o \notin orders
    /\ orders' = orders \cup {o}
    /\ Outbox!Insert(Created(o))
    /\ UNCHANGED workerVars

(* Kafka appends the created event of o, acknowledged or not.              *)
PublishCreated(p, o) ==
    /\ \/ Outbox!PublishAck(p, Created(o))
       \/ Outbox!PublishError(p, Created(o)) /\ Created(o) \in topic'
    /\ Consumer!Deliver(o)
    /\ UNCHANGED orders

(* Nothing the workers read is appended.                                   *)
PublishOther(p, o) ==
    /\ \/ Outbox!PublishError(p, Created(o)) /\ topic' = topic
       \/ Outbox!PublishAck(p, Changed(o))
       \/ Outbox!PublishError(p, Changed(o))
    /\ UNCHANGED <<orders, workerVars>>

(* The rest of a publisher's steps.  A record that is appended while its   *)
(* publisher ends is an error of Publish just before the end.              *)
PublisherStep ==
    /\ \/ \E e \in Events : Outbox!LeaseExpires(e) \/ Outbox!BecomesDue(e)
       \/ \E p \in Owners :
             \/ Outbox!Claim(p)
             \/ Outbox!ClaimError(p)
             \/ Outbox!LateClaim(p)
             \/ Outbox!LateClaimDrop(p)
             \/ Outbox!Terminate(p) /\ topic' = topic
       \/ \E p \in Owners, e \in Events :
             \/ Outbox!Start(p, e)
             \/ Outbox!Close(p, e)
             \/ Outbox!Abandon(p, e)
             \/ \E op \in Outbox!Statements :
                   Outbox!LateExecute(op, p, e) \/ Outbox!LateDrop(op, p, e)
    /\ UNCHANGED <<orders, workerVars>>

(* Mutant of Announce: the row is inserted when Complete has returned nil, *)
(* so not for a COMMIT whose answer was lost.                              *)
AnnounceReported ==
    IF status' = status \/ limbo' # limbo THEN UNCHANGED outboxVars
    ELSE \E o \in Order : status'[o] # status[o] /\ Outbox!Insert(Changed(o))

(* Mutant of Announce: the row is inserted without knowing the outcome of  *)
(* the transaction.                                                        *)
AnnounceUnsettled ==
    IF limbo' \subseteq limbo THEN UNCHANGED outboxVars
    ELSE \E o \in limbo' \ limbo : Outbox!Insert(Changed(o))

(* The INSERT of Complete, in the transaction that settles the order.      *)
Announce ==
    IF status' = status THEN UNCHANGED outboxVars
    ELSE \E o \in Order : status'[o] # status[o] /\ Outbox!Insert(Changed(o))

(* A step of the workers or of Kafka; only publishers write the topic.     *)
WorkerStep ==
    /\ Consumer!Next
    /\ \A o \in Order : log'[CreatedOf[o]] = log[CreatedOf[o]]
    /\ Announce
    /\ UNCHANGED orders

Next ==
    \/ \E o \in Order : Create(o)
    \/ \E p \in Owners, o \in Order : PublishCreated(p, o) \/ PublishOther(p, o)
    \/ PublisherStep
    \/ WorkerStep

Spec == Init /\ [][Next]_vars

-----------------------------------------------------------------------------
Life == INSTANCE OrderLife WITH
    life <- [o \in Order |-> IF o \in orders THEN status[o] ELSE "ABSENT"],
    told <- {o \in Order : Changed(o) \in topic}

(* The three programs implement the life of an order: nothing is settled   *)
(* before it is placed, settled twice, or announced before it is settled,  *)
(* whatever is published twice, retried, fenced off or lost on the way.    *)
ImplementsLife == Life!Spec

(* An order the client was told of is not forgotten: it is settled, its    *)
(* event is in the dead letter queue or in a record nobody has passed, or  *)
(* the row of the event is still to be published.  Left out are the orders *)
(* with an event that publishOne refuses; and with a mixed fetch, whose    *)
(* records Run drops, this does not hold.                                  *)
NoOrderLost ==
    \A o \in orders \ Unpublishable :
        \/ status[o] # "PENDING"
        \/ Consumer!DeadLettered(o)
        \/ Consumer!Outstanding(o)
        \/ rowStatus[Created(o)] \in {"PENDING", "PROCESSING"}

(* The decision on an order is not left untold: its OrderStatusChanged     *)
(* event is on Kafka, or the row of it is still to be published, however   *)
(* the transaction of Complete was reported and whoever publishes the row. *)
NoDecisionLost ==
    \A o \in Order : status[o] # "PENDING" =>
        Changed(o) \in topic \/ rowStatus[Changed(o)] \in {"PENDING", "PROCESSING"}
=============================================================================
