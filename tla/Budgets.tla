------------------------------- MODULE Budgets -------------------------------
(***************************************************************************)
(* The time an order worker needs for a batch, against the start-up check  *)
(* that is to keep it below the rebalance timeout of the consumer group.   *)
(* Times are in seconds; the clocks of all workers agree.                  *)
(***************************************************************************)
EXTENDS Integers, FiniteSets, FiniteSetsExt

CONSTANTS
    Worker,            \* goroutines of the pool (ORDER_WORKERS)
    BatchSize,         \* KAFKA_BATCH_SIZE
    Durations,         \* values KAFKA_RETRY_MAX_BACKOFF and ORDER_PROCESSING_TIMEOUT may have
    RebalanceTimeout

VARIABLES
    config,  \* maxBackoff and processingTimeout of the process
    left,    \* records of the batch that no goroutine has taken
    free     \* when each goroutine is done with its records, counted from the poll

vars == <<config, left, free>>

Workers == Cardinality(Worker)

(* The check of worstCaseBatch in run; Duration refuses what is not > 0.   *)
Accepted(c) ==
    /\ c.maxBackoff > 0 /\ c.processingTimeout > 0
    /\ ((BatchSize + Workers - 1) \div Workers) * (c.maxBackoff + c.processingTimeout + 15)
          < RebalanceTimeout

Init ==
    /\ config \in {c \in [maxBackoff : Durations, processingTimeout : Durations] : Accepted(c)}
    /\ left = BatchSize
    /\ free = [w \in Worker |-> 0]

(* The calls of processRecord may take IsProcessed 5, Process its timeout, *)
(* Complete 5 and, when that failed, route 10 seconds.                     *)
CallLimit == 5 + config.processingTimeout + 5 + 10

(* The goroutine that is free first takes the next record, waits until its *)
(* not_before, which is no later than the poll plus maxBackoff, and makes  *)
(* its calls, which take no time or all they may take.                     *)
Handle(w) ==
    /\ left > 0
    /\ \A v \in Worker : free[w] <= free[v]
    /\ \E notBefore \in {0, config.maxBackoff}, calls \in {0, CallLimit} :
          free' = [free EXCEPT ![w] = Max({@, notBefore}) + calls]
    /\ left' = left - 1
    /\ UNCHANGED config

(* The pool is done: the offsets are committed and the next poll returns.  *)
NextBatch ==
    /\ left = 0
    /\ left' = BatchSize
    /\ free' = [w \in Worker |-> 0]
    /\ UNCHANGED config

Next == NextBatch \/ \E w \in Worker : Handle(w)

Spec == Init /\ [][Next]_vars

(* The start-up check keeps the handling of a batch below the rebalance    *)
(* timeout, so that a worker that blocks rebalances is not expelled.       *)
BatchBelowRebalanceTimeout == \A w \in Worker : free[w] < RebalanceTimeout
=============================================================================
