------------------------------ MODULE Consumer ------------------------------
(***************************************************************************)
(* The order worker: processes of one Kafka consumer group that poll       *)
(* batches of OrderCreated records, handle them in a bounded pool, move    *)
(* the failed ones to a retry topic or to the dead letter queue, settle    *)
(* orders in PostgreSQL and commit the offsets of a batch when all of it   *)
(* is done (internal/consumer, cmd/order-worker).                          *)
(*                                                                         *)
(* A record is the event it carries and its attempt header.  The group     *)
(* coordinator and the brokers are modelled from how the code uses them.   *)
(* not_before, backoff and timeouts only delay steps, which may take any   *)
(* time here; business results are fixed by the payload.                   *)
(***************************************************************************)
EXTENDS Integers, Sequences, FiniteSets

CONSTANTS
    Event,       \* ids of OrderCreated events
    Kind,        \* what is wrong with an event, see Kinds
    Order,       \* orders in the table orders
    OrderOf,     \* aggregate_id of an event
    Verdict,     \* result.Status the processor computes for an event
    Partition,   \* partitions of the created and of the retry topic
    CreatedOf,   \* partition of the created topic the event's key hashes to
    RetryOf,     \* the same for the retry topic
    Worker,      \* order-worker processes
    Nobody,      \* a partition that is assigned to no worker
    MaxRetries,  \* KAFKA_MAX_RETRIES
    BatchSize,   \* KAFKA_BATCH_SIZE
    PoolSize,    \* ORDER_WORKERS
    MaxLog,      \* bound: records per partition
    MaxFaults,   \* bound: faults in one behaviour
    MixedFetch,  \* TRUE: a poll may return records and a partition error at once
    ClockSkew    \* TRUE: clocks may differ by more than the 5 s that are tolerated

(* "malformed": headers, JSON, envelope or key are refused before the      *)
(* database is asked; "badPayload": refused after it; "unsettleable":      *)
(* Complete can only fail, as there is no such row in orders.              *)
Kinds == {"valid", "malformed", "badPayload", "unsettleable"}

ASSUME ConsumerAssumption ==
    /\ Kind \in [Event -> Kinds]
    /\ OrderOf \in [Event -> Order]
    /\ Verdict \in [Event -> {"CONFIRMED", "FAILED"}]
    /\ CreatedOf \in [Event -> Partition]
    /\ RetryOf \in [Event -> Partition]
    /\ \A e, f \in Event : CreatedOf[e] # RetryOf[f]
    /\ Nobody \notin Worker
    /\ MaxRetries \in Nat
    /\ BatchSize \in Nat \ {0}
    /\ PoolSize \in Nat \ {0}
    /\ MaxLog \in Nat \ {0}
    /\ MaxFaults \in Nat
    /\ MixedFetch \in BOOLEAN
    /\ ClockSkew \in BOOLEAN

VARIABLES
    log,        \* records of each partition
    dlq,        \* records of the dead letter topic
    committed,  \* committed offset of each partition: how many records are done
    owner,      \* worker each partition is assigned to
    position,   \* records of the partition its owner has polled
    state,      \* state of each worker process
    stage,      \* where each record of a worker's batch is in processRecord
    processed,  \* the table processed_events
    status,     \* orders.status
    announced,  \* OrderStatusChanged events in the outbox, per order
    limbo,      \* Complete transactions given up by the client while committing
    faults      \* faults so far

kafkaVars == <<log, dlq, committed, owner, position>>
dbVars == <<processed, status, announced, limbo>>
vars == <<kafkaVars, dbVars, state, stage, faults>>

Record == [event : Event, attempt : 0 .. MaxRetries]
DeadLetter == [event : Event, attempt : 0 .. MaxRetries + 1]
Offset == 1 .. MaxLog

(* "idle": in PollRecords, rebalances allowed.  "busy": a batch is being    *)
(* handled and rebalances are blocked.  "zombie": the same, but the group   *)
(* has expelled the member.  "down": the process has exited.               *)
States == {"idle", "busy", "zombie", "down"}

(* "ok" and "error" are the results of processRecord.                      *)
Active == {"check", "process", "complete", "retry", "dlq"}
Stages == {"none", "queued", "ok", "error"} \cup Active

TypeOK ==
    /\ log \in [Partition -> Seq(Record)]
    /\ \A p \in Partition : Len(log[p]) <= MaxLog
    /\ dlq \subseteq DeadLetter
    /\ committed \in [Partition -> 0 .. MaxLog]
    /\ owner \in [Partition -> Worker \cup {Nobody}]
    /\ position \in [Partition -> 0 .. MaxLog]
    /\ state \in [Worker -> States]
    /\ stage \in [Worker -> [Partition \X Offset -> Stages]]
    /\ processed \subseteq Event
    /\ status \in [Order -> {"PENDING", "CONFIRMED", "FAILED"}]
    /\ announced \in [Order -> Nat]
    /\ limbo \subseteq Event
    /\ faults \in 0 .. MaxFaults

NoBatch == [i \in Partition \X Offset |-> "none"]

Init ==
    /\ log = [p \in Partition |-> << >>]
    /\ dlq = {}
    /\ committed = [p \in Partition |-> 0]
    /\ owner = [p \in Partition |-> Nobody]
    /\ position = [p \in Partition |-> 0]
    /\ state = [w \in Worker |-> "down"]
    /\ stage = [w \in Worker |-> NoBatch]
    /\ processed = {}
    /\ status = [o \in Order |-> "PENDING"]
    /\ announced = [o \in Order |-> 0]
    /\ limbo = {}
    /\ faults = 0

Fault == faults < MaxFaults /\ faults' = faults + 1

-----------------------------------------------------------------------------
(* Kafka.                                                                  *)

Produce(p, r) == Len(log[p]) < MaxLog /\ log' = [log EXCEPT ![p] = Append(@, r)]

RecordAt(i) == log[i[1]][i[2]]

Delivered(e) == \E k \in DOMAIN log[CreatedOf[e]] : log[CreatedOf[e]][k].event = e

(* Somebody puts e on the created topic: the outbox publisher, a second    *)
(* time after a fault of its own, or whoever wrote a malformed record.     *)
Deliver(e) ==
    /\ Produce(CreatedOf[e], [event |-> e, attempt |-> 0])
    /\ IF Delivered(e) THEN Fault ELSE UNCHANGED faults
    /\ UNCHANGED <<dlq, committed, owner, position, dbVars, state, stage>>

(* An unassigned partition goes to a member, which starts at the committed *)
(* offset; only members that allow rebalances take part.                   *)
Assign(p, w) ==
    /\ owner[p] = Nobody
    /\ state[w] = "idle"
    /\ owner' = [owner EXCEPT ![p] = w]
    /\ position' = [position EXCEPT ![p] = committed[p]]
    /\ UNCHANGED <<log, dlq, committed, dbVars, state, stage, faults>>

(* Mutant of Revoke: the client is built without BlockRebalanceOnPoll. *)
RevokeUnblocked(p) ==
    /\ owner[p] # Nobody
    /\ Fault
    /\ owner' = [owner EXCEPT ![p] = Nobody]
    /\ UNCHANGED <<log, dlq, committed, position, dbVars, state, stage>>

(* A rebalance takes a partition from a member that allows it: after a     *)
(* poll with records BlockRebalanceOnPoll holds it off until AllowRebalance. *)
Revoke(p) ==
    /\ owner[p] # Nobody
    /\ state[owner[p]] = "idle"
    /\ Fault
    /\ owner' = [owner EXCEPT ![p] = Nobody]
    /\ UNCHANGED <<log, dlq, committed, position, dbVars, state, stage>>

Disown(w) == owner' = [p \in Partition |-> IF owner[p] = w THEN Nobody ELSE owner[p]]

(* The rebalance timeout or the session timeout passes during a batch: the *)
(* member is expelled and does not know it.                                *)
Expel(w) ==
    /\ state[w] = "busy"
    /\ Fault
    /\ state' = [state EXCEPT ![w] = "zombie"]
    /\ Disown(w)
    /\ UNCHANGED <<log, dlq, committed, position, dbVars, stage>>

-----------------------------------------------------------------------------
(* Run.                                                                    *)

(* The records a poll returns: the next ones of each partition of w, at    *)
(* most BatchSize in all.                                                  *)
Polls(w) ==
    {n \in [Partition -> 0 .. BatchSize] :
        /\ \A p \in Partition :
              n[p] > 0 => owner[p] = w /\ position[p] + n[p] <= Len(log[p])
        /\ LET items == {i \in Partition \X (1 .. BatchSize) : i[2] <= n[i[1]]}
           IN items # {} /\ Cardinality(items) <= BatchSize}

InPoll(n, i) == position[i[1]] < i[2] /\ i[2] <= position[i[1]] + n[i[1]]

Advance(n) == position' = [p \in Partition |-> position[p] + n[p]]

(* A poll with records and no error: the pool gets all of them.            *)
Poll(w) ==
    /\ state[w] = "idle"
    /\ \E n \in Polls(w) :
          /\ Advance(n)
          /\ stage' = [stage EXCEPT ![w] =
                [i \in Partition \X Offset |-> IF InPoll(n, i) THEN "queued" ELSE "none"]]
    /\ state' = [state EXCEPT ![w] = "busy"]
    /\ UNCHANGED <<log, dlq, committed, owner, dbVars, faults>>

(* A poll that also reports a partition error: Run logs it and polls again. *)
PollError(w) ==
    /\ MixedFetch
    /\ state[w] = "idle"
    /\ Fault
    /\ \E n \in Polls(w) : Advance(n)
    /\ UNCHANGED <<log, dlq, committed, owner, dbVars, state, stage>>

Batch(w) == {i \in Partition \X Offset : stage[w][i] # "none"}
Finished(w) == \A i \in Batch(w) : stage[w][i] \in {"ok", "error"}

(* Mutant of Succeeded: the first handler that returns releases the batch. *)
SucceededOnce(w) == \E i \in Batch(w) : stage[w][i] = "ok"

(* Mutant of Succeeded: errors are not collected. *)
SucceededAnyhow(w) == Finished(w)

Succeeded(w) == \A i \in Batch(w) : stage[w][i] = "ok"

(* CommitRecords: per partition the offset after the last record.          *)
CommittedAfter(w) ==
    [p \in Partition |->
        LET done == {k \in Offset : <<p, k>> \in Batch(w)}
        IN IF done = {} THEN committed[p] ELSE CHOOSE k \in done : \A j \in done : j <= k]

CommitBatch(w) ==
    /\ state[w] = "busy"
    /\ Succeeded(w)
    /\ committed' = CommittedAfter(w)
    /\ state' = [state EXCEPT ![w] = "idle"]
    /\ stage' = [stage EXCEPT ![w] = NoBatch]
    /\ UNCHANGED <<log, dlq, owner, position, dbVars, faults>>

(* The process ends: it leaves the group and its batch is forgotten.       *)
Exit(w) ==
    /\ state' = [state EXCEPT ![w] = "down"]
    /\ stage' = [stage EXCEPT ![w] = NoBatch]
    /\ Disown(w)

(* The commit is reported as failed, and may have been stored: Run returns. *)
CommitError(w) ==
    /\ state[w] = "busy"
    /\ Succeeded(w)
    /\ Fault
    /\ committed' \in {committed, CommittedAfter(w)}
    /\ Exit(w)
    /\ UNCHANGED <<log, dlq, position, dbVars>>

(* The coordinator refuses the commit of an expelled member: Run returns.  *)
CommitRefused(w) ==
    /\ state[w] = "zombie"
    /\ Succeeded(w)
    /\ Exit(w)
    /\ UNCHANGED <<log, dlq, committed, position, dbVars, faults>>

(* Mutant of FailBatch: Run logs the error and polls on. *)
FailBatchContinues(w) ==
    /\ state[w] \in {"busy", "zombie"}
    /\ Finished(w) /\ ~Succeeded(w)
    /\ state' = [state EXCEPT ![w] = "idle"]
    /\ stage' = [stage EXCEPT ![w] = NoBatch]
    /\ UNCHANGED <<kafkaVars, dbVars, faults>>

(* Some record was not handled: Run returns without a commit.              *)
FailBatch(w) ==
    /\ state[w] \in {"busy", "zombie"}
    /\ Finished(w) /\ ~Succeeded(w)
    /\ Exit(w)
    /\ UNCHANGED <<log, dlq, committed, position, dbVars, faults>>

(* A crash, or SIGTERM, whose canceled context fails all of the batch.     *)
Terminate(w) ==
    /\ state[w] # "down"
    /\ Fault
    /\ Exit(w)
    /\ UNCHANGED <<log, dlq, committed, position, dbVars>>

(* The orchestrator starts the process again.                              *)
Restart(w) ==
    /\ state[w] = "down"
    /\ state' = [state EXCEPT ![w] = "idle"]
    /\ UNCHANGED <<kafkaVars, dbVars, stage, faults>>

-----------------------------------------------------------------------------
(* processRecord, for record i of the batch of w.                          *)

Goto(w, i, s) == stage' = [stage EXCEPT ![w][i] = s]

Running(w) == {i \in Batch(w) : stage[w][i] \in Active}

(* A pool worker takes the record; headers, envelope and key are checked.  *)
Start(w, i) ==
    /\ stage[w][i] = "queued"
    /\ Cardinality(Running(w)) < PoolSize
    /\ LET r == RecordAt(i)
           refused == Kind[r.event] = "malformed" \/ r.attempt > MaxRetries
       IN Goto(w, i, IF refused THEN "dlq" ELSE "check")
    /\ UNCHANGED <<kafkaVars, dbVars, state, faults>>

(* not_before of a retry record lies too far ahead of this worker's clock. *)
StartSkewed(w, i) ==
    /\ ClockSkew
    /\ stage[w][i] = "queued"
    /\ Cardinality(Running(w)) < PoolSize
    /\ RecordAt(i).attempt > 0
    /\ Fault
    /\ Goto(w, i, "dlq")
    /\ UNCHANGED <<kafkaVars, dbVars, state>>

(* Mutant of Check: the payload is not validated. *)
CheckTrusting(w, i) ==
    /\ stage[w][i] = "check"
    /\ Goto(w, i, IF RecordAt(i).event \in processed THEN "ok" ELSE "process")
    /\ UNCHANGED <<kafkaVars, dbVars, state, faults>>

(* IsProcessed, then the payload is checked.                               *)
Check(w, i) ==
    /\ stage[w][i] = "check"
    /\ LET e == RecordAt(i).event
       IN Goto(w, i, IF e \in processed THEN "ok"
                     ELSE IF Kind[e] = "badPayload" THEN "dlq" ELSE "process")
    /\ UNCHANGED <<kafkaVars, dbVars, state, faults>>

Process(w, i) ==
    /\ stage[w][i] = "process"
    /\ Goto(w, i, "complete")
    /\ UNCHANGED <<kafkaVars, dbVars, state, faults>>

(* IsProcessed or the processor failed or timed out.                       *)
StepError(w, i) ==
    /\ stage[w][i] \in {"check", "process"}
    /\ Fault
    /\ Goto(w, i, "retry")
    /\ UNCHANGED <<kafkaVars, dbVars, state>>

(* Mutant of Settle: the unique key and the previous status are not asked. *)
SettleBlindly(e) ==
    /\ processed' = processed \cup {e}
    /\ status' = [status EXCEPT ![OrderOf[e]] = Verdict[e]]
    /\ announced' = [announced EXCEPT ![OrderOf[e]] = @ + 1]

(* Mutant of Settle: the order is settled whatever its previous status. *)
SettleStale(e) ==
    LET o == OrderOf[e]
        applies == e \notin processed
    IN /\ processed' = processed \cup {e}
       /\ status' = [status EXCEPT ![o] = IF applies THEN Verdict[e] ELSE @]
       /\ announced' = [announced EXCEPT ![o] = IF applies /\ @ = 0 THEN 1 ELSE @]

(* The transaction of Complete: a known event changes nothing, a settled   *)
(* order is left alone, a pending one is settled and announced.            *)
Settle(e) ==
    LET o == OrderOf[e]
        applies == e \notin processed /\ status[o] = "PENDING"
    IN /\ processed' = processed \cup {e}
       /\ status' = [status EXCEPT ![o] = IF applies THEN Verdict[e] ELSE @]
       /\ announced' = [announced EXCEPT ![o] = IF applies THEN @ + 1 ELSE @]

(* Complete committed, as a first or a repeated handling of the event.     *)
Complete(w, i) ==
    LET e == RecordAt(i).event
    IN /\ stage[w][i] = "complete"
       /\ Kind[e] # "unsettleable" \/ e \in processed
       /\ Settle(e)
       /\ Goto(w, i, "ok")
       /\ UNCHANGED <<kafkaVars, limbo, state, faults>>

(* A statement of Complete is refused by the database: rolled back.        *)
CompleteRefused(w, i) ==
    LET e == RecordAt(i).event
    IN /\ stage[w][i] = "complete"
       /\ Kind[e] = "unsettleable" /\ e \notin processed
       /\ Goto(w, i, "retry")
       /\ UNCHANGED <<kafkaVars, dbVars, state, faults>>

(* Complete failed or timed out; its COMMIT may be on its way.             *)
CompleteError(w, i) ==
    LET e == RecordAt(i).event
    IN /\ stage[w][i] = "complete"
       /\ Fault
       /\ limbo' \in {limbo} \cup (IF Kind[e] = "unsettleable" THEN {} ELSE {limbo \cup {e}})
       /\ Goto(w, i, "retry")
       /\ UNCHANGED <<kafkaVars, processed, status, announced, state>>

LateCommit(e) ==
    /\ e \in limbo
    /\ Settle(e)
    /\ limbo' = limbo \ {e}
    /\ UNCHANGED <<kafkaVars, state, stage, faults>>

LateRollback(e) ==
    /\ e \in limbo
    /\ limbo' = limbo \ {e}
    /\ UNCHANGED <<kafkaVars, processed, status, announced, state, stage, faults>>

(* Mutant of Exhausted: off by one. *)
ExhaustedEarly(r) == r.attempt + 1 >= MaxRetries

(* Mutant of Exhausted: there is no limit. *)
ExhaustedNever(r) == FALSE

(* The topic and the attempt header route gives the record.                *)
Exhausted(r) == r.attempt + 1 > MaxRetries

Written(s, r) ==
    IF s = "dlq" THEN /\ dlq' = dlq \cup {r}
                      /\ UNCHANGED log
    ELSE LET next == [r EXCEPT !.attempt = @ + 1]
         IN IF Exhausted(r) THEN /\ dlq' = dlq \cup {next}
                                 /\ UNCHANGED log
            ELSE /\ Produce(RetryOf[r.event], next)
                 /\ UNCHANGED dlq

(* retry and dlq: the record is on its new topic.                          *)
Route(w, i) ==
    /\ stage[w][i] \in {"retry", "dlq"}
    /\ Written(stage[w][i], RecordAt(i))
    /\ Goto(w, i, "ok")
    /\ UNCHANGED <<committed, owner, position, dbVars, state, faults>>

(* PublishRecord failed or timed out; the record may be there all the same. *)
RouteError(w, i) ==
    /\ stage[w][i] \in {"retry", "dlq"}
    /\ Fault
    /\ Written(stage[w][i], RecordAt(i)) \/ UNCHANGED <<log, dlq>>
    /\ Goto(w, i, "error")
    /\ UNCHANGED <<committed, owner, position, dbVars, state>>

-----------------------------------------------------------------------------
Next ==
    \/ \E e \in Event : Deliver(e) \/ LateCommit(e) \/ LateRollback(e)
    \/ \E p \in Partition : Revoke(p) \/ \E w \in Worker : Assign(p, w)
    \/ \E w \in Worker :
          \/ Poll(w)
          \/ PollError(w)
          \/ CommitBatch(w)
          \/ CommitError(w)
          \/ CommitRefused(w)
          \/ FailBatch(w)
          \/ Expel(w)
          \/ Terminate(w)
          \/ Restart(w)
    \/ \E w \in Worker : \E i \in Batch(w) :
          \/ Start(w, i)
          \/ StartSkewed(w, i)
          \/ Check(w, i)
          \/ Process(w, i)
          \/ StepError(w, i)
          \/ Complete(w, i)
          \/ CompleteRefused(w, i)
          \/ CompleteError(w, i)
          \/ Route(w, i)
          \/ RouteError(w, i)

Spec == Init /\ [][Next]_vars

(* Processes are restarted and scheduled, partitions are assigned, and a    *)
(* statement under way ends.  Faults are bounded by MaxFaults, so weak     *)
(* fairness is enough.                                                     *)
PoolStep(w) ==
    \E i \in Batch(w) :
       \/ Start(w, i) \/ Check(w, i) \/ Process(w, i)
       \/ Complete(w, i) \/ CompleteRefused(w, i) \/ Route(w, i)

Fairness ==
    /\ \A p \in Partition : WF_vars(\E w \in Worker : Assign(p, w))
    /\ \A w \in Worker :
          /\ WF_vars(Restart(w))
          /\ WF_vars(Poll(w))
          /\ WF_vars(PoolStep(w))
          /\ WF_vars(CommitBatch(w) \/ CommitRefused(w) \/ FailBatch(w))
    /\ \A e \in Event : WF_vars(LateCommit(e) \/ LateRollback(e))

FairSpec == Spec /\ Fairness

-----------------------------------------------------------------------------
(* Properties.                                                             *)

DeadLettered(e) == \E r \in dlq : r.event = e

(* Some record of e is still to be read after a restart of everything.     *)
Outstanding(e) ==
    \E p \in Partition : \E k \in DOMAIN log[p] :
       k > committed[p] /\ log[p][k].event = e

(* Offsets are committed only past records with a durable result: a        *)
(* delivered event is processed, in the dead letter queue, or carried by a *)
(* record no commit has passed, whatever crashed or failed in between.     *)
NoEventLost ==
    \A e \in Event : Delivered(e) => e \in processed \/ DeadLettered(e) \/ Outstanding(e)

(* Offsets never move back, and they move only past records whose handler  *)
(* has succeeded: one that is slower than the others of its batch, or that *)
(* failed, is never skipped.  (A record dropped by a mixed fetch is.)      *)
CommitPassesDone ==
    [][~MixedFetch =>
          \A p \in Partition :
             /\ committed[p] <= committed'[p]
             /\ \A k \in committed[p] + 1 .. committed'[p] :
                   \E w \in Worker : stage[w][<<p, k>>] = "ok"]_vars

(* While a member handles a batch, nobody else commits past a record of it: *)
(* its partitions go to no other worker before it is expelled.             *)
InFlightUncommitted ==
    \A w \in Worker : \A i \in Batch(w) : state[w] = "busy" => committed[i[1]] < i[2]

(* An order that is not PENDING has exactly one OrderStatusChanged event,  *)
(* a PENDING one has none: redelivery, zombies and transactions of unknown *)
(* outcome never announce an order twice.                                  *)
OneStatusEvent ==
    \A o \in Order : announced[o] = IF status[o] = "PENDING" THEN 0 ELSE 1

(* A settled order keeps its status, also when a second event of the same  *)
(* order comes to another verdict.                                         *)
SettledOnce ==
    [][\A o \in Order : status[o] # "PENDING" => status'[o] = status[o]]_vars

(* A valid event is given up only after all of its retries: every attempt  *)
(* up to MaxRetries was on the retry topic, and no record exceeds it.      *)
(* Clocks are within the tolerance: beyond it a retry record is given up   *)
(* early (StartSkewed).                                                    *)
DeadLetterEarned ==
    ~ClockSkew =>
       \A r \in dlq : Kind[r.event] \in {"valid", "unsettleable"} =>
          /\ r.attempt = MaxRetries + 1
          /\ \A a \in 1 .. MaxRetries :
                \E k \in DOMAIN log[RetryOf[r.event]] :
                   log[RetryOf[r.event]][k] = [event |-> r.event, attempt |-> a]

(* A refused event never touches an order, and a malformed one goes to the *)
(* dead letter queue at once: it is never put on the retry topic, however  *)
(* often its record is read.                                               *)
PoisonIsolated ==
    /\ \A e \in processed \cup limbo : Kind[e] = "valid"
    /\ \A p \in Partition : \A k \in DOMAIN log[p] :
          Kind[log[p][k].event] = "malformed" => log[p][k].attempt = 0

(* Every delivered event is processed or given up in the end: none is      *)
(* retried for ever, and no failed batch blocks its partition.             *)
EventuallyHandled ==
    \A e \in Event : Delivered(e) ~> (e \in processed \/ DeadLettered(e))
=============================================================================
