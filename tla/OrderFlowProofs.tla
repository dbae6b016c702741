--------------------------- MODULE OrderFlowProofs ---------------------------
(***************************************************************************)
(* Proofs about the three programs together, for any number of orders,     *)
(* publishers, workers, partitions, faults and any sizes of batches and    *)
(* pools.                                                                  *)
(*                                                                         *)
(* A behaviour of OrderFlow, seen through the variables of one component,  *)
(* is a behaviour of that component, so that all that is proved about the  *)
(* publishers and the workers alone holds of them here.  Rows and Work are *)
(* the components of OrderFlow with the theorems about them.               *)
(***************************************************************************)
EXTENDS OrderFlow, TLAPS

Rows == INSTANCE OutboxProofs WITH
    Invalid <- {Created(o) : o \in Unpublishable},
    BatchSize <- OutboxBatch, Workers <- OutboxPool,
    status <- rowStatus, stage <- job

Work == INSTANCE DeliveryProofs WITH
    Event <- Order,
    OrderOf <- [o \in Order |-> o]

-----------------------------------------------------------------------------
(* The components and their theorems.                                      *)

(* The values OrderFlow gives to the constants of the publishers are such  *)
(* as the theorems about the publishers assume.                            *)
LEMMA RowsAssumption == Rows!OutboxAssumption
BY OrderFlowAssumption DEF Events, Created, Row

(* The same for the workers.                                               *)
LEMMA WorkAssumption == Work!ConsumerAssumption
BY OrderFlowAssumption DEF Work!Kinds

(* The steps of the publishers of OrderFlow are those the theorems are     *)
(* about.                                                                  *)
LEMMA SameSteps ==
    /\ \A e \in Events :
          /\ Outbox!Insert(e) <=> Rows!Insert(e)
          /\ Outbox!LeaseExpires(e) <=> Rows!LeaseExpires(e)
          /\ Outbox!BecomesDue(e) <=> Rows!BecomesDue(e)
    /\ \A p \in Owners :
          /\ Outbox!Claim(p) <=> Rows!Claim(p)
          /\ Outbox!ClaimError(p) <=> Rows!ClaimError(p)
          /\ Outbox!LateClaim(p) <=> Rows!LateClaim(p)
          /\ Outbox!LateClaimDrop(p) <=> Rows!LateClaimDrop(p)
          /\ Outbox!Terminate(p) <=> Rows!Terminate(p)
    /\ \A p \in Owners, e \in Events :
          /\ Outbox!Start(p, e) <=> Rows!Start(p, e)
          /\ Outbox!PublishAck(p, e) <=> Rows!PublishAck(p, e)
          /\ Outbox!PublishError(p, e) <=> Rows!PublishError(p, e)
          /\ Outbox!Close(p, e) <=> Rows!Close(p, e)
          /\ Outbox!Abandon(p, e) <=> Rows!Abandon(p, e)
          /\ \A op \in Outbox!Statements :
                /\ Outbox!LateExecute(op, p, e) <=> Rows!LateExecute(op, p, e)
                /\ Outbox!LateDrop(op, p, e) <=> Rows!LateDrop(op, p, e)
BY DEF Outbox!Next, Rows!Next, Outbox!Insert, Rows!Insert, Outbox!LeaseExpires,
       Rows!LeaseExpires, Outbox!Engaged, Rows!Engaged, Outbox!Statements,
       Rows!Statements, Outbox!BecomesDue, Rows!BecomesDue, Outbox!Claim, Rows!Claim,
       Outbox!Ready, Rows!Ready, Outbox!Candidates, Rows!Candidates, Outbox!Claimable,
       Rows!Claimable, Outbox!LockRows, Rows!LockRows, Outbox!ClaimError,
       Rows!ClaimError, Outbox!rowVars, Rows!rowVars, Outbox!LateClaim, Rows!LateClaim,
       Outbox!LateClaimDrop, Rows!LateClaimDrop, Outbox!Terminate, Rows!Terminate,
       Outbox!Start, Rows!Start, Outbox!Active, Rows!Active, Outbox!PublishAck,
       Rows!PublishAck, Outbox!PublishError, Rows!PublishError, Outbox!Close,
       Rows!Close, Outbox!Execute, Rows!Execute, Outbox!Owns, Rows!Owns,
       Outbox!NewStatus, Rows!NewStatus, Outbox!Abandon, Rows!Abandon,
       Outbox!LateExecute, Rows!LateExecute, Outbox!LateDrop, Rows!LateDrop,
       Outbox!Cardinality, Rows!Cardinality

(* The publishers of OrderFlow are those the theorems are about.           *)
LEMMA SameRows ==
    /\ Outbox!Init <=> Rows!Init
    /\ outboxVars = Rows!vars
    /\ \A e \in Events : Outbox!Insert(e) => Rows!Next
    /\ PublisherStep => Rows!PublisherNext
    /\ Rows!PublisherNext => Rows!Next
<1>1. Outbox!Init <=> Rows!Init
  BY DEF Outbox!Init, Rows!Init
<1>2. outboxVars = Rows!vars
  BY DEF outboxVars, Rows!vars
<1>3. \A e \in Events : Outbox!Insert(e) => Rows!Next
  BY SameSteps DEF Rows!Next
<1>4. PublisherStep => Rows!PublisherNext
  BY SameSteps DEF PublisherStep, Rows!PublisherNext, Outbox!Statements, Rows!Statements
<1>5. Rows!PublisherNext => Rows!Next
  BY DEF Rows!PublisherNext, Rows!Next
<1> QED BY <1>1, <1>2, <1>3, <1>4, <1>5

(* The workers of OrderFlow are those the theorems are about.              *)
LEMMA SameWork ==
    /\ Consumer!Init <=> Work!Init
    /\ Consumer!Next <=> Work!Next
    /\ workerVars = <<log, dlq, committed, owner, position, processed, status, announced,
                      limbo, state, stage, faults>>
    /\ \A o \in Order :
          /\ Consumer!Deliver(o) <=> Work!Deliver(o)
          /\ Consumer!Delivered(o) <=> Work!Delivered(o)
          /\ Consumer!DeadLettered(o) <=> Work!DeadLettered(o)
          /\ Consumer!Outstanding(o) <=> Work!Outstanding(o)
BY DEF workerVars,
       Consumer!Next, Work!Next, Consumer!Deliver, Work!Deliver, Consumer!Produce,
       Work!Produce, Consumer!Delivered, Work!Delivered, Consumer!Fault, Work!Fault,
       Consumer!dbVars, Work!dbVars, Consumer!LateCommit, Work!LateCommit,
       Consumer!Settle, Work!Settle, Consumer!kafkaVars, Work!kafkaVars,
       Consumer!LateRollback, Work!LateRollback, Consumer!Revoke, Work!Revoke,
       Consumer!Assign, Work!Assign, Consumer!Poll, Work!Poll, Consumer!Polls,
       Work!Polls, Consumer!Advance, Work!Advance, Consumer!Offset, Work!Offset,
       Consumer!InPoll, Work!InPoll, Consumer!PollError, Work!PollError,
       Consumer!CommitBatch, Work!CommitBatch, Consumer!Succeeded, Work!Succeeded,
       Consumer!Batch, Work!Batch, Consumer!CommittedAfter, Work!CommittedAfter,
       Consumer!NoBatch, Work!NoBatch, Consumer!CommitError, Work!CommitError,
       Consumer!Exit, Work!Exit, Consumer!Disown, Work!Disown, Consumer!CommitRefused,
       Work!CommitRefused, Consumer!FailBatch, Work!FailBatch, Consumer!Finished,
       Work!Finished, Consumer!Expel, Work!Expel, Consumer!Terminate, Work!Terminate,
       Consumer!Restart, Work!Restart, Consumer!Start, Work!Start, Consumer!Running,
       Work!Running, Consumer!Active, Work!Active, Consumer!RecordAt, Work!RecordAt,
       Consumer!Goto, Work!Goto, Consumer!StartSkewed, Work!StartSkewed, Consumer!Check,
       Work!Check, Consumer!Process, Work!Process, Consumer!StepError, Work!StepError,
       Consumer!Complete, Work!Complete, Consumer!CompleteRefused, Work!CompleteRefused,
       Consumer!CompleteError, Work!CompleteError, Consumer!Route, Work!Route,
       Consumer!Written, Work!Written, Consumer!Exhausted, Work!Exhausted,
       Consumer!RouteError, Work!RouteError, Consumer!Init, Work!Init, Consumer!TypeOK,
       Work!TypeOK, Consumer!Record, Work!Record, Consumer!DeadLetter, Work!DeadLetter,
       Consumer!States, Work!States, Consumer!Stages, Work!Stages, Consumer!vars,
       Work!vars, Consumer!DeadLettered, Work!DeadLettered, Consumer!Outstanding,
       Work!Outstanding, Consumer!Cardinality, Work!Cardinality

(* What the steps of OrderFlow are to the publishers and to the workers.   *)
LEMMA StepCases ==
    ASSUME [Next]_vars
    PROVE  \/ \E o \in Order : Create(o)
           \/ \E p \in Owners, o \in Order : PublishCreated(p, o)
           \/ \E p \in Owners, o \in Order : PublishOther(p, o)
           \/ PublisherStep
           \/ WorkerStep
           \/ UNCHANGED vars
BY DEF Next

(* The rows of an order are rows of the outbox, and all different.         *)
LEMMA RowsDiffer ==
    /\ \A o \in Order : Created(o) \in Events /\ Changed(o) \in Events
    /\ \A o, u \in Order :
          /\ Created(o) # Changed(u)
          /\ Created(o) = Created(u) => o = u
          /\ Changed(o) = Changed(u) => o = u
BY DEF Created, Changed, Row, Events

(* A publication, acknowledged or not, is a step of a publisher.           *)
LEMMA Publications ==
    ASSUME NEW p \in Owners, NEW o \in Order, PublishCreated(p, o) \/ PublishOther(p, o)
    PROVE  Rows!PublisherNext
BY SameSteps, RowsDiffer DEF PublishCreated, PublishOther, Rows!PublisherNext

(* A settlement inserts one row, any other step of the workers none.       *)
LEMMA Announcements ==
    ASSUME WorkerStep
    PROVE  \/ status' = status /\ UNCHANGED outboxVars
           \/ \E o \in Order : status'[o] # status[o] /\ Rows!Insert(Changed(o))
BY SameSteps, RowsDiffer DEF WorkerStep, Announce

(* Each step of OrderFlow is a step of the publishers, or leaves them and  *)
(* their table alone.                                                      *)
LEMMA StepOfRows ==
    ASSUME [Next]_vars
    PROVE  [Rows!Next]_(Rows!vars)
<1>1. ASSUME NEW o \in Order, Create(o) PROVE Rows!Next
  BY <1>1, SameRows, RowsDiffer DEF Create
<1>2. ASSUME NEW p \in Owners, NEW o \in Order, PublishCreated(p, o) \/ PublishOther(p, o)
      PROVE  Rows!Next
  BY <1>2, Publications, SameRows
<1>3. CASE PublisherStep
  BY <1>3, SameRows
<1>4. CASE WorkerStep
  <2>1. CASE UNCHANGED outboxVars
    BY <2>1 DEF outboxVars, Rows!vars
  <2>2. ASSUME NEW o \in Order, Rows!Insert(Changed(o)) PROVE Rows!Next
    BY <2>2, RowsDiffer DEF Rows!Next
  <2> QED BY <1>4, <2>1, <2>2, Announcements
<1>5. CASE UNCHANGED vars
  BY <1>5 DEF vars, outboxVars, Rows!vars
<1> QED BY <1>1, <1>2, <1>3, <1>4, <1>5, StepCases

(* Each step of OrderFlow is a step of the workers or of Kafka, or leaves  *)
(* them and their tables alone.                                            *)
LEMMA StepOfWork ==
    ASSUME [Next]_vars
    PROVE  [Work!Next]_(Work!vars)
<1>1. ASSUME UNCHANGED workerVars PROVE UNCHANGED Work!vars
  BY <1>1 DEF workerVars, Work!vars, Work!kafkaVars, Work!dbVars
<1>2. ASSUME NEW o \in Order, Create(o) PROVE UNCHANGED workerVars
  BY <1>2 DEF Create
<1>3. ASSUME NEW p \in Owners, NEW o \in Order, PublishCreated(p, o)
      PROVE  Work!Next
  BY <1>3, SameWork DEF PublishCreated, Work!Next
<1>4. ASSUME NEW p \in Owners, NEW o \in Order, PublishOther(p, o)
      PROVE  UNCHANGED workerVars
  BY <1>4 DEF PublishOther
<1>5. CASE PublisherStep
  BY <1>1, <1>5 DEF PublisherStep
<1>6. CASE WorkerStep
  BY <1>6, SameWork DEF WorkerStep
<1>7. CASE UNCHANGED vars
  BY <1>1, <1>7 DEF vars
<1> QED BY <1>1, <1>2, <1>3, <1>4, <1>5, <1>6, <1>7, StepCases

(* In the composition the publishers behave as Outbox says.                *)
THEOREM RowsBehave == Spec => Rows!Spec
<1>1. Init => Rows!Init
  BY SameRows DEF Init
<1> QED BY <1>1, StepOfRows, PTL DEF Spec, Rows!Spec

(* In the composition the workers behave as Consumer says.                 *)
THEOREM WorkBehaves == Spec => Work!Spec
<1>1. Init => Work!Init
  BY SameWork DEF Init
<1> QED BY <1>1, StepOfWork, PTL DEF Spec, Work!Spec

(* What the theorems about the components say of the composition.          *)
Components ==
    /\ Rows!TypeOK /\ Rows!PublishedIsOnTopic /\ Rows!PoisonContained /\ Rows!NothingBeforeInsert
    /\ Work!Structure /\ Work!OnlyDelivered /\ Work!SettledByEvent

(* They hold in it.                                                        *)
LEMMA ComponentsHold == Spec => []Components
<1>1. Spec => []Rows!TypeOK
  BY RowsBehave, RowsAssumption, Rows!TypeCorrect, PTL
<1>2. Spec => [](Rows!PublishedIsOnTopic /\ Rows!PoisonContained)
  BY RowsBehave, RowsAssumption, Rows!OutcomesCorrect, PTL
<1>3. Spec => []Rows!NothingBeforeInsert
  BY RowsBehave, RowsAssumption, Rows!NoRowBeforeInsert, PTL
<1>4. Spec => []Work!Structure
  BY WorkBehaves, WorkAssumption, Work!StructureCorrect, PTL
<1>5. Spec => []Work!OnlyDelivered
  BY WorkBehaves, WorkAssumption, Work!NothingInvented, PTL
<1>6. Spec => []Work!SettledByEvent
  BY WorkBehaves, WorkAssumption, Work!SettledByOwnEvent, PTL
<1> QED BY <1>1, <1>2, <1>3, <1>4, <1>5, <1>6, PTL DEF Components

(* The table orders holds orders.                                          *)
LEMMA OrdersTyped == Spec => [](orders \subseteq Order)
<1>1. Init => orders \subseteq Order
  BY DEF Init
<1>2. orders \subseteq Order /\ [Next]_vars => (orders \subseteq Order)'
  <2> SUFFICES ASSUME orders \subseteq Order, [Next]_vars PROVE orders' \subseteq Order
    OBVIOUS
  <2>1. ASSUME NEW o \in Order, Create(o) PROVE orders' \subseteq Order
    BY <2>1 DEF Create
  <2>2. ASSUME NEW p \in Owners, NEW o \in Order, PublishCreated(p, o) \/ PublishOther(p, o)
        PROVE  orders' \subseteq Order
    BY <2>2 DEF PublishCreated, PublishOther
  <2>3. CASE PublisherStep \/ WorkerStep
    BY <2>3 DEF PublisherStep, WorkerStep
  <2>4. CASE UNCHANGED vars
    BY <2>4 DEF vars
  <2> QED BY <2>1, <2>2, <2>3, <2>4, StepCases
<1> QED BY <1>1, <1>2, PTL DEF Spec

-----------------------------------------------------------------------------
(* What ties the components together.                                      *)

(* The first row of an order is there as soon as the order is.             *)
PlacedWithRow == \A o \in Order : rowStatus[Created(o)] # "ABSENT" <=> o \in orders

(* The second row is there as soon as the order is settled.                *)
SettledWithRow == \A o \in Order : rowStatus[Changed(o)] # "ABSENT" <=> status[o] # "PENDING"

(* What the publishers have put on the created topic is what the workers   *)
(* find there.                                                             *)
TopicIsLog == \A o \in Order : Created(o) \in topic <=> Work!Delivered(o)

FlowInv == PlacedWithRow /\ SettledWithRow /\ TopicIsLog

(* A step that inserts the row e and no other.                             *)
LEMMA InsertOne ==
    ASSUME Rows!TypeOK, NEW e \in Events, Rows!Insert(e)
    PROVE  /\ rowStatus[e] = "ABSENT" /\ rowStatus'[e] # "ABSENT"
           /\ \A f \in Events : f # e => rowStatus'[f] = rowStatus[f]
           /\ topic' = topic
BY DEF Rows!TypeOK, Rows!Insert

(* Publishers insert no row and delete none.                               *)
LEMMA PublishersKeepRows ==
    ASSUME Components, Rows!PublisherNext
    PROVE  \A e \in Events : rowStatus'[e] = "ABSENT" <=> rowStatus[e] = "ABSENT"
BY RowsAssumption, Rows!PublishersKeepAbsent DEF Components, Rows!AbsentKept

(* An order changes its status by its own event and from PENDING only.     *)
LEMMA SettlesOne ==
    ASSUME Components, [Work!Next]_(Work!vars), status' # status
    PROVE  \E o \in Order :
              /\ status[o] = "PENDING" /\ status'[o] = Verdict[o] /\ Verdict[o] # "PENDING"
              /\ \A u \in Order : u # o => status'[u] = status[u]
<1>1. /\ status \in [Order -> {"PENDING", "CONFIRMED", "FAILED"}]
      /\ Verdict \in [Order -> {"CONFIRMED", "FAILED"}]
  BY OrderFlowAssumption DEF Components, Work!Structure, Work!TypeOK
<1>2. PICK o \in Order : Work!Settle(o)
  BY WorkAssumption, Work!OrdersChange DEF Components
<1>3. \/ status' = [status EXCEPT ![o] = status[o]]
      \/ status[o] = "PENDING" /\ status' = [status EXCEPT ![o] = Verdict[o]]
  BY <1>1, <1>2 DEF Work!Settle
<1>4. status' = [status EXCEPT ![o] = Verdict[o]] /\ status[o] = "PENDING"
  BY <1>1, <1>3
<1> QED BY <1>1, <1>4

(* One more record of the created topic.                                   *)
LEMMA DeliversOne ==
    ASSUME Components, NEW o \in Order, Work!Deliver(o)
    PROVE  \A u \in Order : Work!Delivered(u)' <=> Work!Delivered(u) \/ u = o
<1> DEFINE r == [event |-> o, attempt |-> 0]
           L == log[CreatedOf[o]]
<1>1. log \in [Partition -> Seq(Work!Record)] /\ CreatedOf \in [Order -> Partition]
  BY OrderFlowAssumption DEF Components, Work!Structure, Work!TypeOK
<1>2. log' = [log EXCEPT ![CreatedOf[o]] = Append(log[CreatedOf[o]], r)]
  BY DEF Work!Deliver, Work!Produce
<1>3. /\ log'[CreatedOf[o]] = Append(L, r) /\ L \in Seq(Work!Record) /\ r \in Work!Record
      /\ \A p \in Partition : p # CreatedOf[o] => log'[p] = log[p]
  <2>1. CreatedOf[o] \in Partition
    BY <1>1
  <2>2. r \in Work!Record
    BY OrderFlowAssumption DEF Work!Record
  <2> HIDE DEF r
  <2>3. log'[CreatedOf[o]] = Append(L, r) /\ L \in Seq(Work!Record)
    BY <1>1, <1>2, <2>1
  <2>4. \A p \in Partition : p # CreatedOf[o] => log'[p] = log[p]
    BY <1>1, <1>2
  <2> QED BY <2>2, <2>3, <2>4
<1>4. /\ DOMAIN L = 1 .. Len(L) /\ Len(L) \in Nat
      /\ DOMAIN Append(L, r) = 1 .. Len(L) + 1
      /\ Append(L, r)[Len(L) + 1] = r
      /\ \A k \in 1 .. Len(L) : Append(L, r)[k] = L[k]
  BY <1>3
<1>5. r.event = o
  OBVIOUS
<1> SUFFICES ASSUME NEW u \in Order PROVE Work!Delivered(u)' <=> Work!Delivered(u) \/ u = o
  OBVIOUS
<1>6. CASE CreatedOf[u] # CreatedOf[o]
  <2>1. log'[CreatedOf[u]] = log[CreatedOf[u]] /\ u # o
    BY <1>1, <1>3, <1>6
  <2> QED BY <2>1 DEF Work!Delivered
<1>7. CASE CreatedOf[u] = CreatedOf[o]
  <2>1. Work!Delivered(u) <=> \E k \in 1 .. Len(L) : L[k].event = u
    BY <1>4, <1>7 DEF Work!Delivered
  <2>2. Work!Delivered(u)' <=> \E k \in 1 .. Len(L) + 1 : Append(L, r)[k].event = u
    BY <1>3, <1>4, <1>7 DEF Work!Delivered
  <2> HIDE DEF r, L
  <2>3. \A k \in 1 .. Len(L) + 1 : k \in 1 .. Len(L) \/ k = Len(L) + 1
    BY <1>4
  <2>4. Len(L) + 1 \in 1 .. Len(L) + 1 /\ \A k \in 1 .. Len(L) : k \in 1 .. Len(L) + 1
    BY <1>4
  <2> QED BY <1>4, <1>5, <2>1, <2>2, <2>3, <2>4
<1> QED BY <1>6, <1>7

(* Rows, orders and topic stay accounted for: a publication is the only    *)
(* step between a row and its record, and the transactions that write a    *)
(* row write what the row tells.                                           *)
LEMMA FlowStep ==
    ASSUME Components, FlowInv, [Next]_vars
    PROVE  FlowInv'
<1> USE RowsDiffer
<1>0. Rows!TypeOK
  BY DEF Components
<1>1. ASSUME NEW o \in Order, Create(o) PROVE FlowInv'
  <2>1. /\ Rows!Insert(Created(o)) /\ orders' = orders \cup {o}
        /\ UNCHANGED <<status, log>>
    BY <1>1, SameSteps DEF Create, workerVars
  <2>2. /\ rowStatus'[Created(o)] # "ABSENT"
        /\ \A f \in Events : f # Created(o) => rowStatus'[f] = rowStatus[f]
        /\ topic' = topic
    BY <1>0, <2>1, InsertOne
  <2>3. PlacedWithRow' /\ SettledWithRow'
    BY <2>1, <2>2 DEF FlowInv, PlacedWithRow, SettledWithRow, Created, Changed, Row
  <2>4. TopicIsLog'
    BY <2>1, <2>2 DEF FlowInv, TopicIsLog, Work!Delivered, Created, Row
  <2> QED BY <2>3, <2>4 DEF FlowInv
<1>2. ASSUME NEW p \in Owners, NEW o \in Order, PublishCreated(p, o) PROVE FlowInv'
  <2>1. \A e \in Events : rowStatus'[e] = "ABSENT" <=> rowStatus[e] = "ABSENT"
    BY <1>2, Publications, PublishersKeepRows
  <2>2. topic' = topic \cup {Created(o)}
    BY <1>2 DEF PublishCreated, Outbox!PublishAck, Outbox!PublishError
  <2>3. Work!Deliver(o) /\ UNCHANGED <<orders, status>>
    BY <1>2, SameWork DEF PublishCreated, Work!Deliver, Work!dbVars
  <2>4. PlacedWithRow' /\ SettledWithRow'
    BY <2>1, <2>3 DEF FlowInv, PlacedWithRow, SettledWithRow, Created, Changed, Row
  <2>5. TopicIsLog'
    <3> SUFFICES ASSUME NEW u \in Order PROVE Created(u) \in topic' <=> Work!Delivered(u)'
      BY DEF TopicIsLog, Created, Row
    <3> QED BY <2>2, <2>3, DeliversOne DEF FlowInv, TopicIsLog
  <2> QED BY <2>4, <2>5 DEF FlowInv
<1>3. ASSUME Rows!PublisherNext, UNCHANGED <<orders, workerVars>>,
             \A u \in Order : Created(u) \in topic' <=> Created(u) \in topic
      PROVE  FlowInv'
  <2>1. \A e \in Events : rowStatus'[e] = "ABSENT" <=> rowStatus[e] = "ABSENT"
    BY <1>3, PublishersKeepRows
  <2>2. UNCHANGED <<orders, status, log>>
    BY <1>3 DEF workerVars
  <2>3. PlacedWithRow' /\ SettledWithRow'
    BY <2>1, <2>2 DEF FlowInv, PlacedWithRow, SettledWithRow, Created, Changed, Row
  <2>4. TopicIsLog'
    BY <1>3, <2>2 DEF FlowInv, TopicIsLog, Work!Delivered, Created, Row
  <2> QED BY <2>3, <2>4 DEF FlowInv
<1>4. ASSUME NEW p \in Owners, NEW o \in Order, PublishOther(p, o) PROVE FlowInv'
  <2>1. topic' = topic \/ topic' = topic \cup {Changed(o)}
    BY <1>4 DEF PublishOther, Outbox!PublishAck, Outbox!PublishError
  <2>2. \A u \in Order : Created(u) \in topic' <=> Created(u) \in topic
    BY <2>1
  <2>3. UNCHANGED <<orders, workerVars>>
    BY <1>4 DEF PublishOther
  <2> QED BY <1>3, <1>4, <2>2, <2>3, Publications
<1>5. CASE PublisherStep
  <2>1. topic' = topic /\ UNCHANGED <<orders, workerVars>>
    BY <1>5 DEF PublisherStep, Outbox!LeaseExpires, Outbox!BecomesDue, Outbox!Claim,
                Outbox!ClaimError, Outbox!LateClaim, Outbox!LateClaimDrop, Outbox!Start,
                Outbox!Close, Outbox!Abandon, Outbox!LateExecute, Outbox!LateDrop
  <2> QED BY <1>3, <1>5, <2>1, SameRows
<1>6. CASE WorkerStep
  <2>1. orders' = orders /\ \A o \in Order : log'[CreatedOf[o]] = log[CreatedOf[o]]
    BY <1>6 DEF WorkerStep
  <2>2. \A u \in Order : Work!Delivered(u)' <=> Work!Delivered(u)
    BY <2>1 DEF Work!Delivered
  <2>3. CASE status' = status /\ UNCHANGED outboxVars
    <3>1. UNCHANGED <<rowStatus, topic>>
      BY <2>3 DEF outboxVars
    <3> QED BY <2>1, <2>2, <2>3, <3>1
            DEF FlowInv, PlacedWithRow, SettledWithRow, TopicIsLog, Created, Changed, Row
  <2>4. ASSUME NEW u \in Order, status'[u] # status[u], Rows!Insert(Changed(u))
        PROVE  FlowInv'
    <3>1. /\ rowStatus'[Changed(u)] # "ABSENT"
          /\ \A f \in Events : f # Changed(u) => rowStatus'[f] = rowStatus[f]
          /\ topic' = topic
      BY <1>0, <2>4, InsertOne
    <3>2. PICK o \in Order :
             /\ status[o] = "PENDING" /\ status'[o] = Verdict[o] /\ Verdict[o] # "PENDING"
             /\ \A v \in Order : v # o => status'[v] = status[v]
      BY <2>4, StepOfWork, SettlesOne
    <3>3. u = o
      BY <2>4, <3>2
    <3>4. SettledWithRow'
      BY <3>1, <3>2, <3>3 DEF FlowInv, SettledWithRow, Changed, Row
    <3>5. PlacedWithRow'
      BY <2>1, <3>1 DEF FlowInv, PlacedWithRow, Created, Row
    <3>6. TopicIsLog'
      BY <2>2, <3>1 DEF FlowInv, TopicIsLog, Created, Row
    <3> QED BY <3>4, <3>5, <3>6 DEF FlowInv
  <2> QED BY <1>6, <2>3, <2>4, Announcements
<1>7. CASE UNCHANGED vars
  BY <1>7 DEF vars, outboxVars, workerVars, FlowInv, PlacedWithRow, SettledWithRow, TopicIsLog,
              Created, Changed, Row, Work!Delivered
<1> QED BY <1>1, <1>2, <1>4, <1>5, <1>6, <1>7, StepCases

(* Orders, their rows and their records agree: CreateWithEvent and         *)
(* Complete write a row with what the row tells, in one transaction.       *)
THEOREM FlowAccounted == Spec => []FlowInv
<1>1. Init => FlowInv
  <2> SUFFICES ASSUME Init PROVE FlowInv
    OBVIOUS
  <2>1. /\ rowStatus = [e \in Events |-> "ABSENT"] /\ topic = {} /\ orders = {}
        /\ status = [o \in Order |-> "PENDING"]
        /\ log = [p \in Partition |-> << >>]
    BY DEF Init, Outbox!Init, Consumer!Init
  <2>2. PlacedWithRow /\ SettledWithRow
    BY <2>1, RowsDiffer DEF PlacedWithRow, SettledWithRow
  <2>3. \A o \in Order : DOMAIN log[CreatedOf[o]] = {}
    BY <2>1, OrderFlowAssumption
  <2>4. TopicIsLog
    BY <2>1, <2>3 DEF TopicIsLog, Work!Delivered
  <2> QED BY <2>2, <2>4 DEF FlowInv
<1> QED BY <1>1, FlowStep, ComponentsHold, PTL DEF Spec

(* An order is settled by a record that was published from a row that was  *)
(* inserted with the order.                                                *)
SettledIsPlaced ==
    \A o \in Order : status[o] # "PENDING" => Created(o) \in topic /\ o \in orders

(* So it is in every state with what was shown so far.                     *)
LEMMA SettledWasPlaced ==
    ASSUME Components, FlowInv
    PROVE  SettledIsPlaced
<1> SUFFICES ASSUME NEW o \in Order, status[o] # "PENDING"
             PROVE  Created(o) \in topic /\ o \in orders
  BY DEF SettledIsPlaced
<1>1. o \in processed
  <2>1. processed \subseteq Order
    BY DEF Components, Work!Structure, Work!TypeOK
  <2> QED BY <2>1 DEF Components, Work!SettledByEvent
<1>2. Work!Delivered(o)
  BY <1>1 DEF Components, Work!OnlyDelivered
<1>3. Created(o) \in topic
  BY <1>2 DEF FlowInv, TopicIsLog
<1>4. rowStatus[Created(o)] # "ABSENT"
  BY <1>3, RowsDiffer DEF Components, Rows!NothingBeforeInsert
<1> QED BY <1>3, <1>4 DEF FlowInv, PlacedWithRow

(* No order is settled before it was placed and its created event was on   *)
(* Kafka.                                                                  *)
THEOREM SettledAfterPlaced == Spec => []SettledIsPlaced
BY ComponentsHold, FlowAccounted, SettledWasPlaced, PTL

(* A row a publisher is about to publish tells of a settled order.         *)
LEMMA ToldWasSettled ==
    ASSUME Components, FlowInv, NEW p \in Owners, NEW o \in Order, job[p][Changed(o)] = "publish"
    PROVE  status[o] # "PENDING" /\ o \in orders
<1>1. rowStatus[Changed(o)] # "ABSENT"
  BY RowsDiffer DEF Components, Rows!NothingBeforeInsert
<1>2. status[o] # "PENDING"
  BY <1>1 DEF FlowInv, SettledWithRow
<1> QED BY <1>2, SettledWasPlaced DEF SettledIsPlaced

(* The three programs implement the life of an order, whatever crashes,    *)
(* is published or read twice, times out, is fenced off or retried: an     *)
(* order is placed once, settled at most once, after it was placed and by  *)
(* the verdict on its contents, and announced only when it is settled.     *)
THEOREM FlowImplementsLife == Spec => ImplementsLife
<1> DEFINE lf == [o \in Order |-> IF o \in orders THEN status[o] ELSE "ABSENT"]
           td == {o \in Order : Changed(o) \in topic}
<1>1. Init => Life!Init
  <2> SUFFICES ASSUME Init PROVE Life!Init
    OBVIOUS
  <2>1. orders = {} /\ topic = {}
    BY DEF Init, Outbox!Init
  <2> QED BY <2>1 DEF Life!Init
<1>2. Components /\ FlowInv /\ SettledIsPlaced /\ SettledIsPlaced' /\ [Next]_vars
         => [Life!Next]_(Life!lifeVars)
  <2> SUFFICES ASSUME Components, FlowInv, SettledIsPlaced, SettledIsPlaced', [Next]_vars
               PROVE  \/ lf' = lf /\ td' = td
                      \/ \E o \in Order :
                            \/ lf[o] = "ABSENT" /\ lf' = [lf EXCEPT ![o] = "PENDING"] /\ td' = td
                            \/ lf[o] = "PENDING" /\ lf' = [lf EXCEPT ![o] = Verdict[o]] /\ td' = td
                            \/ /\ lf[o] \in {"CONFIRMED", "FAILED"}
                               /\ td' = td \cup {o} /\ lf' = lf
    BY DEF Life!Next, Life!Place, Life!Decide, Life!Tell, Life!lifeVars
  <2>0. status \in [Order -> {"PENDING", "CONFIRMED", "FAILED"}]
    BY DEF Components, Work!Structure, Work!TypeOK
  <2>1. ASSUME NEW o \in Order, Create(o)
        PROVE  lf[o] = "ABSENT" /\ lf' = [lf EXCEPT ![o] = "PENDING"] /\ td' = td
    <3>1. /\ o \notin orders /\ orders' = orders \cup {o} /\ status' = status /\ topic' = topic
      BY <2>1 DEF Create, workerVars, Outbox!Insert
    <3>2. status[o] = "PENDING"
      BY <3>1 DEF SettledIsPlaced
    <3>3. \A u \in Order : lf'[u] = IF u = o THEN "PENDING" ELSE lf[u]
      BY <3>1, <3>2
    <3>4. lf' = [lf EXCEPT ![o] = "PENDING"]
      BY <3>3
    <3>5. td' = td
      BY <3>1 DEF Changed, Row
    <3> QED BY <3>1, <3>4, <3>5
  <2>2. ASSUME NEW p \in Owners, NEW o \in Order, PublishCreated(p, o)
        PROVE  lf' = lf /\ td' = td
    <3>1. topic' = topic \cup {Created(o)} /\ orders' = orders
      BY <2>2 DEF PublishCreated, Outbox!PublishAck, Outbox!PublishError
    <3>2. status' = status
      BY <2>2 DEF PublishCreated, Consumer!Deliver, Consumer!dbVars
    <3>3. td' = td
      BY <3>1, RowsDiffer DEF Changed, Created, Row
    <3> QED BY <3>1, <3>2, <3>3
  <2>3. ASSUME NEW p \in Owners, NEW o \in Order, PublishOther(p, o)
        PROVE  \/ lf' = lf /\ td' = td
               \/ lf[o] \in {"CONFIRMED", "FAILED"} /\ td' = td \cup {o} /\ lf' = lf
    <3>1. UNCHANGED <<orders, status>>
      BY <2>3 DEF PublishOther, workerVars
    <3>2. CASE topic' = topic
      BY <3>1, <3>2 DEF Changed, Row
    <3>3. CASE topic' = topic \cup {Changed(o)} /\ job[p][Changed(o)] = "publish"
      <4>1. td' = td \cup {o}
        BY <3>3, RowsDiffer DEF Changed, Row
      <4>2. lf[o] \in {"CONFIRMED", "FAILED"}
        BY <2>0, <3>3, ToldWasSettled
      <4> QED BY <3>1, <4>1, <4>2
    <3>4. topic' = topic \/ (topic' = topic \cup {Changed(o)} /\ job[p][Changed(o)] = "publish")
      BY <2>3 DEF PublishOther, Outbox!PublishAck, Outbox!PublishError
    <3> QED BY <3>2, <3>3, <3>4
  <2>4. CASE PublisherStep
    <3>1. topic' = topic /\ UNCHANGED <<orders, workerVars>>
      BY <2>4 DEF PublisherStep, Outbox!LeaseExpires, Outbox!BecomesDue, Outbox!Claim,
                  Outbox!ClaimError, Outbox!LateClaim, Outbox!LateClaimDrop, Outbox!Start,
                  Outbox!Close, Outbox!Abandon, Outbox!LateExecute, Outbox!LateDrop
    <3>2. lf' = lf /\ td' = td
      BY <3>1 DEF workerVars, Changed, Row
    <3> QED BY <3>2
  <2>5. CASE WorkerStep
    <3>1. orders' = orders
      BY <2>5 DEF WorkerStep
    <3>2. topic' = topic
      BY <2>5, Announcements DEF outboxVars, Rows!Insert
    <3>3. td' = td
      BY <3>2 DEF Changed, Row
    <3>4. CASE status' = status
      BY <3>1, <3>3, <3>4
    <3>5. CASE status' # status
      <4>1. PICK o \in Order :
               /\ status[o] = "PENDING" /\ status'[o] = Verdict[o] /\ Verdict[o] # "PENDING"
               /\ \A u \in Order : u # o => status'[u] = status[u]
        BY <3>5, StepOfWork, SettlesOne
      <4>2. o \in orders
        BY <3>1, <4>1 DEF SettledIsPlaced
      <4>3. \A u \in Order : lf'[u] = IF u = o THEN Verdict[o] ELSE lf[u]
        BY <3>1, <4>1, <4>2
      <4>4. lf' = [lf EXCEPT ![o] = Verdict[o]] /\ lf[o] = "PENDING"
        BY <4>1, <4>2, <4>3
      <4> QED BY <3>3, <4>4
    <3> QED BY <3>4, <3>5
  <2>6. CASE UNCHANGED vars
    BY <2>6 DEF vars, outboxVars, workerVars, Changed, Row
  <2> HIDE DEF lf, td
  <2> QED BY <2>1, <2>2, <2>3, <2>4, <2>5, <2>6, StepCases
<1> QED BY <1>1, <1>2, ComponentsHold, FlowAccounted, SettledAfterPlaced, PTL
        DEF Spec, ImplementsLife, Life!Spec

(* A row that is neither invalid nor still to be published has its event   *)
(* on Kafka.                                                               *)
LEMMA SettledRow ==
    ASSUME Components, NEW e \in Events, rowStatus[e] # "ABSENT",
           e \notin {Created(o) : o \in Unpublishable}
    PROVE  rowStatus[e] \in {"PENDING", "PROCESSING"} \/ e \in topic
<1>1. rowStatus[e] \in {"PENDING", "PROCESSING", "PUBLISHED", "FAILED"}
  BY DEF Components, Rows!TypeOK, Rows!Statuses
<1>2. rowStatus[e] # "FAILED"
  BY DEF Components, Rows!PoisonContained
<1>3. rowStatus[e] = "PUBLISHED" => e \in topic
  BY DEF Components, Rows!PublishedIsOnTopic
<1> QED BY <1>1, <1>2, <1>3

(* If no poll returns records with an error, no order the client was told  *)
(* of is forgotten on its way from the first transaction through the       *)
(* outbox and Kafka to the worker that settles it, as far as publishOne    *)
(* accepts its event.  With a mixed fetch Run drops records that a later   *)
(* commit passes, and the order is lost.                                   *)
THEOREM NoOrderForgotten ==
    ASSUME ~MixedFetch
    PROVE  Spec => []NoOrderLost
<1>1. orders \subseteq Order /\ Components /\ FlowInv /\ Work!NoEventLost => NoOrderLost
  <2> SUFFICES ASSUME orders \subseteq Order, Components, FlowInv, Work!NoEventLost,
                      NEW o \in orders \ Unpublishable
               PROVE  \/ status[o] # "PENDING"
                      \/ Consumer!DeadLettered(o)
                      \/ Consumer!Outstanding(o)
                      \/ rowStatus[Created(o)] \in {"PENDING", "PROCESSING"}
    BY DEF NoOrderLost
  <2>1. o \in Order /\ Created(o) \in Events /\ rowStatus[Created(o)] # "ABSENT"
    BY RowsDiffer DEF FlowInv, PlacedWithRow
  <2>2. Created(o) \notin {Created(u) : u \in Unpublishable}
    BY <2>1, RowsDiffer, OrderFlowAssumption
  <2>3. CASE Created(o) \in topic
    <3>1. Work!Delivered(o)
      BY <2>1, <2>3 DEF FlowInv, TopicIsLog
    <3>2. o \in processed \/ Work!DeadLettered(o) \/ Work!Outstanding(o)
      BY <2>1, <3>1 DEF Work!NoEventLost
    <3>3. o \in processed => status[o] # "PENDING"
      BY <2>1 DEF Components, Work!SettledByEvent
    <3> QED BY <2>1, <3>2, <3>3, SameWork
  <2> QED BY <2>1, <2>2, <2>3, SettledRow
<1>2. Spec => []Work!NoEventLost
  BY WorkBehaves, WorkAssumption, Work!NothingLost, PTL
<1> QED BY <1>1, <1>2, OrdersTyped, ComponentsHold, FlowAccounted, PTL

(* The decision on an order is on Kafka or in a row that will be published *)
(* as soon as it is taken, with mixed fetches too: Complete inserts the    *)
(* row in the transaction that settles the order, and no row of this type  *)
(* is refused by publishOne.                                               *)
THEOREM NoDecisionForgotten == Spec => []NoDecisionLost
<1>1. Components /\ FlowInv => NoDecisionLost
  <2> SUFFICES ASSUME Components, FlowInv, NEW o \in Order, status[o] # "PENDING"
               PROVE  Changed(o) \in topic \/ rowStatus[Changed(o)] \in {"PENDING", "PROCESSING"}
    BY DEF NoDecisionLost
  <2>1. Changed(o) \in Events /\ rowStatus[Changed(o)] # "ABSENT"
    BY RowsDiffer DEF FlowInv, SettledWithRow
  <2>2. Changed(o) \notin {Created(u) : u \in Unpublishable}
    BY RowsDiffer, OrderFlowAssumption
  <2> QED BY <2>1, <2>2, SettledRow
<1> QED BY <1>1, ComponentsHold, FlowAccounted, PTL
=============================================================================
