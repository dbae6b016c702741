--------------------------- MODULE DeliveryProofs ---------------------------
(***************************************************************************)
(* No event is lost: a proof that offsets are committed only past records  *)
(* with a durable result, provided that no poll returns records together   *)
(* with a partition error (with them the property is false, see the        *)
(* README).                                                                *)
(***************************************************************************)
EXTENDS ConsumerProofs

-----------------------------------------------------------------------------
(* The inductive invariant, besides Structure.                             *)

(* What lies between the committed offset and the position of a partition  *)
(* is in the batch of its holder: nothing that was polled is dropped.      *)
NoGap ==
    \A p \in Partition, k \in Offset :
       owner[p] # Nobody /\ committed[p] < k /\ k <= position[p]
          => stage[owner[p]][<<p, k>>] # "none"

(* A record of e on the retry topic that neither a commit so far nor the   *)
(* next commit of w passes.                                                *)
RetryBeyond(w, e) ==
    \E k \in Offset :
       /\ committed[RetryOf[e]] < k /\ k <= Len(log[RetryOf[e]])
       /\ log[RetryOf[e]][k].event = e
       /\ stage[w][<<RetryOf[e], k>>] = "none"

Durable(w, e) == e \in processed \/ DeadLettered(e) \/ RetryBeyond(w, e)

(* "ok" is durable: the event of a record that a member is done with is    *)
(* processed, dead-lettered, or on the retry topic beyond the batch.       *)
OkIsDurable ==
    \A w \in Worker, p \in Partition, k \in Offset :
       state[w] = "busy" /\ stage[w][<<p, k>>] = "ok" => Durable(w, log[p][k].event)

Settled(e) == e \in processed \/ DeadLettered(e) \/ Outstanding(e)

AllSettled == \A p \in Partition : \A k \in 1 .. Len(log[p]) : Settled(log[p][k].event)

(* Records carry events.                                                   *)
LEMMA EventOfRecord ==
    ASSUME Structure, NEW p \in Partition, NEW k \in 1 .. Len(log[p])
    PROVE  log[p][k].event \in Event
<1>1. log[p] \in Seq(Record)
  BY DEF Structure, TypeOK
<1>2. log[p][k] \in Record
  BY <1>1
<1> QED BY <1>2 DEF Record

-----------------------------------------------------------------------------
(* Growth of the logs and of the tables.                                   *)

Persists == LogGrows /\ processed \subseteq processed' /\ dlq \subseteq dlq'

(* What has a durable result keeps it, and a new record is not passed yet. *)
LEMMA GrowthKeepsSettled ==
    ASSUME Structure, TypeOK', AllSettled, Persists, UNCHANGED committed
    PROVE  AllSettled'
<1> SUFFICES ASSUME NEW p \in Partition, NEW k \in 1 .. Len(log'[p])
             PROVE  Settled(log[p][k].event)'
  BY DEF AllSettled
<1>1. \A q \in Partition :
         /\ Len(log[q]) \in Nat /\ Len(log'[q]) \in Nat
         /\ committed[q] \in Nat /\ committed[q] <= Len(log[q])
         /\ DOMAIN log[q] = 1 .. Len(log[q]) /\ DOMAIN log'[q] = 1 .. Len(log'[q])
  BY DEF Structure, TypeOK, OffsetsInLog
<1>2. CASE k > Len(log[p])
  <2>1. k > committed'[p] /\ k \in DOMAIN log'[p]
    BY <1>1, <1>2
  <2> QED BY <2>1 DEF Settled, Outstanding
<1>3. CASE k <= Len(log[p])
  <2>0. k \in 1 .. Len(log[p])
    BY <1>1, <1>3
  <2>1. PICK e \in Event : e = log[p][k].event
    BY <2>0, EventOfRecord
  <2>2. e = log'[p][k].event /\ Settled(e)
    BY <2>0, <2>1 DEF Persists, LogGrows, AllSettled
  <2>3. CASE e \in processed \/ DeadLettered(e)
    <3>1. (e \in processed \/ DeadLettered(e))'
      BY <2>3 DEF Persists, DeadLettered
    <3> QED BY <2>2, <3>1 DEF Settled
  <2>4. CASE Outstanding(e)
    <3>1. PICK q \in Partition : \E j \in DOMAIN log[q] :
                                    j > committed[q] /\ log[q][j].event = e
      BY <2>4 DEF Outstanding
    <3>2. PICK j \in DOMAIN log[q] : j > committed[q] /\ log[q][j].event = e
      BY <3>1
    <3>3. log'[q][j] = log[q][j] /\ j \in DOMAIN log'[q]
      BY <1>1, <3>2 DEF Persists, LogGrows
    <3>4. Outstanding(e)'
      BY <3>2, <3>3 DEF Outstanding
    <3> QED BY <2>2, <3>4 DEF Settled
  <2> QED BY <2>2, <2>3, <2>4 DEF Settled
<1> QED BY <1>1, <1>2, <1>3

(* A record that is done stays durable while its batch goes on.            *)
LEMMA GrowthKeepsDurable ==
    ASSUME Structure, Persists, UNCHANGED committed, NEW w \in Worker, NEW e \in Event,
           Durable(w, e),
           \A q \in Partition, j \in Offset :
              stage[w][<<q, j>>] = "none" => stage'[w][<<q, j>>] = "none"
    PROVE  Durable(w, e)'
<1>1. CASE e \in processed \/ DeadLettered(e)
  BY <1>1 DEF Persists, Durable, DeadLettered
<1>2. CASE RetryBeyond(w, e)
  <2> DEFINE q == RetryOf[e]
  <2>1. q \in Partition
    BY ConsumerAssumption
  <2>2. PICK j \in Offset : /\ committed[q] < j /\ j <= Len(log[q])
                            /\ log[q][j].event = e
                            /\ stage[w][<<q, j>>] = "none"
    BY <1>2 DEF RetryBeyond
  <2>3. j \in 1 .. Len(log[q]) /\ Len(log[q]) \in Nat
    BY <2>1, <2>2 DEF Structure, TypeOK, Offset
  <2>4. log'[q][j] = log[q][j] /\ j <= Len(log'[q])
    BY <2>1, <2>2, <2>3 DEF Persists, LogGrows
  <2>5. stage'[w][<<q, j>>] = "none"
    BY <2>1, <2>2
  <2> HIDE DEF q
  <2>6. /\ committed'[q] < j /\ j <= Len(log'[q])
        /\ log'[q][j].event = e /\ stage'[w][<<q, j>>] = "none"
    BY <2>2, <2>4, <2>5
  <2>7. RetryBeyond(w, e)'
    BY <2>6 DEF RetryBeyond, q
  <2> QED BY <2>7 DEF Durable
<1> QED BY <1>1, <1>2 DEF Durable

-----------------------------------------------------------------------------
(* Commits.                                                                *)

(* What a commit of w passes is a record of w's batch that is done.        *)
LEMMA CommitPassesOk ==
    ASSUME Structure, NoGap, NEW w \in Worker, state[w] = "busy", Succeeded(w),
           NEW p \in Partition, NEW k \in Offset,
           committed[p] < k, k <= CommittedAfter(w)[p]
    PROVE  owner[p] = w /\ stage[w][<<p, k>>] = "ok"
<1>1. committed[p] \in Nat /\ position[p] \in Nat /\ k \in Nat
  BY ConsumerAssumption DEF Structure, TypeOK, Offset
<1>2. owner[p] = w /\ CommittedAfter(w)[p] = position[p]
  BY <1>1, CommitReachesPosition
<1>3. w # Nobody
  BY ConsumerAssumption
<1>4. stage[w][<<p, k>>] # "none"
  BY <1>2, <1>3 DEF NoGap
<1>5. <<p, k>> \in Batch(w)
  BY <1>4 DEF Batch
<1> QED BY <1>2, <1>5 DEF Succeeded

(* A commit of w leaves the retry records that were beyond its batch.      *)
LEMMA CommitKeepsRetry ==
    ASSUME Structure, NoGap, NEW w \in Worker, state[w] = "busy", Succeeded(w),
           NEW e \in Event, RetryBeyond(w, e)
    PROVE  \E k \in Offset :
              /\ CommittedAfter(w)[RetryOf[e]] < k /\ k <= Len(log[RetryOf[e]])
              /\ log[RetryOf[e]][k].event = e
              /\ stage[w][<<RetryOf[e], k>>] = "none"
<1> DEFINE q == RetryOf[e]
<1>1. q \in Partition
  BY ConsumerAssumption
<1>2. PICK k \in Offset : /\ committed[q] < k /\ k <= Len(log[q])
                          /\ log[q][k].event = e
                          /\ stage[w][<<q, k>>] = "none"
  BY DEF RetryBeyond
<1> HIDE DEF q
<1>3. CommittedAfter(w)[q] \in Nat /\ k \in Nat
  <2>1. committed[q] \in Nat /\ position[q] \in Nat /\ k \in Nat
    BY <1>1, ConsumerAssumption DEF Structure, TypeOK, Offset
  <2> QED BY <1>1, <2>1, CommitReachesPosition
<1>4. ~(k <= CommittedAfter(w)[q])
  <2> SUFFICES ASSUME k <= CommittedAfter(w)[q] PROVE FALSE
    OBVIOUS
  <2>1. stage[w][<<q, k>>] = "ok"
    BY <1>1, <1>2, CommitPassesOk
  <2> QED BY <1>2, <2>1
<1>5. CommittedAfter(w)[q] < k
  BY <1>3, <1>4
<1> QED BY <1>2, <1>5 DEF q

(* A commit passes only events with a durable result.                      *)
LEMMA CommitKeepsSettled ==
    ASSUME Structure, NoGap, OkIsDurable, AllSettled,
           NEW w \in Worker, state[w] = "busy", Succeeded(w),
           committed' = CommittedAfter(w), UNCHANGED <<log, dlq, processed>>
    PROVE  AllSettled'
<1> SUFFICES ASSUME NEW e \in Event, Settled(e) PROVE Settled(e)'
  BY EventOfRecord DEF AllSettled
<1>1. CASE e \in processed \/ DeadLettered(e)
  BY <1>1 DEF Settled, DeadLettered
<1>2. CASE Outstanding(e)
  <2>1. PICK p \in Partition : \E k \in DOMAIN log[p] : k > committed[p] /\ log[p][k].event = e
    BY <1>2 DEF Outstanding
  <2>2. PICK k \in DOMAIN log[p] : k > committed[p] /\ log[p][k].event = e
    BY <2>1
  <2>3. k \in Offset /\ k \in Nat /\ committed[p] \in Nat /\ committed[p] < k
    BY <2>2, ConsumerAssumption DEF Structure, TypeOK, Offset
  <2>4. CASE k <= CommittedAfter(w)[p]
    <3>1. stage[w][<<p, k>>] = "ok"
      BY <2>3, <2>4, CommitPassesOk
    <3>2. Durable(w, e)
      BY <2>2, <2>3, <3>1 DEF OkIsDurable
    <3>3. CASE e \in processed \/ DeadLettered(e)
      BY <3>3 DEF Settled, DeadLettered
    <3>4. CASE RetryBeyond(w, e)
      <4> DEFINE q == RetryOf[e]
      <4>1. q \in Partition /\ DOMAIN log[q] = 1 .. Len(log[q])
        BY ConsumerAssumption DEF Structure, TypeOK
      <4>2. PICK j \in Offset : /\ CommittedAfter(w)[q] < j /\ j <= Len(log[q])
                                /\ log[q][j].event = e
        BY <3>4, CommitKeepsRetry
      <4>3. CommittedAfter(w)[q] \in Nat /\ Len(log[q]) \in Nat
        <5>1. committed[q] \in Nat /\ position[q] \in Nat /\ Len(log[q]) \in Nat
          BY <4>1 DEF Structure, TypeOK
        <5> QED BY <4>1, <5>1, CommitReachesPosition
      <4> HIDE DEF q
      <4>4. j \in DOMAIN log[q] /\ j > committed'[q]
        BY <4>1, <4>2, <4>3, ConsumerAssumption DEF Offset
      <4>5. Outstanding(e)'
        BY <4>1, <4>2, <4>4 DEF Outstanding
      <4> QED BY <4>5 DEF Settled
    <3> QED BY <3>2, <3>3, <3>4 DEF Durable
  <2>5. CASE ~(k <= CommittedAfter(w)[p])
    <3>1. CommittedAfter(w)[p] \in Nat
      <4>1. committed[p] \in Nat /\ position[p] \in Nat
        BY DEF Structure, TypeOK
      <4> QED BY <4>1, CommitReachesPosition
    <3>2. k > committed'[p]
      BY <2>3, <2>5, <3>1
    <3> QED BY <2>2, <3>2 DEF Settled, Outstanding
  <2> QED BY <2>4, <2>5
<1> QED BY <1>1, <1>2 DEF Settled

(* A commit of w leaves what another member v is done with durable: a      *)
(* retry record that it passes was itself done in the batch of w.          *)
LEMMA CommitKeepsDurable ==
    ASSUME Structure, NoGap, OkIsDurable,
           NEW w \in Worker, state[w] = "busy", Succeeded(w),
           committed' = CommittedAfter(w), UNCHANGED <<log, dlq, processed>>,
           NEW v \in Worker, v # w, state[v] = "busy", stage'[v] = stage[v],
           NEW e \in Event, Durable(v, e)
    PROVE  Durable(v, e)'
<1> DEFINE q == RetryOf[e]
<1>1. q \in Partition
  BY ConsumerAssumption
<1>2. CASE e \in processed \/ DeadLettered(e)
  BY <1>2 DEF Durable, DeadLettered
<1>3. CASE RetryBeyond(v, e)
  <2>1. PICK k \in Offset : /\ committed[q] < k /\ k <= Len(log[q])
                            /\ log[q][k].event = e
                            /\ stage[v][<<q, k>>] = "none"
    BY <1>3 DEF RetryBeyond
  <2>2. CASE k <= CommittedAfter(w)[q]
    <3>1. owner[q] = w /\ stage[w][<<q, k>>] = "ok"
      BY <1>1, <2>1, <2>2, CommitPassesOk
    <3>2. Durable(w, e)
      BY <1>1, <2>1, <3>1 DEF OkIsDurable
    <3>3. CASE RetryBeyond(w, e)
      <4>1. PICK j \in Offset : /\ CommittedAfter(w)[q] < j /\ j <= Len(log[q])
                                /\ log[q][j].event = e
        BY <3>3, CommitKeepsRetry
      <4>2. stage[v][<<q, j>>] = "none"
        BY <1>1, <3>1 DEF Structure, BatchAtPosition
      <4> HIDE DEF q
      <4>3. /\ committed'[q] < j /\ j <= Len(log'[q])
            /\ log'[q][j].event = e /\ stage'[v][<<q, j>>] = "none"
        BY <4>1, <4>2
      <4>4. RetryBeyond(v, e)'
        BY <4>3 DEF RetryBeyond, q
      <4> QED BY <4>4 DEF Durable
    <3>4. CASE e \in processed \/ DeadLettered(e)
      BY <3>4 DEF Durable, DeadLettered
    <3> QED BY <3>2, <3>3, <3>4 DEF Durable
  <2>3. CASE ~(k <= CommittedAfter(w)[q])
    <3>1. CommittedAfter(w)[q] \in Nat /\ k \in Nat
      <4>1. committed[q] \in Nat /\ position[q] \in Nat /\ k \in Nat
        BY <1>1, ConsumerAssumption DEF Structure, TypeOK, Offset
      <4> QED BY <1>1, <4>1, CommitReachesPosition
    <3> HIDE DEF q
    <3>2. /\ committed'[q] < k /\ k <= Len(log'[q])
          /\ log'[q][k].event = e /\ stage'[v][<<q, k>>] = "none"
      BY <2>1, <2>3, <3>1
    <3>3. RetryBeyond(v, e)'
      BY <3>2 DEF RetryBeyond, q
    <3> QED BY <3>3 DEF Durable
  <2> QED BY <2>2, <2>3
<1> QED BY <1>2, <1>3 DEF Durable

-----------------------------------------------------------------------------
(* Steps that commit nothing.                                              *)

Delivery == NoGap /\ OkIsDurable /\ AllSettled

(* Steps that end batches or move partitions, and steps elsewhere.         *)
LEMMA QuietKeepsDelivery ==
    ASSUME Structure, TypeOK', Delivery, Persists, UNCHANGED committed,
           \A p \in Partition : owner'[p] # Nobody =>
              \/ position'[p] = committed[p]
              \/ /\ owner'[p] = owner[p] /\ position'[p] = position[p]
                 /\ stage'[owner[p]] = stage[owner[p]],
           \A v \in Worker : state'[v] = "busy" => state[v] = "busy" /\ stage'[v] = stage[v]
    PROVE  Delivery'
<1>1. AllSettled'
  BY GrowthKeepsSettled DEF Delivery
<1>2. NoGap'
  <2> SUFFICES ASSUME NEW p \in Partition, NEW k \in Offset, owner'[p] # Nobody,
                      committed[p] < k, k <= position'[p]
               PROVE  stage'[owner'[p]][<<p, k>>] # "none"
    BY DEF NoGap
  <2>1. position'[p] # committed[p]
    BY ConsumerAssumption DEF Structure, TypeOK, Offset
  <2> QED BY <2>1 DEF Delivery, NoGap
<1>3. OkIsDurable'
  <2> SUFFICES ASSUME NEW v \in Worker, NEW p \in Partition, NEW k \in Offset,
                      state'[v] = "busy", stage'[v][<<p, k>>] = "ok"
               PROVE  Durable(v, log[p][k].event)'
    BY DEF OkIsDurable
  <2>1. state[v] = "busy" /\ stage'[v] = stage[v]
    OBVIOUS
  <2>2. k \in 1 .. Len(log[p]) /\ log'[p][k] = log[p][k]
    BY <2>1 DEF Structure, OffsetsInLog, Offset, Persists, LogGrows
  <2>3. Durable(v, log[p][k].event) /\ log[p][k].event \in Event
    BY <2>1, <2>2, EventOfRecord DEF Delivery, OkIsDurable
  <2> QED BY <2>1, <2>2, <2>3, GrowthKeepsDurable
<1> QED BY <1>1, <1>2, <1>3 DEF Delivery

(* A step of processRecord, if "ok" is its result only with a durable one. *)
LEMMA MovesKeepDelivery ==
    ASSUME Structure, TypeOK', Delivery, Persists,
           NEW w \in Worker, NEW i \in Batch(w), Moves(w, i),
           stage'[w][i] = "ok" => Durable(w, RecordAt(i).event)'
    PROVE  Delivery'
<1>1. i \in Partition \X Offset /\ stage[w][i] # "none"
  BY DEF Batch
<1>2. /\ stage \in [Worker -> [Partition \X Offset -> Stages]]
      /\ stage' \in [Worker -> [Partition \X Offset -> Stages]]
      /\ UNCHANGED <<committed, owner, position, state>>
  BY DEF Structure, TypeOK, Moves
<1>3. \A v \in Worker, j \in Partition \X Offset :
         /\ stage'[v][j] # "none" <=> stage[v][j] # "none"
         /\ ~(v = w /\ j = i) => stage'[v][j] = stage[v][j]
  BY <1>1, <1>2 DEF Moves
<1>4. AllSettled'
  BY <1>2, GrowthKeepsSettled DEF Delivery
<1>5. NoGap'
  <2> SUFFICES ASSUME NEW p \in Partition, NEW k \in Offset, owner[p] # Nobody,
                      committed[p] < k, k <= position[p]
               PROVE  stage'[owner[p]][<<p, k>>] # "none"
    BY <1>2 DEF NoGap
  <2>1. stage[owner[p]][<<p, k>>] # "none" /\ owner[p] \in Worker
    BY DEF Delivery, NoGap, Structure, TypeOK
  <2> QED BY <1>3, <2>1
<1>6. OkIsDurable'
  <2> SUFFICES ASSUME NEW v \in Worker, NEW p \in Partition, NEW k \in Offset,
                      state[v] = "busy", stage'[v][<<p, k>>] = "ok"
               PROVE  Durable(v, log[p][k].event)'
    BY <1>2 DEF OkIsDurable
  <2>1. CASE v = w /\ <<p, k>> = i
    BY <2>1 DEF RecordAt
  <2>2. CASE ~(v = w /\ <<p, k>> = i)
    <3>1. stage[v][<<p, k>>] = "ok"
      BY <1>3, <2>2
    <3>2. k \in 1 .. Len(log[p]) /\ log'[p][k] = log[p][k]
      BY <3>1 DEF Structure, OffsetsInLog, Offset, Persists, LogGrows
    <3>3. Durable(v, log[p][k].event) /\ log[p][k].event \in Event
      BY <3>1, <3>2, EventOfRecord DEF Delivery, OkIsDurable
    <3>4. \A q \in Partition, j \in Offset :
             stage[v][<<q, j>>] = "none" => stage'[v][<<q, j>>] = "none"
      BY <1>3
    <3> QED BY <1>2, <3>2, <3>3, <3>4, GrowthKeepsDurable
  <2> QED BY <2>1, <2>2
<1> QED BY <1>4, <1>5, <1>6 DEF Delivery

(* What a step of processRecord writes stays written.                      *)
LEMMA PoolStepPersists ==
    ASSUME Structure, NEW w \in Worker, NEW i \in Batch(w),
           \/ Start(w, i) \/ StartSkewed(w, i) \/ Check(w, i) \/ Process(w, i)
           \/ StepError(w, i) \/ Complete(w, i) \/ CompleteRefused(w, i)
           \/ CompleteError(w, i) \/ Route(w, i) \/ RouteError(w, i)
    PROVE  Persists
<1>1. LogGrows
  BY PoolStepMoves
<1>2. RecordAt(i) \in Record
  BY RecordOfBatch DEF Structure
<1>3. CASE Route(w, i) \/ RouteError(w, i)
  <2>1. UNCHANGED processed /\ (Written(stage[w][i], RecordAt(i)) \/ UNCHANGED <<log, dlq>>)
    BY <1>3 DEF Route, RouteError, dbVars
  <2>2. stage[w][i] \in {"retry", "dlq"}
    BY <1>3 DEF Route, RouteError
  <2>3. dlq \subseteq dlq'
    BY <1>2, <2>1, <2>2, WrittenRoutes DEF Structure
  <2> QED BY <1>1, <2>1, <2>3 DEF Persists
<1>4. CASE Complete(w, i)
  BY <1>1, <1>4 DEF Complete, Settle, kafkaVars, Persists
<1>5. CASE \/ Start(w, i) \/ StartSkewed(w, i) \/ Check(w, i) \/ Process(w, i)
           \/ StepError(w, i) \/ CompleteRefused(w, i) \/ CompleteError(w, i)
  <2>1. UNCHANGED <<dlq, processed>>
    BY <1>5 DEF Start, StartSkewed, Check, Process, StepError, CompleteRefused,
                CompleteError, kafkaVars, dbVars
  <2> QED BY <1>1, <2>1 DEF Persists
<1> QED BY <1>3, <1>4, <1>5

(* "ok" is the result of a duplicate, of a completion and of a record that *)
(* was routed, and each of them is durable.                                *)
LEMMA OkEarned ==
    ASSUME Structure, NEW w \in Worker, NEW i \in Batch(w), stage'[w][i] = "ok",
           \/ Start(w, i) \/ StartSkewed(w, i) \/ Check(w, i) \/ Process(w, i)
           \/ StepError(w, i) \/ Complete(w, i) \/ CompleteRefused(w, i)
           \/ CompleteError(w, i) \/ Route(w, i) \/ RouteError(w, i)
    PROVE  Durable(w, RecordAt(i).event)'
<1>1. /\ i \in Partition \X Offset /\ i[1] \in Partition
      /\ i[2] \in 1 .. Len(log[i[1]]) /\ RecordAt(i) \in Record
  BY RecordOfBatch DEF Structure
<1>2. RecordAt(i).event \in Event
  BY <1>1 DEF Record
<1>3. RecordAt(i)' = RecordAt(i)
  BY <1>1, PoolStepMoves DEF LogGrows, RecordAt
<1>4. stage \in [Worker -> [Partition \X Offset -> Stages]]
  BY DEF Structure, TypeOK
<1>5. CASE Check(w, i)
  <2>1. RecordAt(i).event \in processed
    BY <1>1, <1>4, <1>5 DEF Check, Goto
  <2> QED BY <1>3, <1>5, <2>1 DEF Check, dbVars, Durable
<1>6. CASE Complete(w, i)
  BY <1>3, <1>6 DEF Complete, Settle, Durable
<1>7. CASE Route(w, i)
  <2>0. PICK e \in Event : e = RecordAt(i).event
    BY <1>2
  <2> DEFINE q == RetryOf[e]
             k == Len(log[q]) + 1
  <2>1. stage[w][i] \in {"retry", "dlq"} /\ Written(stage[w][i], RecordAt(i))
    BY <1>7 DEF Route
  <2>2. CASE \E d \in DeadLetter : d.event = e /\ dlq' = dlq \cup {d}
    <3>1. DeadLettered(e)'
      BY <2>2 DEF DeadLettered
    <3> QED BY <1>3, <2>0, <3>1 DEF Durable
  <2>3. CASE \E t \in Record : t.event = e /\ Produce(q, t)
    <3>1. PICK t \in Record : t.event = e /\ Produce(q, t)
      BY <2>3
    <3>2. q \in Partition
      BY ConsumerAssumption
    <3>3. /\ Len(log'[q]) = k /\ log'[q][k] = t /\ k \in Offset
      BY <3>1, <3>2, ProduceGrows DEF Structure
    <3>4. Len(log[q]) \in Nat /\ committed[q] \in Nat /\ committed[q] <= Len(log[q])
      BY <3>2 DEF Structure, TypeOK, OffsetsInLog
    <3>5. committed'[q] < k
      BY <1>7, <3>4 DEF Route
    <3>6. stage[w][<<q, k>>] = "none"
      BY <3>2, <3>3, <3>4 DEF Structure, OffsetsInLog
    <3>7. stage'[w][<<q, k>>] = "none"
      <4>1. <<q, k>> # i /\ <<q, k>> \in Partition \X Offset
        BY <2>1, <3>2, <3>3, <3>6
      <4> HIDE DEF q, k
      <4> QED BY <1>1, <1>4, <1>7, <3>6, <4>1 DEF Route, Goto
    <3> HIDE DEF q, k
    <3>8. /\ k <= Len(log'[q]) /\ log'[q][k].event = e
      BY <3>1, <3>3, <3>4 DEF k
    <3>9. RetryBeyond(w, e)'
      BY <3>3, <3>5, <3>7, <3>8 DEF RetryBeyond, q
    <3> QED BY <1>3, <2>0, <3>9 DEF Durable
  <2> QED BY <1>1, <2>0, <2>1, <2>2, <2>3, WrittenRoutes DEF Structure
<1>8. CASE \/ Start(w, i) \/ StartSkewed(w, i) \/ Process(w, i) \/ StepError(w, i)
           \/ CompleteRefused(w, i) \/ CompleteError(w, i) \/ RouteError(w, i)
  <2>1. stage'[w][i] # "ok"
    BY <1>1, <1>4, <1>8 DEF Start, StartSkewed, Process, StepError, CompleteRefused,
                            CompleteError, RouteError, Goto
  <2> QED BY <2>1
<1> QED BY <1>5, <1>6, <1>7, <1>8

-----------------------------------------------------------------------------
(* The commit of a batch, and the theorem.                                 *)

(* A batch that is committed, whether or not its worker goes on.           *)
LEMMA CommitKeepsDelivery ==
    ASSUME Structure, Delivery, NEW w \in Worker, state[w] = "busy", Succeeded(w),
           committed' = CommittedAfter(w), UNCHANGED <<log, dlq, position, processed>>,
           state'[w] # "busy",
           \A v \in Worker : v # w => state'[v] = state[v] /\ stage'[v] = stage[v],
           \A p \in Partition : owner'[p] # Nobody => owner'[p] = owner[p]
    PROVE  Delivery'
<1>1. AllSettled'
  BY CommitKeepsSettled DEF Delivery
<1>2. NoGap'
  <2> SUFFICES ASSUME NEW p \in Partition, NEW k \in Offset, owner'[p] # Nobody,
                      CommittedAfter(w)[p] < k, k <= position[p]
               PROVE  stage'[owner[p]][<<p, k>>] # "none"
    BY DEF NoGap
  <2>1. owner[p] \in Worker /\ owner[p] # Nobody
    BY DEF Structure, TypeOK
  <2>2. position[p] \in Nat /\ k \in Nat
    BY ConsumerAssumption DEF Structure, TypeOK, Offset
  <2>3. CommittedAfter(w)[p] # position[p]
    BY <2>2
  <2>4. /\ CommittedAfter(w)[p] = committed[p]
        /\ stage[w][<<p, k>>] = "none"
    BY <2>3, CommitReachesPosition
  <2>5. stage[owner[p]][<<p, k>>] # "none"
    BY <2>1, <2>4 DEF Delivery, NoGap
  <2>6. owner[p] # w
    BY <2>4, <2>5
  <2> QED BY <2>1, <2>5, <2>6
<1>3. OkIsDurable'
  <2> SUFFICES ASSUME NEW v \in Worker, NEW p \in Partition, NEW k \in Offset,
                      state'[v] = "busy", stage'[v][<<p, k>>] = "ok"
               PROVE  Durable(v, log[p][k].event)'
    BY DEF OkIsDurable
  <2>1. v # w /\ state[v] = "busy" /\ stage'[v] = stage[v]
    OBVIOUS
  <2>2. k \in 1 .. Len(log[p])
    BY <2>1 DEF Structure, OffsetsInLog, Offset
  <2>3. PICK e \in Event : e = log[p][k].event
    BY <2>2, EventOfRecord
  <2>4. Durable(v, e)
    BY <2>1, <2>3 DEF Delivery, OkIsDurable
  <2>5. Durable(v, e)'
    BY <2>1, <2>4, CommitKeepsDurable DEF Delivery
  <2> QED BY <2>3, <2>5
<1> QED BY <1>1, <1>2, <1>3 DEF Delivery

(* A poll that returns records puts all of them into the batch.            *)
LEMMA PollKeepsDelivery ==
    ASSUME Structure, Structure', Delivery, NEW w \in Worker, Poll(w)
    PROVE  Delivery'
<1>1. PICK n \in Polls(w) :
         /\ Advance(n)
         /\ stage' = [stage EXCEPT ![w] =
               [i \in Partition \X Offset |-> IF InPoll(n, i) THEN "queued" ELSE "none"]]
  BY DEF Poll
<1>2. /\ state[w] = "idle" /\ state' = [state EXCEPT ![w] = "busy"]
      /\ UNCHANGED <<log, dlq, committed, owner, processed>>
  BY DEF Poll, dbVars
<1>3. \A p \in Partition :
         /\ n[p] \in Nat /\ position'[p] = position[p] + n[p]
         /\ n[p] > 0 => owner[p] = w
         /\ position[p] \in Nat /\ committed[p] \in Nat
  BY <1>1 DEF Advance, Polls, Structure, TypeOK
<1>4. \A v \in Worker : v # w => stage'[v] = stage[v] /\ state'[v] = state[v]
  BY <1>1, <1>2 DEF Structure, TypeOK
<1>5. \A p \in Partition, k \in Offset :
         stage'[w][<<p, k>>] =
            IF position[p] < k /\ k <= position[p] + n[p] THEN "queued" ELSE "none"
  BY <1>1 DEF InPoll, Structure, TypeOK
<1>6. Persists
  <2>1. LogGrows
    BY <1>2 DEF LogGrows, Structure, TypeOK
  <2> QED BY <1>2, <2>1 DEF Persists
<1>7. AllSettled'
  BY <1>2, <1>6, GrowthKeepsSettled DEF Delivery, Structure
<1>8. NoGap'
  <2> SUFFICES ASSUME NEW p \in Partition, NEW k \in Offset, owner[p] # Nobody,
                      committed[p] < k, k <= position'[p]
               PROVE  stage'[owner[p]][<<p, k>>] # "none"
    BY <1>2 DEF NoGap
  <2>1. owner[p] \in Worker
    BY DEF Structure, TypeOK
  <2>2. CASE owner[p] = w
    <3>1. stage[w][<<p, k>>] = "none"
      BY <1>2 DEF Structure, MembersOwn, NoBatch
    <3>2. ~(k <= position[p])
      BY <2>2, <3>1 DEF Delivery, NoGap
    <3>3. position[p] < k /\ k <= position[p] + n[p]
      BY <1>3, <3>2, ConsumerAssumption DEF Offset
    <3> QED BY <1>5, <2>2, <3>3
  <2>3. CASE owner[p] # w
    <3>1. position'[p] = position[p]
      BY <1>3, <2>3
    <3> QED BY <1>4, <2>1, <2>3, <3>1 DEF Delivery, NoGap
  <2> QED BY <2>2, <2>3
<1>9. OkIsDurable'
  <2> SUFFICES ASSUME NEW v \in Worker, NEW p \in Partition, NEW k \in Offset,
                      state'[v] = "busy", stage'[v][<<p, k>>] = "ok"
               PROVE  Durable(v, log[p][k].event)'
    BY DEF OkIsDurable
  <2>1. v # w
    BY <1>5
  <2>2. state[v] = "busy" /\ stage'[v] = stage[v]
    BY <1>4, <2>1
  <2>3. k \in 1 .. Len(log[p])
    BY <2>2 DEF Structure, OffsetsInLog, Offset
  <2>4. PICK e \in Event : e = log[p][k].event
    BY <2>3, EventOfRecord
  <2>5. Durable(v, e)
    BY <2>2, <2>4 DEF Delivery, OkIsDurable
  <2>6. Durable(v, e)'
    BY <1>2, <1>6, <2>2, <2>5, GrowthKeepsDurable
  <2> QED BY <1>2, <2>4, <2>6
<1> QED BY <1>7, <1>8, <1>9 DEF Delivery

(* Records are dropped by no step but a mixed fetch: the invariant.        *)
THEOREM DeliveryCorrect ==
    ASSUME ~MixedFetch
    PROVE  Spec => []Delivery
<1>1. Init => Delivery
  <2> SUFFICES ASSUME Init PROVE Delivery
    OBVIOUS
  <2>1. NoGap
    BY DEF Init, NoGap
  <2>2. OkIsDurable
    BY DEF Init, OkIsDurable
  <2>3. AllSettled
    BY DEF Init, AllSettled
  <2> QED BY <2>1, <2>2, <2>3 DEF Delivery
<1>2. Structure /\ Structure' /\ Delivery /\ [Next]_vars => Delivery'
  <2> SUFFICES ASSUME Structure, Structure', Delivery, [Next]_vars PROVE Delivery'
    OBVIOUS
  <2>0. TypeOK /\ TypeOK'
    BY DEF Structure
  <2>1. ASSUME UNCHANGED log PROVE LogGrows
    BY <2>0, <2>1 DEF LogGrows, TypeOK
  <2>2. ASSUME NEW e \in Event, Deliver(e) PROVE Delivery'
    <3>1. /\ Produce(CreatedOf[e], [event |-> e, attempt |-> 0])
          /\ UNCHANGED <<dlq, committed, owner, position, processed, state, stage>>
      BY <2>2 DEF Deliver, dbVars
    <3>2. CreatedOf[e] \in Partition /\ [event |-> e, attempt |-> 0] \in Record
      BY ConsumerAssumption DEF Record
    <3>3. LogGrows
      BY <2>0, <3>1, <3>2, ProduceGrows
    <3>4. Persists
      BY <3>1, <3>3 DEF Persists
    <3> QED BY <2>0, <3>1, <3>4, QuietKeepsDelivery
  <2>3. ASSUME NEW e \in Event, LateCommit(e) \/ LateRollback(e) PROVE Delivery'
    <3>1. UNCHANGED <<log, dlq, committed, owner, position, state, stage>>
      BY <2>3 DEF LateCommit, LateRollback, kafkaVars
    <3>2. processed \subseteq processed'
      BY <2>3 DEF LateCommit, LateRollback, Settle
    <3>3. Persists
      BY <2>1, <3>1, <3>2 DEF Persists
    <3> QED BY <2>0, <3>1, <3>3, QuietKeepsDelivery
  <2>4. ASSUME NEW p \in Partition, Revoke(p) PROVE Delivery'
    <3>1. /\ owner' = [owner EXCEPT ![p] = Nobody]
          /\ UNCHANGED <<log, dlq, committed, position, processed, state, stage>>
      BY <2>4 DEF Revoke, dbVars
    <3>2. \A q \in Partition : owner'[q] # Nobody => owner'[q] = owner[q]
      BY <2>0, <3>1 DEF TypeOK
    <3>3. Persists
      BY <2>1, <3>1 DEF Persists
    <3> QED BY <2>0, <3>1, <3>2, <3>3, QuietKeepsDelivery
  <2>5. ASSUME NEW p \in Partition, NEW w \in Worker, Assign(p, w) PROVE Delivery'
    <3>1. /\ owner' = [owner EXCEPT ![p] = w]
          /\ position' = [position EXCEPT ![p] = committed[p]]
          /\ UNCHANGED <<log, dlq, committed, processed, state, stage>>
      BY <2>5 DEF Assign, dbVars
    <3>2. \A q \in Partition : \/ position'[q] = committed[q]
                               \/ owner'[q] = owner[q] /\ position'[q] = position[q]
      BY <2>0, <3>1 DEF TypeOK
    <3>3. Persists
      BY <2>1, <3>1 DEF Persists
    <3> QED BY <2>0, <3>1, <3>2, <3>3, QuietKeepsDelivery
  <2>6. ASSUME NEW w \in Worker, Poll(w) PROVE Delivery'
    BY <2>6, PollKeepsDelivery
  <2>7. ASSUME NEW w \in Worker, PollError(w) PROVE Delivery'
    BY <2>7 DEF PollError
  <2>8. ASSUME NEW w \in Worker, CommitBatch(w) PROVE Delivery'
    <3>1. /\ state[w] = "busy" /\ Succeeded(w) /\ committed' = CommittedAfter(w)
          /\ state' = [state EXCEPT ![w] = "idle"]
          /\ stage' = [stage EXCEPT ![w] = NoBatch]
          /\ UNCHANGED <<log, dlq, owner, position, processed>>
      BY <2>8 DEF CommitBatch, dbVars
    <3>2. /\ state'[w] # "busy"
          /\ \A v \in Worker : v # w => state'[v] = state[v] /\ stage'[v] = stage[v]
      BY <2>0, <3>1 DEF TypeOK
    <3> QED BY <3>1, <3>2, CommitKeepsDelivery
  <2>9. ASSUME NEW w \in Worker, Exit(w)
        PROVE  /\ state'[w] # "busy"
               /\ \A v \in Worker : v # w => state'[v] = state[v] /\ stage'[v] = stage[v]
               /\ \A p \in Partition : owner'[p] # Nobody => owner'[p] = owner[p] /\ owner[p] # w
    <3>1. /\ state' = [state EXCEPT ![w] = "down"]
          /\ stage' = [stage EXCEPT ![w] = NoBatch]
          /\ owner' = [p \in Partition |-> IF owner[p] = w THEN Nobody ELSE owner[p]]
      BY <2>9 DEF Exit, Disown
    <3>2. state \in [Worker -> States] /\ stage \in [Worker -> [Partition \X Offset -> Stages]]
      BY <2>0 DEF TypeOK
    <3>3. /\ state'[w] # "busy"
          /\ \A v \in Worker : v # w => state'[v] = state[v] /\ stage'[v] = stage[v]
      BY <3>1, <3>2
    <3>4. \A p \in Partition : owner'[p] # Nobody => owner'[p] = owner[p] /\ owner[p] # w
      BY <3>1
    <3> QED BY <3>3, <3>4
  <2>10. ASSUME NEW w \in Worker, Exit(w), UNCHANGED <<log, dlq, committed, position, processed>>
         PROVE  Delivery'
    <3>1. \A p \in Partition : owner'[p] # Nobody =>
             owner'[p] = owner[p] /\ stage'[owner[p]] = stage[owner[p]]
      <4>1. \A p \in Partition : owner[p] \in Worker \cup {Nobody}
        BY <2>0 DEF TypeOK
      <4> QED BY <2>9, <2>10, <4>1
    <3>2. \A v \in Worker : state'[v] = "busy" => state[v] = "busy" /\ stage'[v] = stage[v]
      BY <2>9, <2>10
    <3>3. Persists
      BY <2>1, <2>10 DEF Persists
    <3> QED BY <2>0, <2>10, <3>1, <3>2, <3>3, QuietKeepsDelivery
  <2>11. ASSUME NEW w \in Worker, CommitError(w) PROVE Delivery'
    <3>1. /\ state[w] = "busy" /\ Succeeded(w) /\ Exit(w)
          /\ committed' \in {committed, CommittedAfter(w)}
          /\ UNCHANGED <<log, dlq, position, processed>>
      BY <2>11 DEF CommitError, dbVars
    <3>2. CASE committed' = committed
      BY <2>10, <3>1, <3>2
    <3>3. CASE committed' = CommittedAfter(w)
      BY <2>9, <3>1, <3>3, CommitKeepsDelivery
    <3> QED BY <3>1, <3>2, <3>3
  <2>12. ASSUME NEW w \in Worker, CommitRefused(w) \/ FailBatch(w) \/ Terminate(w)
         PROVE  Delivery'
    <3>1. Exit(w) /\ UNCHANGED <<log, dlq, committed, position, processed>>
      BY <2>12 DEF CommitRefused, FailBatch, Terminate, dbVars
    <3> QED BY <2>10, <3>1
  <2>13. ASSUME NEW w \in Worker, Expel(w) \/ Restart(w) PROVE Delivery'
    <3>1. /\ \E s \in {"zombie", "idle"} : state' = [state EXCEPT ![w] = s]
          /\ \A p \in Partition : owner'[p] # Nobody => owner'[p] = owner[p]
          /\ UNCHANGED <<log, dlq, committed, position, processed, stage>>
      BY <2>13 DEF Expel, Restart, Disown, kafkaVars, dbVars
    <3>2. \A v \in Worker : state'[v] = "busy" => state[v] = "busy"
      BY <2>0, <3>1 DEF TypeOK
    <3>3. Persists
      BY <2>1, <3>1 DEF Persists
    <3> QED BY <2>0, <3>1, <3>2, <3>3, QuietKeepsDelivery
  <2>14. ASSUME NEW w \in Worker, NEW i \in Batch(w),
                \/ Start(w, i) \/ StartSkewed(w, i) \/ Check(w, i) \/ Process(w, i)
                \/ StepError(w, i) \/ Complete(w, i) \/ CompleteRefused(w, i)
                \/ CompleteError(w, i) \/ Route(w, i) \/ RouteError(w, i)
         PROVE  Delivery'
    <3>1. Moves(w, i)
      BY <2>14, PoolStepMoves
    <3>2. Persists
      BY <2>14, PoolStepPersists
    <3>3. stage'[w][i] = "ok" => Durable(w, RecordAt(i).event)'
      BY <2>14, OkEarned
    <3> QED BY <2>0, <3>1, <3>2, <3>3, MovesKeepDelivery
  <2>15. CASE UNCHANGED vars
    <3>1. UNCHANGED <<log, dlq, committed, owner, position, processed, state, stage>>
      BY <2>15 DEF vars, kafkaVars, dbVars
    <3>2. Persists
      BY <2>1, <3>1 DEF Persists
    <3> QED BY <2>0, <3>1, <3>2, QuietKeepsDelivery
  <2> QED BY <2>2, <2>3, <2>4, <2>5, <2>6, <2>7, <2>8, <2>11, <2>12, <2>13, <2>14, <2>15, NextCases
<1> QED BY <1>1, <1>2, StructureCorrect, PTL DEF Spec

(* Offsets pass only records with a durable result: whatever crashes, is   *)
(* expelled, times out or is delivered again, a delivered event is         *)
(* processed, in the dead letter queue or in a record that will be read.   *)
THEOREM NothingLost ==
    ASSUME ~MixedFetch
    PROVE  Spec => []NoEventLost
<1>1. Structure /\ Delivery => NoEventLost
  <2> SUFFICES ASSUME Structure, Delivery, NEW e \in Event, Delivered(e) PROVE Settled(e)
    BY DEF NoEventLost, Settled
  <2>1. PICK k \in DOMAIN log[CreatedOf[e]] : log[CreatedOf[e]][k].event = e
    BY DEF Delivered
  <2>2. CreatedOf[e] \in Partition
    BY ConsumerAssumption
  <2>3. DOMAIN log[CreatedOf[e]] = 1 .. Len(log[CreatedOf[e]])
    BY <2>2 DEF Structure, TypeOK
  <2> QED BY <2>1, <2>2, <2>3 DEF Delivery, AllSettled
<1> QED BY <1>1, StructureCorrect, DeliveryCorrect, PTL

(* A commit passes only records whose handler has succeeded, and no offset *)
(* moves back.                                                             *)
THEOREM CommitsInOrder == Spec => CommitPassesDone
<1> DEFINE Passes(p) == /\ committed[p] <= committed'[p]
                        /\ \A k \in committed[p] + 1 .. committed'[p] :
                              \E w \in Worker : stage[w][<<p, k>>] = "ok"
<1>1. Structure /\ Delivery /\ [Next]_vars => \A p \in Partition : Passes(p)
  <2> SUFFICES ASSUME Structure, Delivery, [Next]_vars, NEW p \in Partition PROVE Passes(p)
    OBVIOUS
  <2>1. committed[p] \in 0 .. MaxLog /\ position[p] \in 0 .. MaxLog /\ MaxLog \in Nat
    BY ConsumerAssumption DEF Structure, TypeOK
  <2>2. CASE UNCHANGED committed
    BY <2>1, <2>2
  <2>3. ASSUME NEW w \in Worker, state[w] = "busy", Succeeded(w), committed' = CommittedAfter(w)
        PROVE  Passes(p)
    <3>1. committed[p] <= committed'[p] /\ committed'[p] \in 0 .. MaxLog
      BY <2>1, <2>3, CommitReachesPosition
    <3>2. ASSUME NEW k \in committed[p] + 1 .. committed'[p] PROVE stage[w][<<p, k>>] = "ok"
      <4>1. k \in Offset /\ committed[p] < k /\ k <= CommittedAfter(w)[p]
        BY <2>1, <2>3, <3>1, <3>2 DEF Offset
      <4> QED BY <2>3, <4>1, CommitPassesOk DEF Delivery
    <3> QED BY <3>1, <3>2
  <2>4. UNCHANGED committed \/ \E w \in Worker : CommitBatch(w) \/ CommitError(w)
    <3>1. ASSUME NEW e \in Event, Deliver(e) \/ LateCommit(e) \/ LateRollback(e)
          PROVE  UNCHANGED committed
      BY <3>1 DEF Deliver, LateCommit, LateRollback, kafkaVars
    <3>2. ASSUME NEW q \in Partition, Revoke(q) PROVE UNCHANGED committed
      BY <3>2 DEF Revoke
    <3>3. ASSUME NEW q \in Partition, NEW w \in Worker, Assign(q, w) PROVE UNCHANGED committed
      BY <3>3 DEF Assign
    <3>4. ASSUME NEW w \in Worker,
                 \/ Poll(w) \/ PollError(w) \/ CommitRefused(w) \/ FailBatch(w)
                 \/ Expel(w) \/ Terminate(w) \/ Restart(w)
          PROVE  UNCHANGED committed
      BY <3>4 DEF Poll, PollError, CommitRefused, FailBatch, Expel, Terminate, Restart, kafkaVars
    <3>5. ASSUME NEW w \in Worker, NEW i \in Batch(w),
                 \/ Start(w, i) \/ StartSkewed(w, i) \/ Check(w, i) \/ Process(w, i)
                 \/ StepError(w, i) \/ Complete(w, i) \/ CompleteRefused(w, i)
                 \/ CompleteError(w, i) \/ Route(w, i) \/ RouteError(w, i)
          PROVE  UNCHANGED committed
      BY <3>5, PoolStepMoves DEF Moves
    <3>6. CASE UNCHANGED vars
      BY <3>6 DEF vars, kafkaVars
    <3> QED BY <3>1, <3>2, <3>3, <3>4, <3>5, <3>6, NextCases
  <2> QED BY <2>2, <2>3, <2>4 DEF CommitBatch, CommitError
<1>2. CASE MixedFetch
  BY <1>2, PTL DEF CommitPassesDone
<1>3. CASE ~MixedFetch
  BY <1>1, <1>3, StructureCorrect, DeliveryCorrect, PTL DEF Spec, CommitPassesDone
<1> QED BY <1>2, <1>3
-----------------------------------------------------------------------------
(* Nothing comes from nowhere.                                             *)

(* Whatever is on a topic, under way to the database or in it stems from a *)
(* record of the created topic.                                            *)
OnlyDelivered ==
    /\ \A p \in Partition : \A k \in 1 .. Len(log[p]) : Delivered(log[p][k].event)
    /\ \A e \in processed \cup limbo : Delivered(e)
    /\ \A r \in dlq : Delivered(r.event)

(* The orders that are not PENDING are those of the processed events, and  *)
(* each has the verdict of one of its events.                              *)
SettledByEvent ==
    /\ \A e \in processed : status[OrderOf[e]] # "PENDING"
    /\ \A o \in Order : status[o] # "PENDING" =>
          \E e \in processed : OrderOf[e] = o /\ status[o] = Verdict[e]

(* A delivered event stays delivered while the topics grow.                *)
LEMMA DeliveredStays ==
    ASSUME TypeOK, TypeOK', LogGrows, NEW e \in Event, Delivered(e)
    PROVE  Delivered(e)'
<1> DEFINE p == CreatedOf[e]
<1>1. p \in Partition
  BY ConsumerAssumption
<1>2. /\ DOMAIN log[p] = 1 .. Len(log[p]) /\ Len(log[p]) \in Nat
      /\ DOMAIN log'[p] = 1 .. Len(log'[p]) /\ Len(log'[p]) \in Nat
  BY <1>1 DEF TypeOK
<1>3. PICK k \in 1 .. Len(log[p]) : log[p][k].event = e
  BY <1>2 DEF Delivered
<1>4. k \in 1 .. Len(log'[p]) /\ log'[p][k].event = e
  BY <1>1, <1>2, <1>3 DEF LogGrows
<1> QED BY <1>2, <1>4 DEF Delivered

(* A record with a delivered event may be appended to any topic.           *)
LEMMA AppendDelivered ==
    ASSUME TypeOK, TypeOK', OnlyDelivered, NEW p \in Partition, NEW r \in Record,
           Produce(p, r), Delivered(r.event)',
           UNCHANGED <<dlq, processed, limbo>>
    PROVE  OnlyDelivered'
<1>1. /\ LogGrows
      /\ Len(log'[p]) = Len(log[p]) + 1
      /\ log'[p][Len(log[p]) + 1] = r
  BY ProduceGrows
<1>2. \A q \in Partition : q # p => log'[q] = log[q]
  BY DEF Produce, TypeOK
<1>3. \A q \in Partition : log[q] \in Seq(Record) /\ Len(log[q]) \in Nat
  BY DEF TypeOK
<1>4. ASSUME NEW q \in Partition, NEW k \in 1 .. Len(log'[q])
      PROVE  Delivered(log[q][k].event)'
  <2>1. CASE k \in 1 .. Len(log[q])
    <3>1. log[q][k] \in Record
      BY <1>3, <2>1
    <3>2. PICK e \in Event : e = log[q][k].event
      BY <3>1 DEF Record
    <3>3. Delivered(e)
      BY <2>1, <3>2 DEF OnlyDelivered
    <3>4. Delivered(e)'
      BY <1>1, <3>3, DeliveredStays
    <3>5. log'[q][k].event = e
      BY <1>1, <2>1, <3>2 DEF LogGrows
    <3> QED BY <3>4, <3>5
  <2>2. CASE k \notin 1 .. Len(log[q])
    <3>1. q = p /\ k = Len(log[p]) + 1
      BY <1>1, <1>2, <1>3, <2>2
    <3> QED BY <1>1, <3>1
  <2> QED BY <2>1, <2>2
<1>5. ASSUME NEW e \in processed' \cup limbo' PROVE Delivered(e)'
  BY <1>1, DeliveredStays DEF OnlyDelivered, TypeOK
<1>6. ASSUME NEW d \in dlq' PROVE Delivered(d.event)'
  <2>1. d.event \in Event /\ Delivered(d.event)
    BY DEF OnlyDelivered, TypeOK, DeadLetter
  <2> QED BY <1>1, <2>1, DeliveredStays
<1> QED BY <1>4, <1>5, <1>6 DEF OnlyDelivered

InLog(e) == \E p \in Partition : \E k \in 1 .. Len(log[p]) : log[p][k].event = e

(* While the topics stay as they are, the tables and the dead letter queue *)
(* may take up events that are on them.                                    *)
LEMMA TablesDelivered ==
    ASSUME OnlyDelivered, UNCHANGED log,
           \A e \in processed' \cup limbo' : e \in processed \cup limbo \/ InLog(e),
           \A r \in dlq' : r \in dlq \/ InLog(r.event)
    PROVE  OnlyDelivered'
<1>1. \A e : InLog(e) => Delivered(e)
  BY DEF InLog, OnlyDelivered
<1>2. \A e : Delivered(e)' <=> Delivered(e)
  BY DEF Delivered
<1>3. \A p \in Partition : \A k \in 1 .. Len(log'[p]) : Delivered(log[p][k].event)'
  BY <1>2 DEF OnlyDelivered
<1>4. \A e \in processed' \cup limbo' : Delivered(e)'
  BY <1>1, <1>2 DEF OnlyDelivered
<1>5. \A r \in dlq' : Delivered(r.event)'
  BY <1>1, <1>2 DEF OnlyDelivered
<1> QED BY <1>3, <1>4, <1>5 DEF OnlyDelivered

(* The event of a record in somebody's batch is on a topic.                *)
LEMMA BatchInLog ==
    ASSUME Structure, NEW w \in Worker, NEW i \in Batch(w)
    PROVE  RecordAt(i) \in Record /\ RecordAt(i).event \in Event /\ InLog(RecordAt(i).event)
<1>1. RecordAt(i) \in Record /\ i[1] \in Partition /\ i[2] \in 1 .. Len(log[i[1]])
  BY RecordOfBatch DEF Structure
<1> QED BY <1>1 DEF RecordAt, InLog, Record

(* Every event the workers store, retry or give up was put on the created  *)
(* topic: redelivery, retries and late transactions invent nothing.        *)
THEOREM NothingInvented == Spec => []OnlyDelivered
<1>1. Init => OnlyDelivered
  BY DEF Init, OnlyDelivered
<1>2. Structure /\ Structure' /\ OnlyDelivered /\ [Next]_vars => OnlyDelivered'
  <2> SUFFICES ASSUME Structure, Structure', OnlyDelivered, [Next]_vars PROVE OnlyDelivered'
    OBVIOUS
  <2>0. TypeOK /\ TypeOK'
    BY DEF Structure
  <2>1. ASSUME NEW e \in Event, Deliver(e) PROVE OnlyDelivered'
    <3> DEFINE p == CreatedOf[e]
               r == [event |-> e, attempt |-> 0]
    <3>1. Produce(p, r) /\ UNCHANGED <<dlq, processed, limbo>>
      BY <2>1 DEF Deliver, dbVars
    <3>2. p \in Partition /\ r \in Record /\ r.event = e
      BY ConsumerAssumption DEF Record
    <3>3. Len(log'[p]) = Len(log[p]) + 1 /\ log'[p][Len(log[p]) + 1] = r
      BY <2>0, <3>1, <3>2, ProduceGrows
    <3>4. DOMAIN log'[p] = 1 .. Len(log'[p]) /\ Len(log[p]) \in Nat
      BY <2>0, <3>2 DEF TypeOK
    <3>5. Len(log[p]) + 1 \in DOMAIN log'[p] /\ log'[p][Len(log[p]) + 1].event = e
      BY <3>2, <3>3, <3>4
    <3>6. Delivered(e)'
      BY <3>5 DEF Delivered
    <3>7. Delivered(r.event)'
      BY <3>6
    <3> HIDE DEF p, r
    <3> QED BY <2>0, <3>1, <3>2, <3>7, AppendDelivered
  <2>2. ASSUME NEW e \in Event, LateCommit(e) \/ LateRollback(e) PROVE OnlyDelivered'
    <3>1. /\ UNCHANGED <<log, dlq>>
          /\ processed' \cup limbo' \subseteq processed \cup limbo
      BY <2>2 DEF LateCommit, LateRollback, Settle, kafkaVars
    <3> QED BY <3>1, TablesDelivered
  <2>3. ASSUME UNCHANGED <<log, dlq, processed, limbo>> PROVE OnlyDelivered'
    BY <2>3, TablesDelivered
  <2>4. ASSUME NEW w \in Worker, NEW i \in Batch(w), Complete(w, i) \/ CompleteError(w, i)
        PROVE  OnlyDelivered'
    <3>1. /\ UNCHANGED <<log, dlq>>
          /\ processed' \cup limbo' \subseteq processed \cup limbo \cup {RecordAt(i).event}
      BY <2>4 DEF Complete, CompleteError, Settle, kafkaVars
    <3> QED BY <3>1, BatchInLog, TablesDelivered
  <2>5. ASSUME NEW w \in Worker, NEW i \in Batch(w), Route(w, i) \/ RouteError(w, i)
        PROVE  OnlyDelivered'
    <3>1. /\ stage[w][i] \in {"retry", "dlq"}
          /\ Written(stage[w][i], RecordAt(i)) \/ UNCHANGED <<log, dlq>>
          /\ UNCHANGED <<processed, limbo>>
      BY <2>5 DEF Route, RouteError, dbVars
    <3>2. PICK r \in Record : r = RecordAt(i) /\ r.event \in Event /\ InLog(r.event)
      BY BatchInLog
    <3>3. CASE UNCHANGED <<log, dlq>>
      BY <2>3, <3>1, <3>3
    <3>4. CASE Written(stage[w][i], r)
      <4>1. \/ /\ UNCHANGED log
               /\ \E d \in DeadLetter : d.event = r.event /\ dlq' = dlq \cup {d}
            \/ /\ UNCHANGED dlq
               /\ \E t \in Record : t.event = r.event /\ Produce(RetryOf[r.event], t)
        BY <2>0, <3>1, <3>4, WrittenRoutes
      <4>2. CASE UNCHANGED log /\ \E d \in DeadLetter : d.event = r.event /\ dlq' = dlq \cup {d}
        BY <3>1, <3>2, <4>2, TablesDelivered
      <4>3. ASSUME UNCHANGED dlq, NEW t \in Record, t.event = r.event, Produce(RetryOf[r.event], t)
            PROVE  OnlyDelivered'
        <5>1. RetryOf[r.event] \in Partition
          BY <3>2, ConsumerAssumption
        <5>2. LogGrows
          BY <2>0, <4>3, <5>1, ProduceGrows
        <5>3. Delivered(r.event)
          BY <3>2 DEF InLog, OnlyDelivered
        <5>4. PICK e \in Event : e = r.event
          BY <3>2
        <5>5. Delivered(e)'
          BY <2>0, <5>2, <5>3, <5>4, DeliveredStays
        <5>6. Delivered(t.event)'
          BY <4>3, <5>4, <5>5
        <5> QED BY <2>0, <3>1, <4>3, <5>1, <5>6, AppendDelivered
      <4> QED BY <4>1, <4>2, <4>3
    <3> QED BY <3>1, <3>2, <3>3, <3>4
  <2>6. ASSUME NEW p \in Partition, Revoke(p) PROVE OnlyDelivered'
    BY <2>3, <2>6 DEF Revoke, dbVars
  <2>7. ASSUME NEW p \in Partition, NEW w \in Worker, Assign(p, w) PROVE OnlyDelivered'
    BY <2>3, <2>7 DEF Assign, dbVars
  <2>8. ASSUME NEW w \in Worker,
               \/ Poll(w) \/ PollError(w) \/ CommitBatch(w) \/ CommitError(w)
               \/ CommitRefused(w) \/ FailBatch(w) \/ Expel(w) \/ Terminate(w) \/ Restart(w)
        PROVE  OnlyDelivered'
    <3>1. UNCHANGED <<log, dlq, processed, limbo>>
      BY <2>8 DEF Poll, PollError, CommitBatch, CommitError, CommitRefused, FailBatch, Expel,
                  Terminate, Restart, kafkaVars, dbVars
    <3> QED BY <2>3, <3>1
  <2>9. ASSUME NEW w \in Worker, NEW i \in Batch(w),
               \/ Start(w, i) \/ StartSkewed(w, i) \/ Check(w, i) \/ Process(w, i)
               \/ StepError(w, i) \/ CompleteRefused(w, i)
        PROVE  OnlyDelivered'
    <3>1. UNCHANGED <<log, dlq, processed, limbo>>
      BY <2>9 DEF Start, StartSkewed, Check, Process, StepError, CompleteRefused,
                  kafkaVars, dbVars
    <3> QED BY <2>3, <3>1
  <2>10. CASE UNCHANGED vars
    BY <2>3, <2>10 DEF vars, kafkaVars, dbVars
  <2> QED BY <2>1, <2>2, <2>4, <2>5, <2>6, <2>7, <2>8, <2>9, <2>10, NextCases
<1> QED BY <1>1, <1>2, StructureCorrect, PTL DEF Spec

(* A processed event is an order settled, and no order is settled but by   *)
(* the verdict on one of its own events.                                   *)
THEOREM SettledByOwnEvent == Spec => []SettledByEvent
<1>1. Init => SettledByEvent
  BY DEF Init, SettledByEvent
<1>2. Structure /\ SettledByEvent /\ [Next]_vars => SettledByEvent'
  <2> SUFFICES ASSUME Structure, SettledByEvent, [Next]_vars PROVE SettledByEvent'
    OBVIOUS
  <2>0. /\ status \in [Order -> {"PENDING", "CONFIRMED", "FAILED"}]
        /\ processed \subseteq Event
        /\ OrderOf \in [Event -> Order]
        /\ Verdict \in [Event -> {"CONFIRMED", "FAILED"}]
    BY ConsumerAssumption DEF Structure, TypeOK
  <2>1. CASE UNCHANGED <<processed, status, announced>>
    BY <2>1 DEF SettledByEvent
  <2>2. ASSUME NEW e \in Event, Settle(e) PROVE SettledByEvent'
    <3> DEFINE applies == e \notin processed /\ status[OrderOf[e]] = "PENDING"
    <3>1. /\ processed' = processed \cup {e}
          /\ status' = [status EXCEPT ![OrderOf[e]] = IF applies THEN Verdict[e] ELSE @]
      BY <2>2 DEF Settle
    <3>2. CASE applies
      <4>1. status' = [status EXCEPT ![OrderOf[e]] = Verdict[e]]
        BY <3>1, <3>2
      <4>2. \A f \in processed' : status'[OrderOf[f]] # "PENDING"
        BY <2>0, <3>1, <4>1 DEF SettledByEvent
      <4>3. ASSUME NEW o \in Order, status'[o] # "PENDING"
            PROVE  \E f \in processed' : OrderOf[f] = o /\ status'[o] = Verdict[f]
        BY <2>0, <3>1, <4>1, <4>3 DEF SettledByEvent
      <4> QED BY <4>2, <4>3 DEF SettledByEvent
    <3>3. CASE ~applies
      <4>1. status' = status
        BY <2>0, <3>1, <3>3
      <4>2. status[OrderOf[e]] # "PENDING"
        BY <3>3 DEF SettledByEvent
      <4> QED BY <3>1, <4>1, <4>2 DEF SettledByEvent
    <3> QED BY <3>2, <3>3
  <2> QED BY <2>1, <2>2, OrdersChange
<1> QED BY <1>1, <1>2, StructureCorrect, PTL DEF Spec
=============================================================================
