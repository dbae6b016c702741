--------------------------- MODULE ConsumerProofs ---------------------------
(***************************************************************************)
(* Proofs about Consumer for any number of events, partitions, workers and *)
(* faults, any batch and pool size and any retry limit.                    *)
(***************************************************************************)
EXTENDS Consumer, TLAPS

-----------------------------------------------------------------------------
(* The inductive invariant.                                                *)

(* Offsets stay within the log, and the records of a batch are there.      *)
OffsetsInLog ==
    /\ \A p \in Partition : committed[p] <= Len(log[p]) /\ position[p] <= Len(log[p])
    /\ \A w \in Worker, p \in Partition, k \in Offset :
          stage[w][<<p, k>>] # "none" => k <= Len(log[p])

(* Only a worker that handles a batch has one, and only group members hold *)
(* partitions.                                                             *)
MembersOwn ==
    /\ \A w \in Worker : state[w] \in {"idle", "down"} => stage[w] = NoBatch
    /\ \A p \in Partition : owner[p] # Nobody => state[owner[p]] \in {"idle", "busy"}

(* A member's batch lies between the committed offset and the position of  *)
(* partitions it holds, and reaches up to the position where it has any.   *)
BatchAtPosition ==
    /\ \A p \in Partition : owner[p] # Nobody => committed[p] <= position[p]
    /\ \A w \in Worker, p \in Partition, k \in Offset :
          state[w] = "busy" /\ stage[w][<<p, k>>] # "none" =>
             /\ owner[p] = w
             /\ committed[p] < k /\ k <= position[p]
             /\ stage[w][<<p, position[p]>>] # "none"

Structure == TypeOK /\ OffsetsInLog /\ MembersOwn /\ BatchAtPosition

-----------------------------------------------------------------------------
(* Lemmas on the operators of the model.                                   *)

LogGrows ==
    \A p \in Partition :
       /\ Len(log[p]) <= Len(log'[p])
       /\ \A k \in 1 .. Len(log[p]) : log'[p][k] = log[p][k]

(* Appending to a topic keeps what is there.                               *)
LEMMA ProduceGrows ==
    ASSUME TypeOK, NEW p \in Partition, NEW r \in Record, Produce(p, r)
    PROVE  /\ log' \in [Partition -> Seq(Record)]
           /\ \A q \in Partition : Len(log'[q]) <= MaxLog
           /\ LogGrows
           /\ Len(log'[p]) = Len(log[p]) + 1
           /\ log'[p][Len(log[p]) + 1] = r
           /\ Len(log[p]) + 1 \in Offset
<1>1. /\ log \in [Partition -> Seq(Record)]
      /\ \A q \in Partition : Len(log[q]) \in Nat /\ Len(log[q]) <= MaxLog
      /\ MaxLog \in Nat
  BY ConsumerAssumption DEF TypeOK
<1>2. Len(log[p]) < MaxLog /\ log' = [log EXCEPT ![p] = Append(log[p], r)]
  BY DEF Produce
<1>3. /\ Append(log[p], r) \in Seq(Record)
      /\ Len(Append(log[p], r)) = Len(log[p]) + 1
      /\ Append(log[p], r)[Len(log[p]) + 1] = r
      /\ \A k \in 1 .. Len(log[p]) : Append(log[p], r)[k] = log[p][k]
  BY <1>1
<1>4. \A q \in Partition : log'[q] = IF q = p THEN Append(log[p], r) ELSE log[q]
  BY <1>1, <1>2
<1>5. log' \in [Partition -> Seq(Record)]
  BY <1>1, <1>2, <1>3
<1> QED BY <1>1, <1>2, <1>3, <1>4, <1>5 DEF LogGrows, Offset

(* A record of a batch is a record of the log.                             *)
LEMMA RecordOfBatch ==
    ASSUME TypeOK, OffsetsInLog, NEW w \in Worker, NEW i \in Batch(w)
    PROVE  /\ i \in Partition \X Offset
           /\ i[1] \in Partition /\ i[2] \in 1 .. Len(log[i[1]])
           /\ RecordAt(i) \in Record
<1>1. i \in Partition \X Offset /\ stage[w][i] # "none"
  BY DEF Batch
<1>2. PICK p \in Partition, k \in Offset : i = <<p, k>>
  BY <1>1
<1>3. k \in 1 .. Len(log[p])
  BY <1>1, <1>2 DEF OffsetsInLog, Offset
<1>4. log[p] \in Seq(Record)
  BY DEF TypeOK
<1> QED BY <1>1, <1>2, <1>3, <1>4 DEF RecordAt

(* What retry and dlq write: a dead letter, or a retry record that is      *)
(* appended, and nothing else.                                             *)
LEMMA WrittenRoutes ==
    ASSUME TypeOK, NEW r \in Record, NEW s \in {"retry", "dlq"}, Written(s, r)
    PROVE  \/ /\ UNCHANGED log
              /\ \E d \in DeadLetter : d.event = r.event /\ dlq' = dlq \cup {d}
           \/ /\ UNCHANGED dlq
              /\ \E t \in Record : t.event = r.event /\ Produce(RetryOf[r.event], t)
<1> DEFINE next == [r EXCEPT !.attempt = @ + 1]
<1>1. /\ r \in DeadLetter
      /\ next \in DeadLetter
      /\ next.event = r.event
      /\ ~Exhausted(r) => next \in Record
  BY ConsumerAssumption DEF Record, DeadLetter, Exhausted
<1>2. CASE s = "dlq"
  BY <1>1, <1>2 DEF Written
<1>3. CASE s = "retry" /\ Exhausted(r)
  BY <1>1, <1>3 DEF Written
<1>4. CASE s = "retry" /\ ~Exhausted(r)
  BY <1>1, <1>4 DEF Written
<1> QED BY <1>2, <1>3, <1>4

(* CommitRecords moves the committed offset of exactly the partitions with *)
(* records in the batch, up to the member's position.                      *)
LEMMA CommitReachesPosition ==
    ASSUME Structure, NEW w \in Worker, state[w] = "busy", NEW p \in Partition
    PROVE  \/ /\ CommittedAfter(w)[p] = position[p]
              /\ owner[p] = w
              /\ committed[p] <= position[p]
           \/ /\ CommittedAfter(w)[p] = committed[p]
              /\ \A k \in Offset : stage[w][<<p, k>>] = "none"
<1> DEFINE done == {k \in Offset : <<p, k>> \in Batch(w)}
           top == CHOOSE k \in done : \A j \in done : j <= k
<1>1. CommittedAfter(w)[p] = IF done = {} THEN committed[p] ELSE top
  BY DEF CommittedAfter
<1>2. \A k \in Offset : k \in done <=> stage[w][<<p, k>>] # "none"
  BY DEF Batch
<1>3. CASE done = {}
  BY <1>1, <1>2, <1>3
<1>4. CASE done # {}
  <2>1. PICK k \in Offset : k \in done
    BY <1>4
  <2>2. /\ owner[p] = w
        /\ committed[p] < k /\ k <= position[p]
        /\ stage[w][<<p, position[p]>>] # "none"
    BY <1>2, <2>1 DEF Structure, BatchAtPosition
  <2>3. position[p] \in Offset /\ committed[p] \in Nat /\ position[p] \in Nat
    BY <2>1, <2>2, ConsumerAssumption DEF Structure, TypeOK, Offset
  <2>4. position[p] \in done
    BY <1>2, <2>2, <2>3
  <2>5. \A j \in done : j <= position[p]
    BY <1>2 DEF Structure, BatchAtPosition
  <2>6. top \in done /\ \A j \in done : j <= top
    BY <2>4, <2>5
  <2>7. top = position[p]
    <3>1. top \in Nat
      BY <2>6, ConsumerAssumption DEF Offset
    <3> HIDE DEF top, done
    <3> QED BY <2>3, <2>4, <2>5, <2>6, <3>1
  <2>8. committed[p] <= position[p]
    BY <2>1, <2>2, <2>3, ConsumerAssumption DEF Offset
  <2> HIDE DEF top, done
  <2> QED BY <1>1, <1>4, <2>2, <2>7, <2>8
<1> QED BY <1>3, <1>4

(* The next-state relation as a list of cases.                             *)
LEMMA NextCases ==
    ASSUME Next
    PROVE  \/ \E e \in Event : Deliver(e) \/ LateCommit(e) \/ LateRollback(e)
           \/ \E p \in Partition : Revoke(p)
           \/ \E p \in Partition, w \in Worker : Assign(p, w)
           \/ \E w \in Worker :
                 \/ Poll(w) \/ PollError(w) \/ CommitBatch(w) \/ CommitError(w)
                 \/ CommitRefused(w) \/ FailBatch(w) \/ Expel(w) \/ Terminate(w) \/ Restart(w)
           \/ \E w \in Worker : \E i \in Batch(w) :
                 \/ Start(w, i) \/ StartSkewed(w, i) \/ Check(w, i) \/ Process(w, i)
                 \/ StepError(w, i) \/ Complete(w, i) \/ CompleteRefused(w, i)
                 \/ CompleteError(w, i) \/ Route(w, i) \/ RouteError(w, i)
BY DEF Next

-----------------------------------------------------------------------------
(* The structure of offsets, ownership and batches.                        *)

(* A step of processRecord moves one record of the batch and keeps it in.  *)
Moves(w, i) ==
    /\ \E s \in Stages \ {"none"} : stage' = [stage EXCEPT ![w][i] = s]
    /\ UNCHANGED <<committed, owner, position, state>>

(* Offsets that were in the log stay in it while it grows.                 *)
LEMMA GrowthKeepsOffsets ==
    ASSUME Structure, TypeOK', LogGrows, UNCHANGED <<committed, position>>,
           \A w \in Worker, p \in Partition, k \in Offset :
              stage'[w][<<p, k>>] # "none" => stage[w][<<p, k>>] # "none"
    PROVE  OffsetsInLog'
<1>1. \A p \in Partition :
         /\ Len(log[p]) \in Nat /\ Len(log'[p]) \in Nat
         /\ committed[p] \in Nat /\ position[p] \in Nat
  BY DEF Structure, TypeOK
<1>2. \A p \in Partition : Len(log[p]) <= Len(log'[p])
  BY DEF LogGrows
<1>3. \A p \in Partition : committed'[p] <= Len(log'[p]) /\ position'[p] <= Len(log'[p])
  BY <1>1, <1>2 DEF Structure, OffsetsInLog
<1>4. ASSUME NEW w \in Worker, NEW p \in Partition, NEW k \in Offset,
             stage'[w][<<p, k>>] # "none"
      PROVE  k <= Len(log'[p])
  <2>1. k <= Len(log[p])
    BY <1>4 DEF Structure, OffsetsInLog
  <2>2. k \in Nat
    BY ConsumerAssumption DEF Offset
  <2> QED BY <1>1, <1>2, <2>1, <2>2
<1> QED BY <1>3, <1>4 DEF OffsetsInLog

(* What a step of processRecord does to the stages keeps the structure.    *)
LEMMA MovesKeepStructure ==
    ASSUME Structure, TypeOK', LogGrows, NEW w \in Worker, NEW i \in Batch(w), Moves(w, i)
    PROVE  Structure'
<1>1. i \in Partition \X Offset /\ stage[w][i] # "none"
  BY DEF Batch
<1>2. /\ stage \in [Worker -> [Partition \X Offset -> Stages]]
      /\ stage' \in [Worker -> [Partition \X Offset -> Stages]]
      /\ UNCHANGED <<committed, owner, position, state>>
  BY DEF Structure, TypeOK, Moves
<1>3. \A v \in Worker, p \in Partition, k \in Offset :
         stage'[v][<<p, k>>] # "none" <=> stage[v][<<p, k>>] # "none"
  BY <1>1, <1>2 DEF Moves
<1>4. state[w] \notin {"idle", "down"}
  BY <1>1 DEF Structure, MembersOwn, NoBatch
<1>5. \A v \in Worker : v # w => stage'[v] = stage[v]
  BY <1>2 DEF Moves
<1>7. OffsetsInLog'
  BY <1>2, <1>3, GrowthKeepsOffsets
<1>8. MembersOwn'
  BY <1>2, <1>4, <1>5 DEF Structure, MembersOwn, NoBatch
<1>9. BatchAtPosition'
  <2> SUFFICES ASSUME NEW v \in Worker, NEW p \in Partition, NEW k \in Offset,
                      state[v] = "busy", stage[v][<<p, k>>] # "none"
               PROVE  stage'[v][<<p, position[p]>>] # "none"
    BY <1>2, <1>3 DEF Structure, BatchAtPosition
  <2>1. k <= position[p] /\ stage[v][<<p, position[p]>>] # "none"
    BY DEF Structure, BatchAtPosition
  <2>2. position[p] \in Offset
    BY <2>1, ConsumerAssumption DEF Structure, TypeOK, Offset
  <2> QED BY <1>3, <2>1, <2>2
<1> QED BY <1>7, <1>8, <1>9 DEF Structure

(* The end of a process, with or without a last commit, keeps it too.      *)
LEMMA ExitKeepsStructure ==
    ASSUME Structure, NEW w \in Worker, Exit(w), UNCHANGED <<log, dlq, position>>,
           TypeOK',
           \A p \in Partition : \/ committed'[p] = committed[p]
                                \/ owner[p] = w /\ committed'[p] = position[p]
    PROVE  Structure'
<1>1. /\ state' = [state EXCEPT ![w] = "down"]
      /\ stage' = [stage EXCEPT ![w] = NoBatch]
      /\ owner' = [p \in Partition |-> IF owner[p] = w THEN Nobody ELSE owner[p]]
  BY DEF Exit, Disown
<1>2. \A p \in Partition : owner'[p] # Nobody =>
         owner'[p] = owner[p] /\ owner[p] # w /\ committed'[p] = committed[p]
  BY <1>1
<1>3. \A v \in Worker : v # w => stage'[v] = stage[v] /\ state'[v] = state[v]
  BY <1>1 DEF Structure, TypeOK
<1>4. stage'[w] = NoBatch /\ state'[w] = "down"
  BY <1>1 DEF Structure, TypeOK
<1>5. \A p \in Partition, k \in Offset : stage'[w][<<p, k>>] = "none"
  BY <1>4 DEF NoBatch
<1>6. OffsetsInLog'
  BY <1>3, <1>5 DEF Structure, OffsetsInLog
<1>7. MembersOwn'
  <2>1. \A p \in Partition : owner[p] \in Worker \cup {Nobody}
    BY DEF Structure, TypeOK
  <2> QED BY <1>2, <1>3, <1>4, <2>1 DEF Structure, MembersOwn, NoBatch
<1>8. BatchAtPosition'
  <2> SUFFICES ASSUME NEW v \in Worker, NEW p \in Partition, NEW k \in Offset,
                      state'[v] = "busy", stage'[v][<<p, k>>] # "none"
               PROVE  /\ owner'[p] = v
                      /\ committed'[p] < k /\ k <= position[p]
                      /\ stage'[v][<<p, position[p]>>] # "none"
    BY <1>2 DEF Structure, BatchAtPosition
  <2>1. v # w
    BY <1>4
  <2>2. /\ owner[p] = v
        /\ committed[p] < k /\ k <= position[p]
        /\ stage[v][<<p, position[p]>>] # "none"
    BY <1>3, <2>1 DEF Structure, BatchAtPosition
  <2>3. owner'[p] = v /\ committed'[p] = committed[p]
    BY <1>1, <2>1, <2>2
  <2> QED BY <1>3, <2>1, <2>2, <2>3
<1> QED BY <1>6, <1>7, <1>8 DEF Structure

(* The transaction of Complete keeps the tables well typed.                *)
LEMMA SettleTypes ==
    ASSUME TypeOK, NEW e \in Event, Settle(e)
    PROVE  /\ processed' \subseteq Event
           /\ status' \in [Order -> {"PENDING", "CONFIRMED", "FAILED"}]
           /\ announced' \in [Order -> Nat]
<1>1. OrderOf[e] \in Order /\ Verdict[e] \in {"CONFIRMED", "FAILED"}
  BY ConsumerAssumption
<1>2. /\ processed' = processed \cup {e}
      /\ \/ status' = status
         \/ status' = [status EXCEPT ![OrderOf[e]] = Verdict[e]]
      /\ \/ announced' = announced
         \/ announced' = [announced EXCEPT ![OrderOf[e]] = @ + 1]
  BY <1>1 DEF Settle, TypeOK
<1>3. processed' \subseteq Event
  BY <1>2 DEF TypeOK
<1>4. status' \in [Order -> {"PENDING", "CONFIRMED", "FAILED"}]
  BY <1>1, <1>2 DEF TypeOK
<1>5. announced' \in [Order -> Nat]
  BY <1>1, <1>2 DEF TypeOK
<1> QED BY <1>3, <1>4, <1>5

(* Every step of processRecord is such a move, keeps the log and its types. *)
LEMMA PoolStepMoves ==
    ASSUME Structure, NEW w \in Worker, NEW i \in Batch(w),
           \/ Start(w, i) \/ StartSkewed(w, i) \/ Check(w, i) \/ Process(w, i)
           \/ StepError(w, i) \/ Complete(w, i) \/ CompleteRefused(w, i)
           \/ CompleteError(w, i) \/ Route(w, i) \/ RouteError(w, i)
    PROVE  TypeOK' /\ LogGrows /\ Moves(w, i)
<1> USE ConsumerAssumption DEF Structure
<1>1. /\ i \in Partition \X Offset
      /\ RecordAt(i) \in Record
      /\ RecordAt(i).event \in Event
  BY RecordOfBatch DEF Record
<1>2. Moves(w, i)
  BY DEF Start, StartSkewed, Check, Process, StepError, Complete, CompleteRefused,
         CompleteError, Route, RouteError, Goto, Moves, Stages, Active, kafkaVars
<1>3. stage' \in [Worker -> [Partition \X Offset -> Stages]]
  <2>1. PICK s \in Stages \ {"none"} : stage' = [stage EXCEPT ![w][i] = s]
    BY <1>2 DEF Moves
  <2>2. stage \in [Worker -> [Partition \X Offset -> Stages]]
    BY DEF TypeOK
  <2>3. [stage[w] EXCEPT ![i] = s] \in [Partition \X Offset -> Stages]
    BY <1>1, <2>2
  <2>4. stage' = [stage EXCEPT ![w] = [stage[w] EXCEPT ![i] = s]]
    BY <2>1
  <2> QED BY <2>2, <2>3, <2>4
<1>4. faults' \in 0 .. MaxFaults
  BY DEF Start, StartSkewed, Check, Process, StepError, Complete, CompleteRefused,
         CompleteError, Route, RouteError, Fault, TypeOK
<1>5. CASE \/ Start(w, i) \/ StartSkewed(w, i) \/ Check(w, i) \/ Process(w, i)
           \/ StepError(w, i) \/ CompleteRefused(w, i)
  <2>1. UNCHANGED <<kafkaVars, dbVars, state>>
    BY <1>5 DEF Start, StartSkewed, Check, Process, StepError, CompleteRefused
  <2>2. LogGrows
    BY <2>1 DEF kafkaVars, LogGrows, TypeOK
  <2> QED BY <1>2, <1>3, <1>4, <2>1, <2>2 DEF kafkaVars, dbVars, TypeOK
<1>6. CASE Complete(w, i) \/ CompleteError(w, i)
  <2>1. UNCHANGED <<kafkaVars, state>> /\ limbo' \subseteq Event
    BY <1>1, <1>6 DEF Complete, CompleteError, TypeOK
  <2>2. Settle(RecordAt(i).event) \/ UNCHANGED <<processed, status, announced>>
    BY <1>6 DEF Complete, CompleteError
  <2>3. /\ processed' \subseteq Event
        /\ status' \in [Order -> {"PENDING", "CONFIRMED", "FAILED"}]
        /\ announced' \in [Order -> Nat]
    <3> DEFINE e == RecordAt(i).event
    <3>1. CASE Settle(e)
      BY <1>1, <3>1, SettleTypes DEF TypeOK
    <3>2. CASE UNCHANGED <<processed, status, announced>>
      BY <3>2 DEF TypeOK
    <3> QED BY <2>2, <3>1, <3>2
  <2>4. LogGrows
    BY <2>1 DEF kafkaVars, LogGrows, TypeOK
  <2> QED BY <1>2, <1>3, <1>4, <2>1, <2>3, <2>4 DEF kafkaVars, TypeOK
<1>7. CASE Route(w, i) \/ RouteError(w, i)
  <2>1. /\ Written(stage[w][i], RecordAt(i)) \/ UNCHANGED <<log, dlq>>
        /\ stage[w][i] \in {"retry", "dlq"}
        /\ UNCHANGED <<committed, owner, position, dbVars, state>>
    BY <1>7 DEF Route, RouteError
  <2>2. /\ log' \in [Partition -> Seq(Record)]
        /\ \A p \in Partition : Len(log'[p]) <= MaxLog
        /\ dlq' \subseteq DeadLetter
        /\ LogGrows
    <3>1. CASE UNCHANGED log /\ dlq' \subseteq DeadLetter
      BY <3>1 DEF LogGrows, TypeOK
    <3>2. CASE \E t \in Record : UNCHANGED dlq /\ Produce(RetryOf[RecordAt(i).event], t)
      <4>1. RetryOf[RecordAt(i).event] \in Partition
        BY <1>1
      <4> QED BY <3>2, <4>1, ProduceGrows DEF TypeOK
    <3>3. CASE UNCHANGED <<log, dlq>>
      BY <3>1, <3>3 DEF TypeOK
    <3>4. CASE Written(stage[w][i], RecordAt(i))
      <4>1. \/ UNCHANGED log /\ dlq' \subseteq DeadLetter
            \/ \E t \in Record : UNCHANGED dlq /\ Produce(RetryOf[RecordAt(i).event], t)
        <5>1. dlq \subseteq DeadLetter
          BY DEF TypeOK
        <5>2. PICK r \in Record, t \in {"retry", "dlq"} :
                 r = RecordAt(i) /\ t = stage[w][i] /\ Written(t, r)
          BY <1>1, <2>1, <3>4
        <5>3. \/ /\ UNCHANGED log
                 /\ \E d \in DeadLetter : d.event = r.event /\ dlq' = dlq \cup {d}
              \/ /\ UNCHANGED dlq
                 /\ \E u \in Record : u.event = r.event /\ Produce(RetryOf[r.event], u)
          BY <5>2, WrittenRoutes
        <5> QED BY <5>1, <5>2, <5>3
      <4> QED BY <3>1, <3>2, <4>1
    <3> QED BY <2>1, <3>3, <3>4
  <2> QED BY <1>2, <1>3, <1>4, <2>1, <2>2 DEF dbVars, TypeOK
<1> QED BY <1>5, <1>6, <1>7

(* A commit stores offsets of the log.                                     *)
LEMMA CommitTypes ==
    ASSUME Structure, NEW w \in Worker, state[w] = "busy"
    PROVE  CommittedAfter(w) \in [Partition -> 0 .. MaxLog]
<1>1. \A p \in Partition : CommittedAfter(w)[p] \in 0 .. MaxLog
  BY CommitReachesPosition DEF Structure, TypeOK
<1>2. CommittedAfter(w) = [p \in Partition |-> CommittedAfter(w)[p]]
  BY DEF CommittedAfter
<1> QED BY <1>1, <1>2

(* The end of a process keeps the types of what it touches.                *)
LEMMA ExitTypes ==
    ASSUME TypeOK, NEW w \in Worker, Exit(w)
    PROVE  /\ state' \in [Worker -> States]
           /\ stage' \in [Worker -> [Partition \X Offset -> Stages]]
           /\ owner' \in [Partition -> Worker \cup {Nobody}]
<1>1. NoBatch \in [Partition \X Offset -> Stages]
  BY DEF NoBatch, Stages
<1> QED BY <1>1 DEF Exit, Disown, TypeOK, States

(* So does a step that changes neither offsets nor workers.                *)
LEMMA FrameKeepsStructure ==
    ASSUME Structure, TypeOK', UNCHANGED <<log, committed, owner, position, state, stage>>
    PROVE  Structure'
<1>1. OffsetsInLog'
  BY DEF Structure, OffsetsInLog
<1>2. MembersOwn'
  BY DEF Structure, MembersOwn, NoBatch
<1>3. BatchAtPosition'
  BY DEF Structure, BatchAtPosition
<1> QED BY <1>1, <1>2, <1>3 DEF Structure

(* Every reachable state is well typed; a member's batch lies between the  *)
(* committed offset and the position of partitions that it holds.          *)
THEOREM StructureCorrect == Spec => []Structure
<1> USE ConsumerAssumption
<1>1. Init => Structure
  <2> SUFFICES ASSUME Init PROVE Structure
    OBVIOUS
  <2>1. TypeOK
    BY DEF Init, TypeOK, Stages, States, NoBatch
  <2>2. OffsetsInLog
    BY DEF Init, OffsetsInLog, NoBatch
  <2>3. MembersOwn /\ BatchAtPosition
    BY DEF Init, MembersOwn, BatchAtPosition
  <2> QED BY <2>1, <2>2, <2>3 DEF Structure
<1>2. Structure /\ [Next]_vars => Structure'
  <2> SUFFICES ASSUME Structure, [Next]_vars PROVE Structure'
    OBVIOUS
  <2>1. ASSUME NEW e \in Event, Deliver(e) PROVE Structure'
    <3> DEFINE p == CreatedOf[e]
               r == [event |-> e, attempt |-> 0]
    <3>1. Produce(p, r) /\ p \in Partition /\ r \in Record
      BY <2>1 DEF Deliver, Record
    <3>2. /\ log' \in [Partition -> Seq(Record)]
          /\ \A q \in Partition : Len(log'[q]) <= MaxLog
          /\ LogGrows
      BY <3>1, ProduceGrows DEF Structure
    <3>3. /\ UNCHANGED <<dlq, committed, owner, position, state, stage>>
          /\ UNCHANGED <<processed, status, announced, limbo>>
      BY <2>1 DEF Deliver, dbVars
    <3>4. faults' \in 0 .. MaxFaults
      BY <2>1 DEF Deliver, Fault, Structure, TypeOK
    <3>5. TypeOK'
      BY <3>2, <3>3, <3>4 DEF Structure, TypeOK
    <3>6. OffsetsInLog'
      BY <3>2, <3>3, <3>5, GrowthKeepsOffsets
    <3> QED BY <3>3, <3>5, <3>6 DEF Structure, MembersOwn, BatchAtPosition
  <2>2. ASSUME NEW e \in Event, LateCommit(e) PROVE Structure'
    <3>1. TypeOK'
      BY <2>2, SettleTypes DEF LateCommit, Structure, TypeOK, kafkaVars
    <3> QED BY <2>2, <3>1, FrameKeepsStructure DEF LateCommit, kafkaVars
  <2>3. ASSUME NEW e \in Event, LateRollback(e) PROVE Structure'
    <3>1. TypeOK'
      BY <2>3 DEF LateRollback, kafkaVars, Structure, TypeOK
    <3> QED BY <2>3, <3>1, FrameKeepsStructure DEF LateRollback, kafkaVars
  <2>4. ASSUME NEW p \in Partition, Revoke(p) PROVE Structure'
    <3>1. /\ owner[p] # Nobody /\ state[owner[p]] = "idle"
          /\ owner' = [owner EXCEPT ![p] = Nobody]
          /\ UNCHANGED <<log, dlq, committed, position, state, stage>>
          /\ UNCHANGED <<processed, status, announced, limbo>>
      BY <2>4 DEF Revoke, dbVars
    <3>2. faults' \in 0 .. MaxFaults
      BY <2>4 DEF Revoke, Fault, Structure, TypeOK
    <3>3. TypeOK'
      BY <3>1, <3>2 DEF Structure, TypeOK
    <3>4. \A q \in Partition : owner'[q] = IF q = p THEN Nobody ELSE owner[q]
      <4>1. owner \in [Partition -> Worker \cup {Nobody}]
        BY DEF Structure, TypeOK
      <4> QED BY <3>1, <4>1
    <3>5. OffsetsInLog'
      BY <3>1 DEF Structure, OffsetsInLog
    <3>6. MembersOwn'
      BY <3>1, <3>4 DEF Structure, MembersOwn, NoBatch
    <3>7. BatchAtPosition'
      BY <3>1, <3>4 DEF Structure, BatchAtPosition
    <3> QED BY <3>3, <3>5, <3>6, <3>7 DEF Structure
  <2>5. ASSUME NEW p \in Partition, NEW w \in Worker, Assign(p, w) PROVE Structure'
    <3>1. TypeOK'
      BY <2>5 DEF Assign, dbVars, Structure, TypeOK
    <3>2. /\ owner[p] = Nobody /\ state[w] = "idle"
          /\ owner' = [owner EXCEPT ![p] = w]
          /\ position' = [position EXCEPT ![p] = committed[p]]
          /\ UNCHANGED <<log, committed, state, stage>>
      BY <2>5 DEF Assign
    <3>3. /\ owner'[p] = w /\ position'[p] = committed[p]
          /\ \A q \in Partition : q # p => owner'[q] = owner[q] /\ position'[q] = position[q]
      BY <3>2 DEF Structure, TypeOK
    <3>4. OffsetsInLog'
      BY <3>2, <3>3 DEF Structure, OffsetsInLog
    <3>5. MembersOwn'
      BY <3>2, <3>3 DEF Structure, MembersOwn, NoBatch
    <3>6. \A q \in Partition : committed[q] \in Nat
      BY DEF Structure, TypeOK
    <3>7. BatchAtPosition'
      <4>1. \A q \in Partition : owner'[q] # Nobody => committed[q] <= position'[q]
        BY <3>3, <3>6 DEF Structure, BatchAtPosition
      <4> SUFFICES ASSUME NEW v \in Worker, NEW q \in Partition, NEW k \in Offset,
                          state[v] = "busy", stage[v][<<q, k>>] # "none"
                   PROVE  /\ owner'[q] = v
                          /\ committed[q] < k /\ k <= position'[q]
                          /\ stage[v][<<q, position'[q]>>] # "none"
        BY <3>2, <4>1 DEF BatchAtPosition
      <4>2. /\ owner[q] = v
            /\ committed[q] < k /\ k <= position[q]
            /\ stage[v][<<q, position[q]>>] # "none"
        BY DEF Structure, BatchAtPosition
      <4>3. q # p
        BY <3>2, <4>2
      <4> QED BY <3>3, <4>2, <4>3
    <3> QED BY <3>1, <3>4, <3>5, <3>7 DEF Structure
  <2>6. ASSUME NEW w \in Worker, Poll(w) PROVE Structure'
    <3>1. PICK n \in Polls(w) :
             /\ Advance(n)
             /\ stage' = [stage EXCEPT ![w] =
                   [i \in Partition \X Offset |-> IF InPoll(n, i) THEN "queued" ELSE "none"]]
      BY <2>6 DEF Poll
    <3>2. /\ state[w] = "idle" /\ state' = [state EXCEPT ![w] = "busy"]
          /\ UNCHANGED <<log, dlq, committed, owner, processed, status, announced, limbo, faults>>
      BY <2>6 DEF Poll, dbVars
    <3>3. \A p \in Partition :
             /\ n[p] \in Nat /\ position'[p] = position[p] + n[p]
             /\ n[p] > 0 => owner[p] = w /\ position'[p] <= Len(log[p])
             /\ position[p] <= Len(log[p]) /\ Len(log[p]) <= MaxLog
             /\ position[p] \in Nat /\ Len(log[p]) \in Nat /\ committed[p] \in Nat
      BY <3>1 DEF Advance, Polls, Structure, OffsetsInLog, TypeOK
    <3>4. position' \in [Partition -> 0 .. MaxLog]
      BY <3>1, <3>3 DEF Advance
    <3>5. \A v \in Worker : v # w => stage'[v] = stage[v] /\ state'[v] = state[v]
      BY <3>1, <3>2 DEF Structure, TypeOK
    <3>6. state'[w] = "busy" /\ \A p \in Partition, k \in Offset :
             /\ stage'[w][<<p, k>>] \in {"queued", "none"}
             /\ stage'[w][<<p, k>>] # "none" <=> position[p] < k /\ k <= position'[p]
      BY <3>1, <3>2, <3>3 DEF Structure, TypeOK, InPoll
    <3>7. TypeOK'
      BY <3>1, <3>2, <3>4 DEF Structure, TypeOK, Stages, States
    <3>8. OffsetsInLog'
      <4>1. \A p \in Partition : position'[p] <= Len(log[p])
        BY <3>3
      <4>2. \A v \in Worker, p \in Partition, k \in Offset :
               stage'[v][<<p, k>>] # "none" => k <= Len(log[p])
        <5> SUFFICES ASSUME NEW v \in Worker, NEW p \in Partition, NEW k \in Offset,
                            stage'[v][<<p, k>>] # "none"
                     PROVE  k <= Len(log[p])
          OBVIOUS
        <5>1. CASE v = w
          BY <3>3, <3>6, <4>1, <5>1 DEF Offset
        <5>2. CASE v # w
          BY <3>5, <5>2 DEF Structure, OffsetsInLog
        <5> QED BY <5>1, <5>2
      <4> QED BY <3>2, <4>1, <4>2 DEF Structure, OffsetsInLog
    <3>9. MembersOwn'
      BY <3>2, <3>5, <3>6 DEF Structure, MembersOwn, NoBatch, TypeOK
    <3>10. \A p \in Partition : owner[p] # Nobody => committed[p] <= position[p]
      BY DEF Structure, BatchAtPosition
    <3>11. BatchAtPosition'
      <4> SUFFICES ASSUME NEW v \in Worker, NEW p \in Partition, NEW k \in Offset,
                          state'[v] = "busy", stage'[v][<<p, k>>] # "none"
                   PROVE  /\ owner'[p] = v
                          /\ committed'[p] < k /\ k <= position'[p]
                          /\ stage'[v][<<p, position'[p]>>] # "none"
        BY <3>2, <3>3, <3>10 DEF BatchAtPosition
      <4>1. CASE v = w
        <5>1. position[p] < k /\ k <= position'[p]
          BY <3>6, <4>1
        <5>2. n[p] > 0 /\ k \in Nat
          BY <3>3, <5>1 DEF Offset
        <5>3. owner[p] = w /\ position'[p] \in Offset /\ committed[p] <= position[p]
          BY <3>3, <3>10, <5>1, <5>2 DEF Offset
        <5>4. stage'[w][<<p, position'[p]>>] # "none"
          <6>1. position[p] < position'[p]
            BY <3>3, <5>2
          <6> QED BY <3>3, <3>6, <5>3, <6>1
        <5> QED BY <3>2, <3>3, <4>1, <5>1, <5>2, <5>3, <5>4
      <4>2. CASE v # w
        <5>1. /\ owner[p] = v
              /\ committed[p] < k /\ k <= position[p]
              /\ stage[v][<<p, position[p]>>] # "none"
          BY <3>5, <4>2 DEF Structure, BatchAtPosition
        <5>2. position'[p] = position[p]
          BY <3>3, <4>2, <5>1
        <5> QED BY <3>2, <3>5, <4>2, <5>1, <5>2
      <4> QED BY <4>1, <4>2
    <3> QED BY <3>7, <3>8, <3>11, <3>9 DEF Structure
  <2>7. ASSUME NEW w \in Worker, PollError(w) PROVE Structure'
    <3>1. PICK n \in Polls(w) : Advance(n)
      BY <2>7 DEF PollError
    <3>2. /\ state[w] = "idle"
          /\ UNCHANGED <<log, dlq, committed, owner, processed, status, announced, limbo,
                         state, stage>>
      BY <2>7 DEF PollError, dbVars
    <3>3. \A p \in Partition :
             /\ n[p] \in Nat /\ position'[p] = position[p] + n[p]
             /\ n[p] > 0 => owner[p] = w /\ position'[p] <= Len(log[p])
             /\ position[p] <= Len(log[p]) /\ Len(log[p]) <= MaxLog
             /\ position[p] \in Nat /\ Len(log[p]) \in Nat /\ committed[p] \in Nat
      BY <3>1 DEF Advance, Polls, Structure, OffsetsInLog, TypeOK
    <3>4. position' \in [Partition -> 0 .. MaxLog]
      BY <3>1, <3>3 DEF Advance
    <3>5. faults' \in 0 .. MaxFaults
      BY <2>7 DEF PollError, Fault, Structure, TypeOK
    <3>6. TypeOK'
      BY <3>2, <3>4, <3>5 DEF Structure, TypeOK
    <3>7. OffsetsInLog' /\ MembersOwn'
      BY <3>2, <3>3 DEF Structure, OffsetsInLog, MembersOwn
    <3>8. \A p \in Partition : owner[p] # Nobody /\ owner[p] # w => position'[p] = position[p]
      BY <3>3
    <3>9. BatchAtPosition'
      <4>1. \A p \in Partition : owner[p] # Nobody => committed[p] <= position'[p]
        BY <3>3 DEF Structure, BatchAtPosition
      <4> SUFFICES ASSUME NEW v \in Worker, NEW p \in Partition, NEW k \in Offset,
                          state[v] = "busy", stage[v][<<p, k>>] # "none"
                   PROVE  /\ owner[p] = v
                          /\ committed[p] < k /\ k <= position'[p]
                          /\ stage[v][<<p, position'[p]>>] # "none"
        BY <3>2, <4>1 DEF BatchAtPosition
      <4>2. /\ owner[p] = v
            /\ committed[p] < k /\ k <= position[p]
            /\ stage[v][<<p, position[p]>>] # "none"
        BY DEF Structure, BatchAtPosition
      <4>3. position'[p] = position[p]
        BY <3>2, <3>8, <4>2
      <4> QED BY <4>2, <4>3
    <3> QED BY <3>6, <3>7, <3>9 DEF Structure
  <2>8. ASSUME NEW w \in Worker, CommitBatch(w) PROVE Structure'
    <3>1. /\ state[w] = "busy" /\ committed' = CommittedAfter(w)
          /\ state' = [state EXCEPT ![w] = "idle"]
          /\ stage' = [stage EXCEPT ![w] = NoBatch]
          /\ UNCHANGED <<log, dlq, owner, position, processed, status, announced, limbo, faults>>
      BY <2>8 DEF CommitBatch, dbVars
    <3>2. TypeOK'
      BY <3>1, CommitTypes DEF Structure, TypeOK, States, Stages, NoBatch
    <3>3. \A p \in Partition : \/ committed'[p] = committed[p]
                               \/ owner[p] = w /\ committed'[p] = position[p]
      BY <3>1, CommitReachesPosition
    <3>4. \A v \in Worker : v # w => stage'[v] = stage[v] /\ state'[v] = state[v]
      BY <3>1 DEF Structure, TypeOK
    <3>5. stage'[w] = NoBatch /\ state'[w] = "idle"
      BY <3>1 DEF Structure, TypeOK
    <3>6. \A p \in Partition, k \in Offset : stage'[w][<<p, k>>] = "none"
      BY <3>5 DEF NoBatch
    <3>7. OffsetsInLog'
      BY <3>1, <3>3, <3>4, <3>6 DEF Structure, OffsetsInLog
    <3>8. MembersOwn'
      BY <3>1, <3>4, <3>5 DEF Structure, MembersOwn, NoBatch, TypeOK
    <3>9. \A p \in Partition : committed[p] \in Nat /\ position[p] \in Nat
      BY DEF Structure, TypeOK
    <3>10. BatchAtPosition'
      <4> SUFFICES ASSUME NEW v \in Worker, NEW p \in Partition, NEW k \in Offset,
                          state'[v] = "busy", stage'[v][<<p, k>>] # "none"
                   PROVE  /\ owner[p] = v
                          /\ committed'[p] < k /\ k <= position[p]
                          /\ stage'[v][<<p, position[p]>>] # "none"
        BY <3>1, <3>3, <3>9 DEF Structure, BatchAtPosition
      <4>1. v # w
        BY <3>5
      <4> QED BY <3>3, <3>4, <4>1 DEF Structure, BatchAtPosition
    <3> QED BY <3>2, <3>7, <3>8, <3>10 DEF Structure
  <2>9. ASSUME NEW w \in Worker, CommitError(w) PROVE Structure'
    <3>0. /\ UNCHANGED <<log, dlq, position, processed, status, announced, limbo>>
          /\ faults' \in 0 .. MaxFaults
          /\ committed' \in [Partition -> 0 .. MaxLog]
      <4>1. faults' \in 0 .. MaxFaults
        BY <2>9 DEF CommitError, Fault, Structure, TypeOK
      <4>2. committed' \in [Partition -> 0 .. MaxLog]
        <5>1. committed' \in {committed, CommittedAfter(w)} /\ state[w] = "busy"
          BY <2>9 DEF CommitError
        <5>2. committed \in [Partition -> 0 .. MaxLog]
          BY DEF Structure, TypeOK
        <5> QED BY <5>1, <5>2, CommitTypes
      <4> QED BY <2>9, <4>1, <4>2 DEF CommitError, dbVars
    <3>1. TypeOK'
      BY <2>9, <3>0, ExitTypes DEF CommitError, Structure, TypeOK
    <3>2. \A p \in Partition : \/ committed'[p] = committed[p]
                               \/ owner[p] = w /\ committed'[p] = position[p]
      BY <2>9, CommitReachesPosition DEF CommitError
    <3> QED BY <2>9, <3>1, <3>2, ExitKeepsStructure DEF CommitError
  <2>10. ASSUME NEW w \in Worker, CommitRefused(w) \/ FailBatch(w) \/ Terminate(w)
         PROVE  Structure'
    <3>1. Exit(w) /\ UNCHANGED <<log, dlq, committed, position, dbVars>>
      BY <2>10 DEF CommitRefused, FailBatch, Terminate
    <3>2. faults' \in 0 .. MaxFaults
      BY <2>10 DEF CommitRefused, FailBatch, Terminate, Fault, Structure, TypeOK
    <3>3. TypeOK'
      BY <3>1, <3>2, ExitTypes DEF dbVars, Structure, TypeOK
    <3> QED BY <3>1, <3>3, ExitKeepsStructure
  <2>11. ASSUME NEW w \in Worker, Expel(w) PROVE Structure'
    <3>1. /\ state' = [state EXCEPT ![w] = "zombie"]
          /\ owner' = [p \in Partition |-> IF owner[p] = w THEN Nobody ELSE owner[p]]
          /\ UNCHANGED <<log, dlq, committed, position, processed, status, announced, limbo, stage>>
          /\ state[w] = "busy"
      BY <2>11 DEF Expel, Disown, dbVars
    <3>2. faults' \in 0 .. MaxFaults
      BY <2>11 DEF Expel, Fault, Structure, TypeOK
    <3>3. /\ state' \in [Worker -> States]
          /\ owner' \in [Partition -> Worker \cup {Nobody}]
      BY <3>1 DEF Structure, TypeOK, States
    <3>4. TypeOK'
      BY <3>1, <3>2, <3>3 DEF Structure, TypeOK
    <3>5. /\ state'[w] = "zombie"
          /\ \A v \in Worker : v # w => state'[v] = state[v]
          /\ \A p \in Partition : owner'[p] = IF owner[p] = w THEN Nobody ELSE owner[p]
      <4>1. state \in [Worker -> States]
        BY DEF Structure, TypeOK
      <4>2. state'[w] = "zombie" /\ \A v \in Worker : v # w => state'[v] = state[v]
        BY <3>1, <4>1
      <4>3. \A p \in Partition : owner'[p] = IF owner[p] = w THEN Nobody ELSE owner[p]
        BY <3>1
      <4> QED BY <4>2, <4>3
    <3>6. OffsetsInLog'
      BY <3>1 DEF Structure, OffsetsInLog
    <3>7. MembersOwn'
      <4>1. \A v \in Worker : state'[v] \in {"idle", "down"} => stage'[v] = NoBatch
        BY <3>1, <3>5 DEF Structure, MembersOwn
      <4>2. \A p \in Partition : owner'[p] # Nobody => state'[owner'[p]] \in {"idle", "busy"}
        <5> SUFFICES ASSUME NEW p \in Partition, owner'[p] # Nobody
                     PROVE  state'[owner'[p]] \in {"idle", "busy"}
          OBVIOUS
        <5>1. owner'[p] = owner[p] /\ owner[p] # w /\ owner[p] # Nobody
          BY <3>5
        <5>2. owner[p] \in Worker
          BY <5>1 DEF Structure, TypeOK
        <5>3. state[owner[p]] \in {"idle", "busy"}
          BY <5>1 DEF Structure, MembersOwn
        <5> QED BY <3>5, <5>1, <5>2, <5>3
      <4> QED BY <4>1, <4>2 DEF MembersOwn, NoBatch
    <3>8. BatchAtPosition'
      BY <3>1, <3>5 DEF Structure, BatchAtPosition
    <3> QED BY <3>4, <3>6, <3>7, <3>8 DEF Structure
  <2>12. ASSUME NEW w \in Worker, Restart(w) PROVE Structure'
    <3>1. TypeOK'
      BY <2>12 DEF Restart, kafkaVars, dbVars, Structure, TypeOK, States
    <3>2. /\ state[w] = "down" /\ state' = [state EXCEPT ![w] = "idle"]
          /\ UNCHANGED <<log, committed, owner, position, stage>>
      BY <2>12 DEF Restart, kafkaVars
    <3>3. /\ state'[w] = "idle"
          /\ \A v \in Worker : v # w => state'[v] = state[v]
      BY <3>2 DEF Structure, TypeOK
    <3>4. OffsetsInLog'
      BY <3>2 DEF Structure, OffsetsInLog
    <3>5. MembersOwn'
      <4>1. \A p \in Partition : owner[p] \in Worker \cup {Nobody}
        BY DEF Structure, TypeOK
      <4>2. \A v \in Worker : state'[v] \in {"idle", "down"} => stage'[v] = NoBatch'
        BY <3>2, <3>3 DEF Structure, MembersOwn, NoBatch
      <4>3. \A p \in Partition : owner'[p] # Nobody => state'[owner'[p]] \in {"idle", "busy"}
        BY <3>2, <3>3, <4>1 DEF Structure, MembersOwn
      <4> QED BY <4>2, <4>3 DEF MembersOwn
    <3>6. BatchAtPosition'
      BY <3>2, <3>3 DEF Structure, BatchAtPosition
    <3> QED BY <3>1, <3>4, <3>5, <3>6 DEF Structure
  <2>13. ASSUME NEW w \in Worker, NEW i \in Batch(w),
                \/ Start(w, i) \/ StartSkewed(w, i) \/ Check(w, i) \/ Process(w, i)
                \/ StepError(w, i) \/ Complete(w, i) \/ CompleteRefused(w, i)
                \/ CompleteError(w, i) \/ Route(w, i) \/ RouteError(w, i)
         PROVE  Structure'
    BY <2>13, PoolStepMoves, MovesKeepStructure
  <2>14. CASE UNCHANGED vars
    <3>1. TypeOK'
      BY <2>14 DEF vars, kafkaVars, dbVars, Structure, TypeOK
    <3> QED BY <2>14, <3>1, FrameKeepsStructure DEF vars, kafkaVars
  <2> QED BY <2>1, <2>2, <2>3, <2>4, <2>5, <2>6, <2>7, <2>8, <2>9, <2>10, <2>11, <2>12,
             <2>13, <2>14, NextCases
<1> QED BY <1>1, <1>2, PTL DEF Spec

(* Topics, offsets, batches, tables and the bound on faults keep their     *)
(* types; an attempt header never exceeds the retry limit.                 *)
THEOREM TypeCorrect == Spec => []TypeOK
<1>1. Structure => TypeOK
  BY DEF Structure
<1> QED BY <1>1, StructureCorrect, PTL

(* No commit of another worker passes a record that a member is handling,  *)
(* whatever rebalances, expulsions and restarts there are.                 *)
THEOREM InFlightSafe == Spec => []InFlightUncommitted
<1>1. Structure => InFlightUncommitted
  <2> SUFFICES ASSUME Structure, NEW w \in Worker, NEW i \in Batch(w), state[w] = "busy"
               PROVE  committed[i[1]] < i[2]
    BY DEF InFlightUncommitted
  <2>1. PICK p \in Partition, k \in Offset : i = <<p, k>> /\ stage[w][<<p, k>>] # "none"
    BY DEF Batch
  <2>2. committed[p] < k
    BY <2>1 DEF Structure, BatchAtPosition
  <2> QED BY <2>1, <2>2
<1> QED BY <1>1, StructureCorrect, PTL

-----------------------------------------------------------------------------
(* Orders are settled and announced once.                                  *)

(* Only the transaction of Complete, in time or late, changes an order or  *)
(* the table of processed events.                                          *)
LEMMA OrdersChange ==
    ASSUME Structure, [Next]_vars
    PROVE  UNCHANGED <<processed, status, announced>> \/ \E e \in Event : Settle(e)
<1>1. ASSUME NEW w \in Worker, NEW i \in Batch(w), Complete(w, i)
      PROVE  \E e \in Event : Settle(e)
  <2>1. RecordAt(i).event \in Event
    BY RecordOfBatch DEF Structure, Record
  <2> QED BY <1>1, <2>1 DEF Complete
<1>2. ASSUME NEW e \in Event, LateCommit(e) PROVE \E f \in Event : Settle(f)
  BY <1>2 DEF LateCommit
<1>3. CASE UNCHANGED vars
  BY <1>3 DEF vars, dbVars
<1>4. ASSUME NEW e \in Event, Deliver(e) \/ LateRollback(e) PROVE UNCHANGED <<processed, status, announced>>
  BY <1>4 DEF Deliver, LateRollback, dbVars
<1>5. ASSUME NEW p \in Partition, NEW w \in Worker, Revoke(p) \/ Assign(p, w)
      PROVE  UNCHANGED <<processed, status, announced>>
  BY <1>5 DEF Revoke, Assign, dbVars
<1>6. ASSUME NEW p \in Partition, Revoke(p) PROVE UNCHANGED <<processed, status, announced>>
  BY <1>6 DEF Revoke, dbVars
<1>7. ASSUME NEW w \in Worker,
             \/ Poll(w) \/ PollError(w) \/ CommitBatch(w) \/ CommitError(w)
             \/ CommitRefused(w) \/ FailBatch(w) \/ Expel(w) \/ Terminate(w) \/ Restart(w)
      PROVE  UNCHANGED <<processed, status, announced>>
  BY <1>7 DEF Poll, PollError, CommitBatch, CommitError, CommitRefused, FailBatch, Expel,
              Terminate, Restart, dbVars
<1>8. ASSUME NEW w \in Worker, NEW i \in Batch(w),
             \/ Start(w, i) \/ StartSkewed(w, i) \/ Check(w, i) \/ Process(w, i)
             \/ StepError(w, i) \/ CompleteRefused(w, i) \/ CompleteError(w, i)
             \/ Route(w, i) \/ RouteError(w, i)
      PROVE  UNCHANGED <<processed, status, announced>>
  BY <1>8 DEF Start, StartSkewed, Check, Process, StepError, CompleteRefused, CompleteError,
              Route, RouteError, dbVars
<1> QED BY <1>1, <1>2, <1>3, <1>4, <1>5, <1>6, <1>7, <1>8, NextCases

(* The transaction settles and announces a pending order, or leaves it.    *)
LEMMA SettleOnce ==
    ASSUME TypeOK, NEW e \in Event, Settle(e), NEW o \in Order
    PROVE  \/ status'[o] = status[o] /\ announced'[o] = announced[o]
           \/ /\ status[o] = "PENDING" /\ status'[o] # "PENDING"
              /\ announced'[o] = announced[o] + 1
<1>1. OrderOf[e] \in Order /\ Verdict[e] \in {"CONFIRMED", "FAILED"}
  BY ConsumerAssumption
<1>2. status \in [Order -> {"PENDING", "CONFIRMED", "FAILED"}] /\ announced \in [Order -> Nat]
  BY DEF TypeOK
<1>3. CASE e \notin processed /\ status[OrderOf[e]] = "PENDING"
  BY <1>1, <1>2, <1>3 DEF Settle
<1>4. CASE ~(e \notin processed /\ status[OrderOf[e]] = "PENDING")
  BY <1>1, <1>2, <1>4 DEF Settle
<1> QED BY <1>3, <1>4

(* Redelivered events, zombies and transactions of unknown outcome settle  *)
(* no order twice and announce none twice: exactly the orders that are not *)
(* PENDING have their one OrderStatusChanged event.                        *)
THEOREM OrdersSettledOnce == Spec => []OneStatusEvent /\ SettledOnce
<1>1. Init => OneStatusEvent
  BY DEF Init, OneStatusEvent
<1>2. Structure /\ OneStatusEvent /\ [Next]_vars => OneStatusEvent'
  <2> SUFFICES ASSUME Structure, OneStatusEvent, [Next]_vars, NEW o \in Order
               PROVE  announced'[o] = IF status'[o] = "PENDING" THEN 0 ELSE 1
    BY DEF OneStatusEvent
  <2>1. announced[o] = IF status[o] = "PENDING" THEN 0 ELSE 1
    BY DEF OneStatusEvent
  <2>2. CASE UNCHANGED <<status, announced>>
    BY <2>1, <2>2
  <2>3. CASE \E e \in Event : Settle(e)
    BY <2>1, <2>3, SettleOnce DEF Structure
  <2> QED BY <2>2, <2>3, OrdersChange
<1>3. Structure /\ [Next]_vars =>
         \A o \in Order : status[o] # "PENDING" => status'[o] = status[o]
  BY OrdersChange, SettleOnce DEF Structure
<1> QED BY <1>1, <1>2, <1>3, StructureCorrect, PTL DEF Spec, SettledOnce

(* A settled order keeps its status under every redelivery, zombie and     *)
(* late COMMIT.                                                            *)
THEOREM SettledStays == Spec => SettledOnce
BY OrdersSettledOnce, PTL
=============================================================================
