---------------------------- MODULE PoisonProofs ----------------------------
(***************************************************************************)
(* Theorems about Consumer: refused events stay away from orders and from  *)
(* the retry topic, and valid ones are given up only after all attempts.   *)
(***************************************************************************)
EXTENDS ConsumerProofs

(* What processRecord knows of event e when a record of it is at stage s.  *)
Fits(s, e) ==
    /\ s \in {"check", "retry"} => Kind[e] # "malformed"
    /\ s \in {"process", "complete"} => Kind[e] \in {"valid", "unsettleable"}
    /\ s = "dlq" /\ ~ClockSkew => Kind[e] \in {"malformed", "badPayload"}

StagesFit ==
    \A w \in Worker, p \in Partition, k \in Offset :
        stage[w][<<p, k>>] # "none" => Fits(stage[w][<<p, k>>], log[p][k].event)

(* Every attempt of e from 1 to a is on its retry topic in the log lg.     *)
Tried(lg, e, a) ==
    \A b \in 1 .. a : \E k \in 1 .. Len(lg[RetryOf[e]]) :
        lg[RetryOf[e]][k] = [event |-> e, attempt |-> b]

(* No attempt is left out on the way to the attempt of a record.           *)
InOrder(lg) ==
    \A p \in Partition : \A k \in 1 .. Len(lg[p]) :
        /\ Tried(lg, lg[p][k].event, lg[p][k].attempt)
        /\ Kind[lg[p][k].event] = "malformed" => lg[p][k].attempt = 0

(* Refused events have no row in processed_events and none under way.     *)
OnlyValidSettled == \A e \in processed \cup limbo : Kind[e] = "valid"

(* DeadLetterEarned, with the attempts as InOrder has them.                *)
LettersEarned ==
    ~ClockSkew =>
        \A r \in dlq : Kind[r.event] \in {"valid", "unsettleable"} =>
            r.attempt = MaxRetries + 1 /\ Tried(log, r.event, MaxRetries)

PoisonInv == StagesFit /\ InOrder(log) /\ OnlyValidSettled /\ LettersEarned

(* While the log grows, what was tried stays tried.                        *)
LEMMA TriedStays ==
    ASSUME TypeOK, TypeOK', LogGrows, NEW e \in Event, NEW a, Tried(log, e, a)
    PROVE  Tried(log', e, a)
<1>1. RetryOf[e] \in Partition
  BY ConsumerAssumption
<1>2. Len(log[RetryOf[e]]) \in Nat /\ Len(log'[RetryOf[e]]) \in Nat
  BY <1>1 DEF TypeOK
<1> QED BY <1>1, <1>2 DEF Tried, LogGrows

(* Stages that are left alone, or set to one that says nothing of the      *)
(* event or fits it, still fit while the log grows.                        *)
LEMMA StagesKept ==
    ASSUME Structure, StagesFit, LogGrows, Structure',
           \A w \in Worker, p \in Partition, k \in Offset :
              \/ stage'[w][<<p, k>>] = stage[w][<<p, k>>]
              \/ stage'[w][<<p, k>>] \in {"none", "queued", "ok", "error"}
              \/ /\ stage[w][<<p, k>>] # "none"
                 /\ Fits(stage'[w][<<p, k>>], log[p][k].event)
    PROVE  StagesFit'
<1> SUFFICES ASSUME NEW w \in Worker, NEW p \in Partition, NEW k \in Offset,
                    stage'[w][<<p, k>>] # "none"
             PROVE  Fits(stage'[w][<<p, k>>], log'[p][k].event)
  BY DEF StagesFit, Fits
<1>1. CASE stage'[w][<<p, k>>] \in {"queued", "ok", "error"}
  BY <1>1 DEF Fits
<1>2. CASE stage'[w][<<p, k>>] \notin {"queued", "ok", "error"}
  <2>1. stage[w][<<p, k>>] # "none" /\ Fits(stage'[w][<<p, k>>], log[p][k].event)
    BY <1>2 DEF StagesFit
  <2>2. k \in 1 .. Len(log[p])
    BY <2>1 DEF Structure, OffsetsInLog, Offset
  <2>3. log'[p][k] = log[p][k]
    BY <2>2 DEF LogGrows
  <2> QED BY <2>1, <2>3
<1> QED BY <1>1, <1>2

(* A new record whose attempts were tried keeps the log in order.          *)
LEMMA AppendInOrder ==
    ASSUME Structure, TypeOK', InOrder(log),
           NEW p \in Partition, NEW e \in Event, NEW a \in 0 .. MaxRetries,
           Produce(p, [event |-> e, attempt |-> a]),
           a = 0 \/ (p = RetryOf[e] /\ Tried(log, e, a - 1) /\ Kind[e] # "malformed")
    PROVE  InOrder(log')
<1> DEFINE r == [event |-> e, attempt |-> a]
<1>0. /\ LogGrows
      /\ Len(log'[p]) = Len(log[p]) + 1
      /\ log'[p][Len(log[p]) + 1] = r
      /\ \A q \in Partition : q # p => log'[q] = log[q]
      /\ \A q \in Partition : Len(log[q]) \in Nat /\ Len(log'[q]) \in Nat
  <2>1. \A q \in Partition : q # p => log'[q] = log[q]
    BY DEF Produce, Structure, TypeOK
  <2>2. \A q \in Partition : Len(log[q]) \in Nat /\ Len(log'[q]) \in Nat
    BY DEF Structure, TypeOK
  <2>3. r \in Record
    BY DEF Record
  <2> QED BY <2>1, <2>2, <2>3, ProduceGrows, ConsumerAssumption DEF Structure
<1>1. Tried(log', e, a)
  <2>1. CASE a = 0
    BY <2>1 DEF Tried
  <2>2. CASE p = RetryOf[e] /\ Tried(log, e, a - 1)
    <3>1. Tried(log', e, a - 1)
      BY <1>0, <2>2, TriedStays DEF Structure
    <3> SUFFICES ASSUME NEW b \in 1 .. a
                 PROVE  \E k \in 1 .. Len(log'[p]) : log'[p][k] = [event |-> e, attempt |-> b]
      BY <2>2 DEF Tried
    <3>2. CASE b = a
      BY <1>0, <3>2
    <3>3. CASE b # a
      BY <1>0, <2>2, <3>1, <3>3 DEF Tried
    <3> QED BY <3>2, <3>3
  <2> QED BY <2>1, <2>2
<1> SUFFICES ASSUME NEW q \in Partition, NEW k \in 1 .. Len(log'[q])
             PROVE  /\ Tried(log', log'[q][k].event, log'[q][k].attempt)
                    /\ Kind[log'[q][k].event] = "malformed" => log'[q][k].attempt = 0
  BY DEF InOrder
<1>2. CASE q = p /\ k = Len(log[p]) + 1
  BY <1>0, <1>1, <1>2
<1>3. CASE ~(q = p /\ k = Len(log[p]) + 1)
  <2>1. k \in 1 .. Len(log[q]) /\ log'[q][k] = log[q][k]
    BY <1>0, <1>3 DEF LogGrows
  <2>2. log[q][k] \in Record
    BY <2>1 DEF Structure, TypeOK
  <2>3. PICK f \in Event, c \in 0 .. MaxRetries : f = log[q][k].event /\ c = log[q][k].attempt
    BY <2>2 DEF Record
  <2>4. Tried(log, f, c) /\ (Kind[f] = "malformed" => c = 0)
    BY <2>1, <2>3 DEF InOrder
  <2>5. Tried(log', f, c)
    BY <1>0, <2>4, TriedStays DEF Structure
  <2> QED BY <2>1, <2>3, <2>4, <2>5
<1> QED BY <1>2, <1>3

(* Dead letters stay earned, and new ones must be.                         *)
LEMMA LettersKept ==
    ASSUME TypeOK, TypeOK', LogGrows, LettersEarned,
           \A r \in dlq' : r \in dlq \/ (~ClockSkew /\ Kind[r.event] \in {"valid", "unsettleable"}
                => r.attempt = MaxRetries + 1 /\ Tried(log, r.event, MaxRetries))
    PROVE  LettersEarned'
<1> SUFFICES ASSUME ~ClockSkew, NEW r \in dlq', Kind[r.event] \in {"valid", "unsettleable"}
             PROVE  r.attempt = MaxRetries + 1 /\ Tried(log', r.event, MaxRetries)
  BY DEF LettersEarned
<1>1. r.attempt = MaxRetries + 1 /\ Tried(log, r.event, MaxRetries)
  BY DEF LettersEarned
<1>2. r.event \in Event
  BY DEF TypeOK, DeadLetter
<1> QED BY <1>1, <1>2, TriedStays

(* What route writes: a retry record follows its predecessor, and a dead   *)
(* letter is earned.                                                       *)
LEMMA WrittenEarned ==
    ASSUME Structure, PoisonInv, TypeOK', LogGrows,
           NEW w \in Worker, NEW i \in Batch(w),
           stage[w][i] \in {"retry", "dlq"}, Written(stage[w][i], RecordAt(i))
    PROVE  InOrder(log') /\ LettersEarned'
<1>1. PICK p \in Partition, k \in Offset : i = <<p, k>>
  BY RecordOfBatch DEF Structure
<1>2. k \in 1 .. Len(log[p]) /\ log[p][k] \in Record /\ RecordAt(i) = log[p][k]
  BY <1>1, RecordOfBatch DEF Structure, RecordAt
<1>3. PICK e \in Event, a \in 0 .. MaxRetries : log[p][k] = [event |-> e, attempt |-> a]
  BY <1>2 DEF Record
<1>4. Fits(stage[w][i], e)
  BY <1>1, <1>3 DEF PoisonInv, StagesFit
<1>5. Tried(log, e, a)
  BY <1>2, <1>3 DEF PoisonInv, InOrder
<1>6. CASE stage[w][i] = "dlq"
  <2>1. dlq' = dlq \cup {log[p][k]} /\ log' = log
    BY <1>2, <1>6 DEF Written
  <2>2. LettersEarned'
    <3>1. ~ClockSkew => Kind[e] \notin {"valid", "unsettleable"}
      BY <1>4, <1>6 DEF Fits
    <3> QED BY <1>3, <2>1, <3>1, LettersKept DEF Structure, PoisonInv
  <2> QED BY <2>1, <2>2 DEF PoisonInv
<1>7. CASE stage[w][i] = "retry"
  <2> DEFINE next == [event |-> e, attempt |-> a + 1]
  <2>1. [log[p][k] EXCEPT !.attempt = @ + 1] = next /\ log[p][k].event = e /\ log[p][k].attempt = a
    BY <1>3
  <2>2. CASE Exhausted(log[p][k])
    <3>1. dlq' = dlq \cup {next} /\ log' = log
      BY <1>2, <1>7, <2>1, <2>2 DEF Written
    <3>2. a = MaxRetries
      BY <2>1, <2>2, ConsumerAssumption DEF Exhausted
    <3>3. LettersEarned'
      BY <1>5, <3>1, <3>2, LettersKept DEF Structure, PoisonInv
    <3> QED BY <3>1, <3>3 DEF PoisonInv
  <2>3. CASE ~Exhausted(log[p][k])
    <3>1. dlq' = dlq /\ Produce(RetryOf[e], next)
      BY <1>2, <1>7, <2>1, <2>3 DEF Written
    <3>2. a + 1 \in 0 .. MaxRetries /\ (a + 1) - 1 = a
      BY <2>1, <2>3, ConsumerAssumption DEF Exhausted
    <3>3. Kind[e] # "malformed" /\ RetryOf[e] \in Partition
      BY <1>4, <1>7, ConsumerAssumption DEF Fits
    <3>4. PICK c \in 0 .. MaxRetries : c = a + 1
      BY <3>2
    <3>5. InOrder(log')
      BY <1>5, <3>1, <3>2, <3>3, <3>4, AppendInOrder DEF PoisonInv
    <3>6. LettersEarned'
      BY <3>1, LettersKept DEF Structure, PoisonInv
    <3> QED BY <3>5, <3>6
  <2> QED BY <2>2, <2>3
<1> QED BY <1>6, <1>7

(* A step of processRecord leaves the record at a stage that fits.         *)
LEMMA PoolStepFits ==
    ASSUME Structure, Structure', LogGrows, PoisonInv, NEW w \in Worker, NEW i \in Batch(w),
           \/ Start(w, i) \/ StartSkewed(w, i) \/ Check(w, i) \/ Process(w, i)
           \/ StepError(w, i) \/ Complete(w, i) \/ CompleteRefused(w, i)
           \/ CompleteError(w, i) \/ Route(w, i) \/ RouteError(w, i)
    PROVE  StagesFit'
<1>1. PICK p \in Partition, k \in Offset : i = <<p, k>>
  BY RecordOfBatch DEF Structure
<1>2. RecordAt(i) = log[p][k] /\ log[p][k] \in Record /\ stage[w][i] # "none"
  BY <1>1, RecordOfBatch DEF Structure, RecordAt, Batch
<1>3. PICK e \in Event, a \in 0 .. MaxRetries : e = log[p][k].event /\ a = log[p][k].attempt
  BY <1>2 DEF Record
<1>4. Fits(stage[w][i], e) /\ Kind[e] \in Kinds
  BY <1>1, <1>2, <1>3, ConsumerAssumption DEF PoisonInv, StagesFit
<1>5. PICK s \in Stages : Goto(w, i, s) /\ (s \in {"none", "queued", "ok", "error"} \/ Fits(s, e))
  <2>1. CASE Start(w, i)
    <3>1. ~(a > MaxRetries)
      BY ConsumerAssumption
    <3>2. Goto(w, i, IF Kind[e] = "malformed" THEN "dlq" ELSE "check")
      BY <1>2, <1>3, <2>1, <3>1 DEF Start
    <3> QED BY <3>2 DEF Fits, Stages, Active
  <2>2. CASE StartSkewed(w, i)
    BY <2>2 DEF StartSkewed, Fits, Stages, Active
  <2>3. CASE Check(w, i)
    <3>1. /\ stage[w][i] = "check"
          /\ Goto(w, i, IF e \in processed THEN "ok"
                         ELSE IF Kind[e] = "badPayload" THEN "dlq" ELSE "process")
      BY <1>2, <1>3, <2>3 DEF Check
    <3> QED BY <1>4, <3>1 DEF Fits, Stages, Active, Kinds
  <2>4. CASE Process(w, i)
    BY <1>4, <2>4 DEF Process, Fits, Stages, Active
  <2>5. CASE StepError(w, i)
    BY <1>4, <2>5 DEF StepError, Fits, Stages, Active
  <2>6. CASE Complete(w, i) \/ Route(w, i)
    BY <2>6 DEF Complete, Route, Stages
  <2>7. CASE CompleteRefused(w, i) \/ CompleteError(w, i)
    BY <1>4, <2>7 DEF CompleteRefused, CompleteError, Fits, Stages, Active
  <2>8. CASE RouteError(w, i)
    BY <2>8 DEF RouteError, Stages
  <2> QED BY <2>1, <2>2, <2>3, <2>4, <2>5, <2>6, <2>7, <2>8
<1>6. \A v \in Worker, q \in Partition, j \in Offset :
         stage'[v][<<q, j>>] = IF v = w /\ q = p /\ j = k THEN s ELSE stage[v][<<q, j>>]
  <2>1. stage \in [Worker -> [Partition \X Offset -> Stages]]
    BY DEF Structure, TypeOK
  <2> QED BY <1>1, <1>5, <2>1 DEF Goto
<1> QED BY <1>1, <1>2, <1>3, <1>5, <1>6, StagesKept DEF PoisonInv

(* A step that adds nothing to the topics and nothing to a batch but       *)
(* queued records.                                                         *)
LEMMA FramePoison ==
    ASSUME Structure, Structure', PoisonInv, UNCHANGED <<log, dlq>>, OnlyValidSettled',
           \A w \in Worker, p \in Partition, k \in Offset :
              \/ stage'[w][<<p, k>>] = stage[w][<<p, k>>]
              \/ stage'[w][<<p, k>>] \in {"none", "queued"}
    PROVE  PoisonInv'
<1>1. LogGrows
  BY DEF Structure, TypeOK, LogGrows
<1>2. StagesFit'
  BY <1>1, StagesKept DEF PoisonInv
<1>3. LettersEarned'
  BY DEF PoisonInv, LettersEarned
<1> QED BY <1>2, <1>3 DEF PoisonInv

(* Every step keeps what is known of stages, attempts and dead letters.    *)
LEMMA PoisonStep ==
    ASSUME Structure, Structure', PoisonInv, [Next]_vars PROVE PoisonInv'
<1>0. stage \in [Worker -> [Partition \X Offset -> Stages]]
  BY DEF Structure, TypeOK
<1>1. ASSUME NEW e \in Event, Deliver(e) PROVE PoisonInv'
  <2>1. /\ Produce(CreatedOf[e], [event |-> e, attempt |-> 0])
        /\ UNCHANGED <<dlq, processed, limbo, stage>>
    BY <1>1 DEF Deliver, dbVars
  <2>2. CreatedOf[e] \in Partition /\ 0 \in 0 .. MaxRetries
    BY ConsumerAssumption
  <2>3. [event |-> e, attempt |-> 0] \in Record
    BY <2>2 DEF Record
  <2>4. LogGrows
    BY <2>1, <2>2, <2>3, ProduceGrows DEF Structure
  <2>5. InOrder(log')
    BY <2>1, <2>2, AppendInOrder DEF Structure, PoisonInv
  <2>6. StagesFit'
    BY <2>1, <2>4, StagesKept DEF PoisonInv
  <2>7. LettersEarned'
    BY <2>1, <2>4, LettersKept DEF Structure, PoisonInv
  <2> QED BY <2>1, <2>5, <2>6, <2>7 DEF PoisonInv, OnlyValidSettled
<1>2. ASSUME NEW e \in Event, LateCommit(e) \/ LateRollback(e) PROVE PoisonInv'
  <2>1. UNCHANGED <<log, dlq, stage>>
    BY <1>2 DEF LateCommit, LateRollback, kafkaVars
  <2>2. e \in limbo /\ limbo' \subseteq limbo /\ processed' \subseteq processed \cup {e}
    BY <1>2 DEF LateCommit, LateRollback, Settle
  <2>3. OnlyValidSettled'
    BY <2>2 DEF PoisonInv, OnlyValidSettled
  <2> QED BY <2>1, <2>3, FramePoison
<1>3. ASSUME NEW w \in Worker, PollError(w) \/ Expel(w) \/ Restart(w) PROVE PoisonInv'
  <2>1. UNCHANGED <<log, dlq, processed, limbo, stage>>
    BY <1>3 DEF PollError, Expel, Restart, kafkaVars, dbVars
  <2> QED BY <2>1, FramePoison DEF PoisonInv, OnlyValidSettled
<1>4. ASSUME NEW w \in Worker,
             \/ Poll(w) \/ CommitBatch(w) \/ CommitError(w)
             \/ CommitRefused(w) \/ FailBatch(w) \/ Terminate(w)
      PROVE  PoisonInv'
  <2>1. UNCHANGED <<log, dlq, processed, limbo>>
    BY <1>4 DEF Poll, CommitBatch, CommitError, CommitRefused, FailBatch, Terminate, dbVars
  <2>2. \A v \in Worker, p \in Partition, k \in Offset :
           \/ stage'[v][<<p, k>>] = stage[v][<<p, k>>]
           \/ stage'[v][<<p, k>>] \in {"none", "queued"}
    <3>1. CASE Poll(w)
      <4>1. PICK n : stage' = [stage EXCEPT ![w] =
                [i \in Partition \X Offset |-> IF InPoll(n, i) THEN "queued" ELSE "none"]]
        BY <3>1 DEF Poll
      <4> QED BY <1>0, <4>1
    <3>2. CASE stage' = [stage EXCEPT ![w] = NoBatch]
      BY <1>0, <3>2 DEF NoBatch
    <3> QED BY <1>4, <3>1, <3>2
          DEF CommitBatch, CommitError, CommitRefused, FailBatch, Terminate, Exit
  <2> QED BY <2>1, <2>2, FramePoison DEF PoisonInv, OnlyValidSettled
<1>5. ASSUME NEW w \in Worker, NEW i \in Batch(w),
             \/ Start(w, i) \/ StartSkewed(w, i) \/ Check(w, i) \/ Process(w, i)
             \/ StepError(w, i) \/ Complete(w, i) \/ CompleteRefused(w, i)
             \/ CompleteError(w, i) \/ Route(w, i) \/ RouteError(w, i)
      PROVE  PoisonInv'
  <2>1. TypeOK' /\ LogGrows
    BY <1>5, PoolStepMoves
  <2>2. StagesFit'
    BY <1>5, <2>1, PoolStepFits
  <2>3. CASE Route(w, i) \/ RouteError(w, i)
    <3>1. /\ stage[w][i] \in {"retry", "dlq"}
          /\ Written(stage[w][i], RecordAt(i)) \/ UNCHANGED <<log, dlq>>
          /\ UNCHANGED <<processed, limbo>>
      BY <2>3 DEF Route, RouteError, dbVars
    <3>2. InOrder(log') /\ LettersEarned'
      <4>1. CASE Written(stage[w][i], RecordAt(i))
        BY <2>1, <3>1, <4>1, WrittenEarned
      <4>2. CASE UNCHANGED <<log, dlq>>
        BY <4>2 DEF PoisonInv, LettersEarned
      <4> QED BY <3>1, <4>1, <4>2
    <3> QED BY <2>2, <3>1, <3>2 DEF PoisonInv, OnlyValidSettled
  <2>4. CASE Complete(w, i) \/ CompleteError(w, i)
    <3> DEFINE e == RecordAt(i).event
    <3>1. stage[w][i] = "complete" /\ UNCHANGED <<log, dlq>>
      BY <2>4 DEF Complete, CompleteError, kafkaVars
    <3>2. /\ processed' \subseteq processed \cup {e} /\ limbo' \subseteq limbo \cup {e}
          /\ \/ Kind[e] # "unsettleable" \/ e \in processed
             \/ UNCHANGED <<processed, limbo>>
      BY <2>4 DEF Complete, CompleteError, Settle
    <3>3. Kind[e] \in {"valid", "unsettleable"}
      <4>1. PICK p \in Partition, k \in Offset : i = <<p, k>>
        BY RecordOfBatch DEF Structure
      <4> QED BY <3>1, <4>1 DEF PoisonInv, StagesFit, Fits, RecordAt
    <3>4. OnlyValidSettled'
      BY <3>2, <3>3 DEF PoisonInv, OnlyValidSettled
    <3> QED BY <2>2, <3>1, <3>4 DEF PoisonInv, LettersEarned
  <2>5. CASE UNCHANGED <<log, dlq, processed, limbo>>
    BY <2>2, <2>5 DEF PoisonInv, LettersEarned, OnlyValidSettled
  <2> QED BY <1>5, <2>3, <2>4, <2>5
        DEF Start, StartSkewed, Check, Process, StepError, CompleteRefused, kafkaVars, dbVars
<1>6. CASE UNCHANGED vars
  <2>1. UNCHANGED <<log, dlq, processed, limbo, stage>>
    BY <1>6 DEF vars, kafkaVars, dbVars
  <2> QED BY <2>1, FramePoison DEF PoisonInv, OnlyValidSettled
<1>7. ASSUME NEW p \in Partition, Revoke(p) \/ \E w \in Worker : Assign(p, w) PROVE PoisonInv'
  <2>1. UNCHANGED <<log, dlq, processed, limbo, stage>>
    BY <1>7 DEF Revoke, Assign, dbVars
  <2> QED BY <2>1, FramePoison DEF PoisonInv, OnlyValidSettled
<1>8. CASE Next
  <2>1. ASSUME NEW w \in Worker,
               \/ Poll(w) \/ PollError(w) \/ CommitBatch(w) \/ CommitError(w)
               \/ CommitRefused(w) \/ FailBatch(w) \/ Expel(w) \/ Terminate(w) \/ Restart(w)
        PROVE  PoisonInv'
    BY <1>3, <1>4, <2>1
  <2>2. ASSUME NEW e \in Event, Deliver(e) \/ LateCommit(e) \/ LateRollback(e) PROVE PoisonInv'
    BY <1>1, <1>2, <2>2
  <2> QED BY <1>5, <1>7, <1>8, <2>1, <2>2, NextCases
<1> QED BY <1>6, <1>8

(* Refused events stay where they were refused, and the attempts of every  *)
(* record and of every dead letter were made one after the other.          *)
THEOREM PoisonInvariance == Spec => []PoisonInv
<1>1. Init => PoisonInv
  <2> SUFFICES ASSUME Init PROVE PoisonInv
    OBVIOUS
  <2>1. \A p \in Partition : Len(log[p]) = 0
    BY DEF Init
  <2>2. InOrder(log)
    BY <2>1 DEF InOrder
  <2> QED BY <2>2 DEF Init, PoisonInv, StagesFit, OnlyValidSettled, LettersEarned, NoBatch
<1>2. Structure /\ Structure' /\ PoisonInv /\ [Next]_vars => PoisonInv'
  BY PoisonStep
<1> QED BY <1>1, <1>2, StructureCorrect, PTL DEF Spec

(* A valid event is in the dead letter queue only after every attempt up   *)
(* to KAFKA_MAX_RETRIES was on the retry topic, while clocks agree.        *)
THEOREM LettersAreEarned == Spec => []DeadLetterEarned
<1>1. Structure /\ PoisonInv => DeadLetterEarned
  <2> SUFFICES ASSUME Structure, PoisonInv, ~ClockSkew,
                      NEW r \in dlq, Kind[r.event] \in {"valid", "unsettleable"}
               PROVE  /\ r.attempt = MaxRetries + 1
                      /\ \A a \in 1 .. MaxRetries :
                            \E k \in DOMAIN log[RetryOf[r.event]] :
                               log[RetryOf[r.event]][k] = [event |-> r.event, attempt |-> a]
    BY DEF DeadLetterEarned
  <2>1. RetryOf[r.event] \in Partition
    BY ConsumerAssumption DEF Structure, TypeOK, DeadLetter
  <2>2. DOMAIN log[RetryOf[r.event]] = 1 .. Len(log[RetryOf[r.event]])
    BY <2>1 DEF Structure, TypeOK
  <2> QED BY <2>2 DEF PoisonInv, LettersEarned, Tried
<1> QED BY <1>1, StructureCorrect, PoisonInvariance, PTL

(* A refused event never settles an order, and a malformed one is never    *)
(* put on the retry topic.                                                 *)
THEOREM PoisonKeptApart == Spec => []PoisonIsolated
<1>1. Structure /\ PoisonInv => PoisonIsolated
  <2> SUFFICES ASSUME Structure, PoisonInv PROVE PoisonIsolated
    OBVIOUS
  <2>1. \A p \in Partition : DOMAIN log[p] = 1 .. Len(log[p])
    BY DEF Structure, TypeOK
  <2> QED BY <2>1 DEF PoisonInv, PoisonIsolated, OnlyValidSettled, InOrder
<1> QED BY <1>1, StructureCorrect, PoisonInvariance, PTL
=============================================================================
