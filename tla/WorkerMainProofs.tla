-------------------------- MODULE WorkerMainProofs --------------------------
(***************************************************************************)
(* Theorems about the order-worker process, for any size of the batch and  *)
(* of the pool and any number of polls.                                    *)
(***************************************************************************)
EXTENDS WorkerMain, FiniteSetTheorems, TLAPS

(* A goroutine that has an item.                                           *)
Busy(w) == goroutine[w] \in {"taken", "running"}

(* Where a call of Process is: what was fed, and who may still have it.    *)
CallShape ==
    /\ call # "feeding" => fed = size
    /\ call = "idle" => \A w \in Worker : goroutine[w] = "gone"
    /\ \A w \in Worker : Busy(w) => job[w] \in 1 .. fed

(* No two goroutines have the same item.                                   *)
OneHolder == \A v, w \in Worker : Busy(v) /\ Busy(w) /\ job[v] = job[w] => v = w

(* An item that was sent is with a goroutine, or its entry can be trusted. *)
EntriesHonest ==
    \A i \in 1 .. fed :
        (\E w \in Worker : Held(w, i)) \/ (errorsByIndex[i] = "nil" => i \in handled)

PoolInv == PoolTypeOK /\ CallShape /\ OneHolder /\ EntriesHonest

(* The process starts without a call.                                      *)
LEMMA PoolInitInv == Init => PoolInv
<1> SUFFICES ASSUME Init PROVE PoolInv
  OBVIOUS
<1>1. PoolTypeOK
  <2> USE DEF Init, PoolInit
  <2>1. canceled \in BOOLEAN /\ handled \subseteq Item
    OBVIOUS
  <2>2. goroutine \in [Worker -> {"gone", "ready", "taken", "running"}]
    OBVIOUS
  <2>3. job \in [Worker -> 0 .. MaxItems] /\ size \in 0 .. MaxItems /\ fed \in 0 .. size
    BY PoolAssumption
  <2> QED BY <2>1, <2>2, <2>3 DEF PoolTypeOK
<1>2. CallShape /\ OneHolder /\ EntriesHonest
  BY DEF Init, PoolInit, CallShape, OneHolder, EntriesHonest, Busy
<1> QED BY <1>1, <1>2 DEF PoolInv

(* What any step of the process is to the pool.                            *)
LEMMA PoolView ==
    ASSUME [Next]_vars
    PROVE  \/ \E n \in Item : Call(n) /\ ~canceled
           \/ CloseJobs
           \/ \E w \in Worker : Send(w) \/ Refuse(w) \/ Begin(w) \/ Finish(w) \/ Leave(w)
           \/ Return
           \/ UNCHANGED workVars /\ (canceled' = canceled \/ canceled' = TRUE)
<1>1. ASSUME NEW n \in Item, Poll(n) PROVE Call(n) /\ ~canceled
  BY <1>1 DEF Poll
<1>2. CASE PollEnded
  BY <1>2 DEF PollEnded, Life!Report
<1>3. CASE PoolWorks
  BY <1>3 DEF PoolWorks, PoolStep
<1>4. CASE BatchDone \/ BatchFailed
  BY <1>4 DEF BatchDone, BatchFailed
<1>5. CASE Commit \/ CommitFails
  BY <1>5 DEF Commit, CommitFails, Life!Report, poolVars, workVars
<1>6. CASE Signal
  BY <1>6 DEF Signal, Life!Signal
<1>7. CASE HealthServes
  BY <1>7 DEF HealthServes, Life!ServeStep, Life!ListenFails, Life!BeginShutdown, Life!EndShutdown, Life!Report
<1>8. CASE MainWaits
  BY <1>8 DEF MainWaits, Life!WaitStep, Life!SelectResult, Life!SelectSignal, Life!Drain, Life!TimeUp,
              Life!WaitReturns, Life!Give
<1>9. CASE CloseAndExit
  BY <1>9 DEF CloseAndExit, Life!Exit
<1>10. CASE UNCHANGED vars
  BY <1>10 DEF vars, poolVars, workVars
<1> QED BY <1>1, <1>2, <1>3, <1>4, <1>5, <1>6, <1>7, <1>8, <1>9, <1>10 DEF Next

(* Every step of the process keeps the invariant of the pool.              *)
LEMMA PoolStepInv == PoolInv /\ [Next]_vars => PoolInv'
<1> SUFFICES ASSUME PoolInv, [Next]_vars PROVE PoolInv'
  OBVIOUS
<1> USE PoolAssumption DEF PoolInv
<1>1. ASSUME NEW n \in Item, Call(n) PROVE PoolInv'
  BY <1>1 DEF Call, PoolTypeOK, CallShape, OneHolder, EntriesHonest, Busy, Held, Item, Worker
<1>2. CASE CloseJobs
  BY <1>2 DEF CloseJobs, PoolTypeOK, CallShape, OneHolder, EntriesHonest, Busy, Held
<1>3. ASSUME NEW w \in Worker, Send(w) PROVE PoolInv'
  <2> USE <1>3 DEF Send, HandOver
  <2>1. PoolTypeOK'
    BY DEF PoolTypeOK, Item
  <2>2. CallShape'
    BY DEF PoolTypeOK, CallShape, Busy
  <2>3. OneHolder'
    BY DEF PoolTypeOK, CallShape, OneHolder, Busy
  <2>4. EntriesHonest'
    <3> SUFFICES ASSUME NEW i \in 1 .. fed',
                        ~((\E v \in Worker : Held(v, i))')
                 PROVE  (errorsByIndex[i] = "nil" => i \in handled)'
      BY DEF EntriesHonest
    <3>1. i # fed + 1
      BY DEF Held, PoolTypeOK
    <3>2. ~\E v \in Worker : Held(v, i)
      BY <3>1 DEF Held, PoolTypeOK
    <3> QED BY <3>1, <3>2 DEF EntriesHonest, PoolTypeOK
  <2> QED BY <2>1, <2>2, <2>3, <2>4
<1>4. ASSUME NEW w \in Worker, Refuse(w) \/ Finish(w) PROVE PoolInv'
  <2>1. /\ Busy(w)
        /\ job[w] \in 1 .. fed
        /\ job[w] \in Item
        /\ goroutine' = [goroutine EXCEPT ![w] = "ready"]
        /\ UNCHANGED <<canceled, call, size, fed, job>>
        /\ handled \subseteq handled'
        /\ \E r \in {"nil", "failed", "canceled"} :
              /\ errorsByIndex' = [errorsByIndex EXCEPT ![job[w]] = r]
              /\ handled' \subseteq handled \cup {job[w]}
              /\ r = "nil" => job[w] \in handled'
    BY <1>4 DEF Refuse, Finish, Busy, CallShape, PoolTypeOK, Item
  <2>2. PoolTypeOK'
    BY <2>1 DEF PoolTypeOK
  <2>3. CallShape'
    BY <2>1 DEF PoolTypeOK, CallShape, Busy
  <2>4. OneHolder'
    BY <2>1 DEF PoolTypeOK, OneHolder, Busy
  <2>5. EntriesHonest'
    <3> SUFFICES ASSUME NEW i \in 1 .. fed,
                        ~((\E v \in Worker : Held(v, i))')
                 PROVE  (errorsByIndex[i] = "nil" => i \in handled)'
      BY <2>1 DEF EntriesHonest
    <3>1. CASE i = job[w]
      BY <2>1, <3>1 DEF PoolTypeOK
    <3>2. CASE i # job[w]
      <4>1. ~\E v \in Worker : Held(v, i)
        BY <2>1, <3>2 DEF Held, PoolTypeOK
      <4> QED BY <2>1, <3>2, <4>1 DEF EntriesHonest, PoolTypeOK
    <3> QED BY <3>1, <3>2
  <2> QED BY <2>2, <2>3, <2>4, <2>5
<1>5. ASSUME NEW w \in Worker, Begin(w) PROVE PoolInv'
  BY <1>5 DEF Begin, PoolTypeOK, CallShape, OneHolder, EntriesHonest, Busy, Held
<1>6. ASSUME NEW w \in Worker, Leave(w) PROVE PoolInv'
  BY <1>6 DEF Leave, PoolTypeOK, CallShape, OneHolder, EntriesHonest, Busy, Held
<1>7. CASE Return
  BY <1>7 DEF Return, PoolTypeOK, CallShape, OneHolder, EntriesHonest, Busy, Held
<1>8. CASE UNCHANGED workVars /\ (canceled' = canceled \/ canceled' = TRUE)
  BY <1>8 DEF workVars, PoolTypeOK, CallShape, OneHolder, EntriesHonest, Busy, Held
<1> QED BY <1>1, <1>2, <1>3, <1>4, <1>5, <1>6, <1>7, <1>8, PoolView

(* In every state of the process each item that was sent is with one       *)
(* goroutine of the pool or has an entry that can be trusted.              *)
THEOREM PoolInvariance == Spec => []PoolInv
BY PoolInitInv, PoolStepInv, PTL DEF Spec

(* A nil that workerpool.Process returns means that its item was handled.  *)
THEOREM NilTrusted == Spec => []NilMeansHandled
<1>1. PoolInv => NilMeansHandled
  BY DEF PoolInv, PoolTypeOK, CallShape, EntriesHonest, NilMeansHandled, Held
<1> QED BY <1>1, PoolInvariance, PTL

-----------------------------------------------------------------------------
(* The refinement of PoolContract.                                         *)

(* The number of items in handlers is below Workers when a goroutine is    *)
(* about to start another.                                                 *)
LEMMA RoomForOne ==
    ASSUME PoolInv, NEW w \in Worker, goroutine[w] = "taken"
    PROVE  Cardinality(Contract!Running) < Workers
<1> DEFINE R == Contract!Running
           holder == [i \in R |-> CHOOSE v \in Worker : job[v] = i /\ goroutine[v] = "running"]
<1>1. \A i \in R : \E v \in Worker : job[v] = i /\ goroutine[v] = "running"
  BY DEF Contract!Running, ResultOf, PoolInv, PoolTypeOK
<1>2. \A i \in R : holder[i] \in Worker \ {w} /\ job[holder[i]] = i
  BY <1>1
<1>3. holder \in Injection(R, Worker \ {w})
  BY <1>2 DEF Injection, IsInjective
<1>4. IsFiniteSet(Worker) /\ Cardinality(Worker) = Workers
  BY PoolAssumption, FS_Interval DEF Worker
<1>5. IsFiniteSet(Worker \ {w}) /\ Cardinality(Worker \ {w}) = Workers - 1
  BY <1>4, FS_RemoveElement
<1>6. IsFiniteSet(R) /\ Cardinality(R) <= Workers - 1
  <2> HIDE DEF R, holder
  <2> QED BY <1>3, <1>5, FS_Injection
<1>7. Cardinality(R) \in Nat
  <2> HIDE DEF R
  <2> QED BY <1>6, FS_CardinalityType
<1> QED BY <1>6, <1>7, PoolAssumption

(* Before the first poll no item has a result.                             *)
LEMMA ContractInit == Init => Contract!Init
<1> SUFFICES ASSUME Init PROVE Contract!Init
  OBVIOUS
<1>1. \A i \in Item : ResultOf(i) = "none"
  BY PoolAssumption DEF Init, PoolInit, ResultOf, Item
<1>2. call = "idle" /\ canceled = FALSE
  BY DEF Init, PoolInit
<1> QED BY <1>1, <1>2 DEF Contract!Init, Contract!Idle

(* Every step of the process is a step of the contract, or none.           *)
LEMMA ContractStep == PoolInv /\ [Next]_vars => [Contract!Next]_(Contract!vars)
<1> SUFFICES ASSUME PoolInv, [Next]_vars PROVE [Contract!Next]_(Contract!vars)
  OBVIOUS
<1> USE PoolAssumption
<1> DEFINE Same == \A i \in Item : ResultOf(i)' = ResultOf(i)
           Becomes(k, r) == \A i \in Item : ResultOf(i)' = IF i = k THEN r ELSE ResultOf(i)
<1>0. /\ size \in 0 .. MaxItems /\ fed \in 0 .. size
      /\ goroutine \in [Worker -> {"gone", "ready", "taken", "running"}]
      /\ job \in [Worker -> 0 .. MaxItems]
      /\ errorsByIndex \in [Item -> {"nil", "failed", "canceled"}]
      /\ \A w \in Worker : Busy(w) => job[w] \in 1 .. fed /\ job[w] \in Item
  BY DEF PoolInv, PoolTypeOK, CallShape, Item
<1>1. ASSUME NEW n \in Item, Call(n) PROVE Contract!Accept(1 .. n)
  <2>1. \A i \in Item : ResultOf(i)' = IF i \in 1 .. n THEN "queued" ELSE "none"
    BY <1>1 DEF Call, ResultOf, Held, Item
  <2>2. call = "idle" /\ call' = "feeding" /\ UNCHANGED canceled
    BY <1>1 DEF Call
  <2> QED BY <2>1, <2>2 DEF Contract!Accept
<1>2. ASSUME Same, (call = "idle") = (call = "idle")', UNCHANGED canceled
      PROVE  UNCHANGED Contract!vars
  BY <1>2 DEF Contract!vars
<1>3. CASE CloseJobs
  <2>1. Same
    BY <1>3 DEF CloseJobs, ResultOf, Held
  <2> QED BY <1>2, <1>3, <2>1 DEF CloseJobs
<1>4. ASSUME NEW w \in Worker, Send(w) PROVE UNCHANGED Contract!vars
  <2>1. /\ fed' = fed + 1 /\ fed < size
        /\ job' = [job EXCEPT ![w] = fed + 1]
        /\ goroutine[w] = "ready"
        /\ goroutine' = [goroutine EXCEPT ![w] = "taken"]
        /\ UNCHANGED <<canceled, call, size, errorsByIndex>>
    BY <1>4 DEF Send, HandOver
  <2>2. ASSUME NEW i \in Item PROVE ResultOf(i)' = ResultOf(i)
    <3>1. CASE i = fed + 1
      <4>1. ~\E v \in Worker : Held(v, i)
        BY <1>0, <3>1 DEF Held, Busy
      <4>2. ~\E v \in Worker : job'[v] = i /\ goroutine'[v] = "running"
        BY <1>0, <2>1, <3>1, <4>1 DEF Held
      <4>3. Held(w, i)'
        BY <1>0, <2>1, <3>1 DEF Held
      <4>4. ResultOf(i) = "queued"
        BY <1>0, <2>1, <3>1, <4>1 DEF ResultOf, Held
      <4>5. ResultOf(i)' = "queued"
        BY <1>0, <2>1, <3>1, <4>2, <4>3 DEF ResultOf
      <4> QED BY <4>4, <4>5
    <3>2. CASE i # fed + 1
      <4>1. \A v \in Worker : Held(v, i)' <=> Held(v, i)
        BY <1>0, <2>1, <3>2 DEF Held
      <4>2. \A v \in Worker : (job'[v] = i /\ goroutine'[v] = "running")
                              <=> (job[v] = i /\ goroutine[v] = "running")
        BY <1>0, <2>1, <3>2
      <4>3. i > fed + 1 <=> i > fed
        BY <1>0, <3>2 DEF Item
      <4> QED BY <1>0, <2>1, <4>1, <4>2, <4>3 DEF ResultOf
    <3> QED BY <3>1, <3>2
  <2> QED BY <1>2, <2>1, <2>2
<1>5. ASSUME NEW w \in Worker, Refuse(w) \/ Begin(w) \/ Finish(w) PROVE Contract!Next
  <2>0. PICK k : k = job[w]
    OBVIOUS
  <2>1. /\ k = job[w] /\ Busy(w) /\ k \in Item /\ k \in 1 .. fed
        /\ \A v \in Worker : Busy(v) /\ job[v] = k => v = w
    BY <1>0, <1>5, <2>0 DEF Refuse, Begin, Finish, Busy, PoolInv, OneHolder
  <2>2. ASSUME NEW i \in Item, i # k, NEW r,
               \/ UNCHANGED errorsByIndex
               \/ errorsByIndex' = [errorsByIndex EXCEPT ![k] = r]
        PROVE  ResultOf(i)' = ResultOf(i)
    BY <1>0, <1>5, <2>1, <2>2 DEF Refuse, Begin, Finish, ResultOf, Held
  <2>3. CASE Refuse(w)
    <3>1. ResultOf(k) = "queued"
      BY <1>0, <2>1, <2>3 DEF Refuse, ResultOf, Held, Busy
    <3>2. ResultOf(k)' = "canceled"
      BY <1>0, <2>1, <2>3 DEF Refuse, ResultOf, Held, Busy
    <3>3. Becomes(k, "canceled")
      BY <2>1, <2>2, <2>3, <3>2 DEF Refuse
    <3>4. Contract!Refuse(k)
      BY <2>1, <2>3, <3>1, <3>3 DEF Refuse, Contract!Refuse
    <3> QED BY <2>1, <3>4 DEF Contract!Next
  <2>4. CASE Begin(w)
    <3>1. ResultOf(k) = "queued"
      BY <1>0, <2>1, <2>4 DEF Begin, ResultOf, Held, Busy
    <3>2. ResultOf(k)' = "running"
      BY <1>0, <2>1, <2>4 DEF Begin, ResultOf
    <3>3. Becomes(k, "running")
      BY <2>2, <2>4, <3>2 DEF Begin
    <3>4. Cardinality(Contract!Running) < Workers
      BY <2>4, RoomForOne DEF Begin
    <3>5. [i \in Item |-> ResultOf(i)]' = [[i \in Item |-> ResultOf(i)] EXCEPT ![k] = "running"]
      BY <2>1, <3>3
    <3>6. ~canceled /\ UNCHANGED <<call, canceled>>
      BY <2>4 DEF Begin
    <3>7. [i \in Item |-> ResultOf(i)][k] = "queued"
      BY <2>1, <3>1
    <3>8. Contract!Cardinality(Contract!Running) = Cardinality(Contract!Running)
      BY DEF Contract!Cardinality, Cardinality
    <3>9. Contract!Start(k)
      BY <3>4, <3>5, <3>6, <3>7, <3>8 DEF Contract!Start
    <3> QED BY <2>1, <3>9 DEF Contract!Next
  <2>5. CASE Finish(w)
    <3>1. PICK r \in {"nil", "failed"} : errorsByIndex' = [errorsByIndex EXCEPT ![k] = r]
      BY <2>1, <2>5 DEF Finish
    <3>2. ResultOf(k) = "running"
      BY <1>0, <2>1, <2>5 DEF Finish, ResultOf
    <3>3. ResultOf(k)' = r
      BY <1>0, <2>1, <2>5, <3>1 DEF Finish, ResultOf, Held, Busy
    <3>4. Becomes(k, r)
      <4> SUFFICES ASSUME NEW i \in Item PROVE ResultOf(i)' = IF i = k THEN r ELSE ResultOf(i)
        OBVIOUS
      <4>1. CASE i = k
        BY <3>3, <4>1
      <4>2. CASE i # k
        BY <2>2, <3>1, <4>2
      <4> QED BY <4>1, <4>2
    <3>5. Contract!Finish(k)
      BY <2>1, <2>5, <3>2, <3>4 DEF Finish, Contract!Finish
    <3> QED BY <2>1, <3>5 DEF Contract!Next
  <2> QED BY <1>5, <2>3, <2>4, <2>5
<1>6. ASSUME NEW w \in Worker, Leave(w) PROVE UNCHANGED Contract!vars
  <2>1. Same
    BY <1>0, <1>6 DEF Leave, ResultOf, Held
  <2> QED BY <1>2, <1>6, <2>1 DEF Leave
<1>7. CASE Return
  <2>1. Same
    BY <1>7 DEF Return, ResultOf, Held
  <2>2. fed = size
    BY <1>7 DEF Return, PoolInv, CallShape
  <2>3. \A i \in Item : ResultOf(i) \notin {"queued", "running"}
    BY <1>0, <1>7, <2>2 DEF Return, ResultOf, Held, Item
  <2>4. Contract!Answer
    BY <1>7, <2>1, <2>3 DEF Return, Contract!Answer
  <2> QED BY <2>4 DEF Contract!Next
<1>8. CASE UNCHANGED workVars /\ (canceled' = canceled \/ canceled' = TRUE)
  <2>1. Same
    BY <1>8 DEF workVars, ResultOf, Held
  <2>2. CASE canceled' = canceled
    BY <1>2, <1>8, <2>1, <2>2 DEF workVars
  <2>3. CASE canceled' = TRUE
    <3>1. Contract!Cancel
      BY <1>8, <2>1, <2>3 DEF workVars, Contract!Cancel
    <3> QED BY <3>1 DEF Contract!Next
  <2> QED BY <1>8, <2>2, <2>3
<1>9. \A n \in Item : 1 .. n \in SUBSET Item
  BY DEF Item
<1>10. (\E n \in Item : Call(n)) => Contract!Next
  BY <1>1, <1>9 DEF Contract!Next
<1> HIDE DEF Same, Becomes
<1> QED BY <1>3, <1>4, <1>5, <1>6, <1>7, <1>8, <1>10, PoolView

(* The channel protocol of workerpool.Process, in a process that may be    *)
(* told to stop at any time, does what its callers rely on.                *)
THEOREM PoolImplements == Spec => ImplementsContract
BY PoolInvariance, ContractInit, ContractStep, PTL DEF Spec, ImplementsContract, Contract!Spec

-----------------------------------------------------------------------------
(* The frame of the process.                                               *)

Reported(p) == IF Life!Ended(p) THEN 1 ELSE 0

(* Results that Wait has received or that wait in errCh are as many as     *)
(* goroutines have ended.                                                  *)
ResultsCounted == Len(errCh) + (2 - remaining) = Reported("app") + Reported("health")

(* Without a signal nothing is told to stop before the first failure, so   *)
(* the first result is an error, and Wait keeps it.                        *)
FirstErrorKept ==
    ~root =>
        /\ wait = "select" => /\ ~canceled
                              /\ part["health"] # "closing"
                              /\ \A i \in 1 .. Len(errCh) : errCh[i] = "error"
        /\ wait # "select" => result # "nil"

(* The process ends after Wait, and with its result.                       *)
ExitAfterWait ==
    /\ exit # "none" => wait = "returned"
    /\ exit = "ok" => result = "nil"
    /\ wait = "returned" /\ result # "timeout" => remaining = 0

FrameInv == TypeOK /\ ResultsCounted /\ FirstErrorKept /\ ExitAfterWait

(* What any step of the process is to the frame.  A goroutine reports nil  *)
(* only when it was told to stop.                                          *)
LEMMA FrameView ==
    ASSUME [Next]_vars
    PROVE  \/ Life!Signal
           \/ \E p \in Life!Part, r \in Life!Results :
                 /\ Life!Report(p, r)
                 /\ r = "nil" => canceled \/ part["health"] = "closing"
           \/ Life!BeginShutdown
           \/ Life!SelectResult \/ Life!SelectSignal \/ Life!Drain
           \/ Life!TimeUp \/ Life!WaitReturns
           \/ Life!Exit
           \/ UNCHANGED <<canceled, frameVars>>
<1>0. "app" \in Life!Part /\ "health" \in Life!Part /\ "nil" \in Life!Results /\ "error" \in Life!Results
  BY DEF Life!Part, Life!Results
<1>1. ASSUME NEW n \in Item, Poll(n) PROVE UNCHANGED <<canceled, frameVars>>
  BY <1>1 DEF Poll, Call
<1>2. CASE PollEnded
  BY <1>0, <1>2 DEF PollEnded
<1>3. CASE PoolWorks
  BY <1>3 DEF PoolWorks, PoolStep, CloseJobs, Send, HandOver, Refuse, Begin, Finish, Leave
<1>4. CASE BatchDone
  BY <1>4 DEF BatchDone, Return
<1>5. CASE BatchFailed \/ CommitFails
  BY <1>0, <1>5 DEF BatchFailed, CommitFails
<1>6. CASE Commit
  BY <1>6 DEF Commit, poolVars
<1>7. CASE Signal \/ MainWaits \/ CloseAndExit
  BY <1>7 DEF Signal, MainWaits, CloseAndExit, Life!WaitStep
<1>8. CASE HealthServes
  BY <1>0, <1>8 DEF HealthServes, Life!ServeStep, Life!ListenFails, Life!EndShutdown
<1>9. CASE UNCHANGED vars
  BY <1>9 DEF vars, poolVars
<1> QED BY <1>1, <1>2, <1>3, <1>4, <1>5, <1>6, <1>7, <1>8, <1>9 DEF Next

(* The process starts with both goroutines running and no result.          *)
LEMMA FrameInitInv == Init => FrameInv
<1> SUFFICES ASSUME Init PROVE FrameInv
  OBVIOUS
<1> USE DEF Init, Life!LifeInit
<1>1. TypeOK
  <2>1. PoolTypeOK
    BY PoolInitInv DEF PoolInv
  <2>2. root \in BOOLEAN /\ blocked \in BOOLEAN /\ canceled \in BOOLEAN
    BY DEF PoolInit
  <2>3. errCh \in Seq(Life!Results) /\ Len(errCh) <= 2
    OBVIOUS
  <2>4. part \in [Life!Part -> {"running", "closing"} \cup Life!Results]
    OBVIOUS
  <2>5. polls \in 0 .. MaxPolls
    BY MaxPollsAssumption
  <2> QED BY <2>1, <2>2, <2>3, <2>4, <2>5 DEF TypeOK, Life!LifeTypeOK, Life!Results
<1>2. ResultsCounted
  BY DEF ResultsCounted, Reported, Life!Ended, Life!Part, Life!Results
<1>3. FirstErrorKept
  <2>1. ~canceled
    BY DEF PoolInit
  <2>2. part["health"] # "closing" /\ Len(errCh) = 0 /\ wait = "select"
    BY DEF Life!Part
  <2>3. \A i \in 1 .. Len(errCh) : errCh[i] = "error"
    BY <2>2
  <2> QED BY <2>1, <2>2, <2>3 DEF FirstErrorKept
<1>4. ExitAfterWait
  BY DEF ExitAfterWait
<1> QED BY <1>1, <1>2, <1>3, <1>4 DEF FrameInv

(* Every step of the process keeps the invariant of the frame.             *)
LEMMA FrameStepInv == PoolInv /\ PoolInv' /\ FrameInv /\ [Next]_vars => FrameInv'
<1> SUFFICES ASSUME PoolInv, PoolInv', FrameInv, [Next]_vars PROVE FrameInv'
  OBVIOUS
<1> DEFINE Kept == Life!LifeTypeOK' /\ ResultsCounted' /\ FirstErrorKept' /\ ExitAfterWait'
<1>0. /\ root \in BOOLEAN /\ canceled \in BOOLEAN
      /\ part \in [Life!Part -> {"running", "closing"} \cup Life!Results]
      /\ errCh \in Seq(Life!Results)
      /\ wait \in {"select", "drain", "returned"}
      /\ remaining \in 0 .. 2
      /\ result \in Life!Results \cup {"timeout"}
      /\ exit \in {"none", "ok", "failed"}
      /\ Len(errCh) \in Nat
      /\ ResultsCounted /\ FirstErrorKept /\ ExitAfterWait
  BY DEF FrameInv, TypeOK, Life!LifeTypeOK
<1> DEFINE RunType == run \in {"poll", "pool", "commit"} /\ blocked \in BOOLEAN /\ polls \in 0 .. MaxPolls
<1>1. RunType'
  <2> USE DEF FrameInv, TypeOK
  <2>1. ASSUME NEW n \in Item, Poll(n) PROVE RunType'
    BY <2>1, MaxPollsAssumption DEF Poll
  <2>2. CASE PollEnded \/ BatchDone \/ BatchFailed \/ Commit \/ CommitFails
    BY <2>2 DEF PollEnded, BatchDone, BatchFailed, Commit, CommitFails
  <2>3. CASE PoolWorks \/ Signal \/ HealthServes \/ MainWaits \/ CloseAndExit \/ UNCHANGED vars
    BY <2>3 DEF PoolWorks, Signal, HealthServes, MainWaits, CloseAndExit, vars, runVars
  <2> QED BY <2>1, <2>2, <2>3 DEF Next
<1> SUFFICES Kept
  BY <1>1 DEF FrameInv, TypeOK, PoolInv
<1>2. CASE Life!Signal
  <2> USE <1>0, <1>2 DEF Life!Signal
  <2>1. Life!LifeTypeOK'
    BY DEF FrameInv, TypeOK, Life!LifeTypeOK
  <2>2. ResultsCounted' /\ FirstErrorKept' /\ ExitAfterWait'
    BY DEF ResultsCounted, FirstErrorKept, ExitAfterWait, Reported, Life!Ended
  <2> QED BY <2>1, <2>2
<1>3. ASSUME NEW p \in Life!Part, NEW r \in Life!Results, Life!Report(p, r),
             r = "nil" => canceled \/ part["health"] = "closing"
      PROVE  Kept
  <2>1. /\ part' = [part EXCEPT ![p] = r]
        /\ errCh' = Append(errCh, r)
        /\ part[p] \notin Life!Results
        /\ exit = "none"
        /\ UNCHANGED <<root, canceled, wait, remaining, result, exit>>
    BY <1>3 DEF Life!Report, Life!Alive, Life!Ended
  <2>2. Len(errCh') = Len(errCh) + 1
    BY <1>0, <2>1
  <2>3. ResultsCounted'
    BY <1>0, <2>1, <2>2 DEF ResultsCounted, Reported, Life!Ended, Life!Part, Life!Results
  <2>4. Len(errCh') <= 2
    BY <1>0, <2>1, <2>2, <2>3 DEF ResultsCounted, Reported
  <2>5. Life!LifeTypeOK'
    BY <1>0, <2>1, <2>4 DEF Life!LifeTypeOK
  <2>6. FirstErrorKept'
    <3> SUFFICES ASSUME ~root', wait' = "select"
                 PROVE  /\ ~canceled' /\ part'["health"] # "closing"
                        /\ \A i \in 1 .. Len(errCh') : errCh'[i] = "error"
      BY <1>0, <2>1 DEF FirstErrorKept
    <3>1. /\ ~canceled /\ part["health"] # "closing"
          /\ \A i \in 1 .. Len(errCh) : errCh[i] = "error"
      BY <1>0, <2>1 DEF FirstErrorKept
    <3>2. r = "error"
      BY <1>3, <3>1 DEF Life!Results
    <3>3. part'["health"] # "closing"
      BY <1>0, <2>1, <3>1, <3>2 DEF Life!Part
    <3>4. \A i \in 1 .. Len(errCh') : errCh'[i] = "error"
      BY <1>0, <2>1, <2>2, <3>1, <3>2
    <3> QED BY <2>1, <3>1, <3>3, <3>4
  <2>7. ExitAfterWait'
    BY <1>0, <2>1 DEF ExitAfterWait
  <2> QED BY <2>3, <2>5, <2>6, <2>7
<1>4. CASE Life!BeginShutdown
  <2>1. /\ part["health"] = "running"
        /\ part' = [part EXCEPT !["health"] = "closing"]
        /\ canceled
        /\ UNCHANGED <<root, canceled, errCh, wait, remaining, result, exit>>
    BY <1>4 DEF Life!BeginShutdown
  <2>2. Life!LifeTypeOK'
    BY <1>0, <2>1 DEF FrameInv, TypeOK, Life!LifeTypeOK
  <2>3. ResultsCounted'
    BY <1>0, <2>1 DEF ResultsCounted, Reported, Life!Ended, Life!Part, Life!Results
  <2>4. FirstErrorKept' /\ ExitAfterWait'
    BY <1>0, <2>1 DEF FirstErrorKept, ExitAfterWait
  <2> QED BY <2>2, <2>3, <2>4
<1>5. ASSUME Life!SelectResult \/ Life!Drain
      PROVE  Kept
  <2>1. PICK r : /\ errCh # << >> /\ errCh' = Tail(errCh) /\ remaining' = remaining - 1
                 /\ UNCHANGED <<root, part, exit>> /\ result' = r /\ exit = "none"
                 /\ \/ wait = "select" /\ wait' = "drain" /\ canceled' = TRUE /\ r = Head(errCh)
                    \/ /\ wait = "drain" /\ UNCHANGED <<wait, canceled>>
                       /\ r = IF result = "nil" THEN Head(errCh) ELSE result
    BY <1>5 DEF Life!SelectResult, Life!Drain, Life!Draining, Life!Receive, Life!Alive
  <2>2. /\ errCh' \in Seq(Life!Results)
        /\ Len(errCh') = Len(errCh) - 1
        /\ Len(errCh) >= 1
        /\ Head(errCh) = errCh[1] /\ Head(errCh) \in Life!Results
    BY <1>0, <2>1
  <2>3. ResultsCounted'
    BY <1>0, <2>1, <2>2 DEF ResultsCounted, Reported, Life!Ended
  <2>4. remaining' \in 0 .. 2 /\ Len(errCh') <= 2
    BY <1>0, <2>1, <2>2 DEF ResultsCounted, Reported
  <2>5. result' \in Life!Results \cup {"timeout"}
    BY <1>0, <2>1, <2>2
  <2>6. Life!LifeTypeOK'
    <3>1. (root \in BOOLEAN /\ canceled \in BOOLEAN)'
      BY <1>0, <2>1
    <3>2. (/\ part \in [Life!Part -> {"running", "closing"} \cup Life!Results]
           /\ wait \in {"select", "drain", "returned"} /\ exit \in {"none", "ok", "failed"})'
      BY <1>0, <2>1
    <3> QED BY <2>2, <2>4, <2>5, <3>1, <3>2 DEF Life!LifeTypeOK
  <2>7. FirstErrorKept'
    <3>1. ASSUME ~root, wait = "select" PROVE Head(errCh) = "error"
      BY <1>0, <2>2, <3>1 DEF FirstErrorKept
    <3>2. ~root => result' # "nil"
      BY <1>0, <2>1, <3>1 DEF FirstErrorKept
    <3> QED BY <2>1, <3>2 DEF FirstErrorKept
  <2>8. ExitAfterWait'
    BY <1>0, <2>1 DEF ExitAfterWait
  <2> QED BY <2>3, <2>6, <2>7, <2>8
<1>6. CASE Life!SelectSignal
  <2>1. /\ root /\ canceled' = TRUE /\ wait' = "drain" /\ exit = "none"
        /\ UNCHANGED <<root, part, errCh, remaining, result, exit>>
    BY <1>6 DEF Life!SelectSignal, Life!Alive
  <2>2. Life!LifeTypeOK'
    BY <1>0, <2>1 DEF FrameInv, TypeOK, Life!LifeTypeOK
  <2>3. ResultsCounted'
    BY <1>0, <2>1 DEF ResultsCounted, Reported, Life!Ended
  <2>4. FirstErrorKept' /\ ExitAfterWait'
    BY <1>0, <2>1 DEF FirstErrorKept, ExitAfterWait
  <2> QED BY <2>2, <2>3, <2>4
<1>7. CASE Life!TimeUp \/ Life!WaitReturns
  <2>1. /\ exit = "none" /\ wait = "drain" /\ wait' = "returned"
        /\ UNCHANGED <<root, canceled, part, errCh, remaining, exit>>
        /\ \/ result' = "timeout"
           \/ remaining = 0 /\ result' = IF root THEN "nil" ELSE result
    BY <1>7 DEF Life!TimeUp, Life!WaitReturns, Life!Give, Life!Alive
  <2>2. Life!LifeTypeOK'
    <3>1. (root \in BOOLEAN /\ canceled \in BOOLEAN /\ Len(errCh) <= 2)'
      BY <1>0, <2>1 DEF FrameInv, TypeOK, Life!LifeTypeOK
    <3>2. result' \in Life!Results \cup {"timeout"}
      BY <1>0, <2>1 DEF Life!Results
    <3> QED BY <1>0, <2>1, <3>1, <3>2 DEF Life!LifeTypeOK
  <2>3. ResultsCounted'
    BY <1>0, <2>1 DEF ResultsCounted, Reported, Life!Ended
  <2>4. FirstErrorKept' /\ ExitAfterWait'
    BY <1>0, <2>1 DEF FirstErrorKept, ExitAfterWait
  <2> QED BY <2>2, <2>3, <2>4
<1>8. CASE Life!Exit
  <2>1. /\ wait = "returned" /\ exit' = IF result = "nil" THEN "ok" ELSE "failed"
        /\ UNCHANGED <<root, canceled, part, errCh, wait, remaining, result>>
    BY <1>8 DEF Life!Exit
  <2>2. Life!LifeTypeOK'
    BY <1>0, <2>1 DEF FrameInv, TypeOK, Life!LifeTypeOK
  <2>3. ResultsCounted' /\ FirstErrorKept' /\ ExitAfterWait'
    BY <1>0, <2>1 DEF ResultsCounted, Reported, Life!Ended, FirstErrorKept, ExitAfterWait
  <2> QED BY <2>2, <2>3
<1>9. CASE UNCHANGED <<canceled, frameVars>>
  <2>1. Life!LifeTypeOK'
    BY <1>9 DEF frameVars, FrameInv, TypeOK, Life!LifeTypeOK
  <2>2. ResultsCounted' /\ FirstErrorKept' /\ ExitAfterWait'
    BY <1>0, <1>9 DEF frameVars, ResultsCounted, Reported, Life!Ended, FirstErrorKept, ExitAfterWait
  <2> QED BY <2>1, <2>2
<1> HIDE DEF Kept
<1> QED BY <1>2, <1>3, <1>4, <1>5, <1>6, <1>7, <1>8, <1>9, FrameView

(* The types of pool, frame and Run loop hold in every state, results are  *)
(* counted, and Wait keeps the first error.                                *)
THEOREM FrameInvariance == Spec => []FrameInv
BY PoolInvariance, FrameInitInv, FrameStepInv, PTL DEF Spec

(* Type correctness of the process.                                        *)
THEOREM TypeCorrect == Spec => []TypeOK
<1>1. FrameInv => TypeOK
  BY DEF FrameInv
<1> QED BY <1>1, FrameInvariance, PTL

(* main exits with 0 only after a signal, whatever fails in whatever order *)
(* while the process is being stopped.                                     *)
THEOREM ExitCodeHonest == Spec => []ExitZeroMeansSignal
<1>1. FrameInv => ExitZeroMeansSignal
  BY DEF FrameInv, FirstErrorKept, ExitAfterWait, ExitZeroMeansSignal, Life!ExitZeroMeansSignal
<1> QED BY <1>1, FrameInvariance, PTL

(* The deferred calls of run close nothing that a goroutine still uses,    *)
(* unless the shutdown time-out has passed.                                *)
THEOREM NothingClosedEarly == Spec => []ClosedAfterUse
<1>1. FrameInv => ClosedAfterUse
  BY DEF FrameInv, TypeOK, Life!LifeTypeOK, ResultsCounted, Reported, ExitAfterWait, ClosedAfterUse,
         Life!ClosedAfterUse, Life!Part
<1> QED BY <1>1, FrameInvariance, PTL
=============================================================================
