----------------------------- MODULE WorkerMain -----------------------------
(***************************************************************************)
(* One order-worker process from the inside: its Run loop hands batches to *)
(* the worker pool, under the contexts and the shutdown of Lifecycle.  The *)
(* module Consumer has many such processes, and takes each of them to be   *)
(* either at work or down.                                                 *)
(***************************************************************************)
EXTENDS WorkerPool, Sequences

CONSTANT MaxPolls  \* bound: batches a process polls

ASSUME MaxPollsAssumption == MaxPolls \in Nat

VARIABLES
    root, part, errCh, wait, remaining, result, exit,  \* of Lifecycle
    run,      \* where Consumer.Run is: "poll", "pool" or "commit"
    blocked,  \* rebalances are blocked: a poll without its AllowRebalance
    polls     \* batches polled so far

Life == INSTANCE Lifecycle WITH ctx <- canceled

runVars == <<run, blocked, polls>>
workVars == <<call, size, fed, goroutine, job, errorsByIndex, handled>>
frameVars == <<root, part, errCh, wait, remaining, result, exit>>
vars == <<poolVars, frameVars, runVars>>

TypeOK ==
    /\ PoolTypeOK
    /\ Life!LifeTypeOK
    /\ run \in {"poll", "pool", "commit"}
    /\ blocked \in BOOLEAN
    /\ polls \in 0 .. MaxPolls

Init ==
    /\ PoolInit
    /\ Life!LifeInit
    /\ run = "poll"
    /\ blocked = FALSE
    /\ polls = 0

InRun(at) == Life!Alive /\ ~Life!Ended("app") /\ run = at

(* PollRecords returns n records and ctx is alive: they go to the pool.    *)
Poll(n) ==
    /\ InRun("poll")
    /\ polls < MaxPolls
    /\ ~canceled
    /\ Call(n)
    /\ run' = "pool"
    /\ blocked' = TRUE
    /\ polls' = polls + 1
    /\ UNCHANGED frameVars

(* ctx has ended: Run returns nil.  If the poll has records all the same,  *)
(* it does so without AllowRebalance.                                      *)
PollEnded ==
    /\ InRun("poll")
    /\ canceled
    /\ Life!Report("app", "nil")
    /\ blocked' \in BOOLEAN
    /\ UNCHANGED <<workVars, run, polls>>

(* The pool answers: the batch is committed if no entry is an error.       *)
BatchDone ==
    /\ InRun("pool")
    /\ \A i \in 1 .. size : errorsByIndex[i] = "nil"
    /\ Return
    /\ run' = "commit"
    /\ UNCHANGED <<frameVars, blocked, polls>>

BatchFailed ==
    /\ InRun("pool")
    /\ \E i \in 1 .. size : errorsByIndex[i] # "nil"
    /\ Return
    /\ Life!Report("app", "error")
    /\ blocked' = FALSE
    /\ UNCHANGED <<run, polls>>

(* CommitRecords, which a canceled context fails.                          *)
Commit ==
    /\ InRun("commit")
    /\ ~canceled
    /\ run' = "poll"
    /\ blocked' = FALSE
    /\ UNCHANGED <<poolVars, frameVars, polls>>

CommitFails ==
    /\ InRun("commit")
    /\ Life!Report("app", "error")
    /\ blocked' = FALSE
    /\ UNCHANGED <<workVars, run, polls>>

(* consumerClient.Close leaves the group, and waits for a poll that has    *)
(* not allowed rebalances: nobody calls AllowRebalance any more.           *)
CloseAndExit == ~blocked /\ Life!Exit /\ UNCHANGED <<workVars, runVars>>

PoolWorks == Life!Alive /\ PoolStep /\ UNCHANGED <<frameVars, runVars>>
Signal == Life!Signal /\ UNCHANGED <<workVars, runVars>>
HealthServes == Life!ServeStep /\ UNCHANGED <<workVars, runVars>>
MainWaits == Life!WaitStep /\ UNCHANGED <<workVars, runVars>>

Next ==
    \/ \E n \in Item : Poll(n)
    \/ PollEnded
    \/ PoolWorks
    \/ BatchDone
    \/ BatchFailed
    \/ Commit
    \/ CommitFails
    \/ Signal
    \/ HealthServes
    \/ MainWaits
    \/ CloseAndExit

Spec == Init /\ [][Next]_vars

(* Goroutines are scheduled, handlers and calls end by their time-outs,    *)
(* and the timer of Wait fires.                                            *)
Fairness ==
    /\ WF_vars(PoolWorks)
    /\ WF_vars(BatchDone \/ BatchFailed)
    /\ WF_vars(PollEnded)
    /\ WF_vars(Commit \/ CommitFails)
    /\ WF_vars(MainWaits)
    /\ WF_vars(CloseAndExit)

FairSpec == Spec /\ Fairness

-----------------------------------------------------------------------------
(* Properties.                                                             *)

ExitZeroMeansSignal == Life!ExitZeroMeansSignal
ClosedAfterUse == Life!ClosedAfterUse

(* A poll came back with records just when the context ended, and Run has  *)
(* returned without AllowRebalance.                                        *)
PollAbandoned == Life!Ended("app") /\ blocked

(* A signal, or the failure of either goroutine, ends the process, and so  *)
(* lets the orchestrator start it again, even if a handler or the health   *)
(* server does not stop in time.  The one exception is an abandoned poll.  *)
FailureEndsProcess ==
    (root \/ \E p \in Life!Part : part[p] = "error") ~> (exit # "none" \/ PollAbandoned)
=============================================================================
