----------------------------- MODULE WorkerPool -----------------------------
(***************************************************************************)
(* workerpool.Process: a feeder that sends the items of a batch over an    *)
(* unbuffered channel, worker goroutines that receive them, and a slice of *)
(* errors, one per item, whose entries are nil before anything happened.   *)
(***************************************************************************)
EXTENDS Integers, FiniteSets

CONSTANTS
    MaxItems,  \* bound: items in one call
    Workers    \* the argument workers

ASSUME PoolAssumption == MaxItems \in Nat \ {0} /\ Workers \in Nat \ {0}

Item == 1 .. MaxItems
Worker == 1 .. Workers

VARIABLES
    canceled,       \* ctx.Err() != nil
    call,           \* "idle", "feeding" (the send loop) or "waiting" (wg.Wait)
    size,           \* len(items)
    fed,            \* items sent on jobs so far
    goroutine,      \* state of each worker goroutine
    job,            \* the item it has received, 0 before the first
    errorsByIndex,  \* the result, nil to begin with
    handled         \* history: items whose handler was called and returned nil

poolVars == <<canceled, call, size, fed, goroutine, job, errorsByIndex, handled>>

(* "ready": at the receive; "taken": has a job, about to look at ctx;      *)
(* "running": in the handler; "gone": not started, or returned.            *)
PoolTypeOK ==
    /\ canceled \in BOOLEAN
    /\ call \in {"idle", "feeding", "waiting"}
    /\ size \in 0 .. MaxItems
    /\ fed \in 0 .. size
    /\ goroutine \in [Worker -> {"gone", "ready", "taken", "running"}]
    /\ job \in [Worker -> 0 .. MaxItems]
    /\ errorsByIndex \in [Item -> {"nil", "failed", "canceled"}]
    /\ handled \subseteq Item

PoolInit ==
    /\ canceled = FALSE
    /\ call = "idle"
    /\ size = 0
    /\ fed = 0
    /\ goroutine = [w \in Worker |-> "gone"]
    /\ job = [w \in Worker |-> 0]
    /\ errorsByIndex = [i \in Item |-> "nil"]
    /\ handled = {}

(* min(workers, max(1, len(items))) goroutines for n > 0 items; neither    *)
(* caller comes with an empty batch.                                       *)
Crew(n) == {w \in Worker : w <= n}

Call(n) ==
    /\ call = "idle"
    /\ call' = "feeding"
    /\ size' = n
    /\ fed' = 0
    /\ goroutine' = [w \in Worker |-> IF w \in Crew(n) THEN "ready" ELSE "gone"]
    /\ job' = [w \in Worker |-> 0]
    /\ errorsByIndex' = [i \in Item |-> "nil"]
    /\ handled' = {}
    /\ UNCHANGED canceled

(* A send and a receive meet: the channel has no buffer.                   *)
HandOver(w) ==
    /\ call = "feeding"
    /\ goroutine[w] = "ready"
    /\ fed' = fed + 1
    /\ job' = [job EXCEPT ![w] = fed + 1]
    /\ goroutine' = [goroutine EXCEPT ![w] = "taken"]
    /\ UNCHANGED <<canceled, call, size, errorsByIndex, handled>>

(* Mutant of Send: the loop runs one index too far.                        *)
SendPastEnd(w) == fed <= size /\ HandOver(w)

(* The send loop, one round.                                               *)
Send(w) == fed < size /\ HandOver(w)

(* The context has ended: the item gets an error and the loop goes on.     *)
Refuse(w) ==
    /\ goroutine[w] = "taken"
    /\ canceled
    /\ errorsByIndex' = [errorsByIndex EXCEPT ![job[w]] = "canceled"]
    /\ goroutine' = [goroutine EXCEPT ![w] = "ready"]
    /\ UNCHANGED <<canceled, call, size, fed, job, handled>>

(* Mutant of Begin: the context is not looked at.                          *)
BeginAnyhow(w) ==
    /\ goroutine[w] = "taken"
    /\ goroutine' = [goroutine EXCEPT ![w] = "running"]
    /\ UNCHANGED <<canceled, call, size, fed, job, errorsByIndex, handled>>

(* The handler is called.                                                  *)
Begin(w) ==
    /\ goroutine[w] = "taken"
    /\ ~canceled
    /\ goroutine' = [goroutine EXCEPT ![w] = "running"]
    /\ UNCHANGED <<canceled, call, size, fed, job, errorsByIndex, handled>>

(* The handler returns; it may or may not have seen the context end.       *)
Finish(w) ==
    /\ goroutine[w] = "running"
    /\ \E r \in {"nil", "failed"} :
          /\ errorsByIndex' = [errorsByIndex EXCEPT ![job[w]] = r]
          /\ handled' = IF r = "nil" THEN handled \cup {job[w]} ELSE handled
    /\ goroutine' = [goroutine EXCEPT ![w] = "ready"]
    /\ UNCHANGED <<canceled, call, size, fed, job>>

CloseJobs ==
    /\ call = "feeding"
    /\ fed = size
    /\ call' = "waiting"
    /\ UNCHANGED <<canceled, size, fed, goroutine, job, errorsByIndex, handled>>

(* range jobs ends once the channel is closed: wg.Done.                    *)
Leave(w) ==
    /\ call = "waiting"
    /\ goroutine[w] = "ready"
    /\ goroutine' = [goroutine EXCEPT ![w] = "gone"]
    /\ UNCHANGED <<canceled, call, size, fed, job, errorsByIndex, handled>>

(* Mutant of Return: nobody waits for the group.                           *)
ReturnEarly ==
    /\ call = "waiting"
    /\ call' = "idle"
    /\ UNCHANGED <<canceled, size, fed, goroutine, job, errorsByIndex, handled>>

(* wg.Wait, and the slice goes to the caller.                              *)
Return ==
    /\ call = "waiting"
    /\ \A w \in Worker : goroutine[w] = "gone"
    /\ call' = "idle"
    /\ UNCHANGED <<canceled, size, fed, goroutine, job, errorsByIndex, handled>>

Cancel ==
    /\ canceled' = TRUE
    /\ UNCHANGED <<call, size, fed, goroutine, job, errorsByIndex, handled>>

PoolStep == CloseJobs \/ \E w \in Worker : Send(w) \/ Refuse(w) \/ Begin(w) \/ Finish(w) \/ Leave(w)

PoolNext == PoolStep \/ Return \/ Cancel \/ \E n \in Item : Call(n)

PoolSpec == PoolInit /\ [][PoolNext]_poolVars

-----------------------------------------------------------------------------
(* Properties.                                                             *)

(* A nil in the slice that Process returns means that the handler was      *)
(* called for the item and returned nil.  nil is also what the slice       *)
(* starts with, so an item that is dropped, or still being handled when    *)
(* Process returns, would pass for a success and its offset be committed.  *)
NilMeansHandled ==
    call = "idle" => \A i \in 1 .. size : errorsByIndex[i] = "nil" => i \in handled

Held(w, i) == job[w] = i /\ goroutine[w] \in {"taken", "running"}

(* What the contract calls the result of item i.                           *)
ResultOf(i) ==
    IF i > size THEN "none"
    ELSE IF \E w \in Worker : job[w] = i /\ goroutine[w] = "running" THEN "running"
    ELSE IF i > fed \/ \E w \in Worker : Held(w, i) THEN "queued"
    ELSE errorsByIndex[i]

Contract == INSTANCE PoolContract WITH
    Limit <- Workers,
    result <- [i \in Item |-> ResultOf(i)],
    answered <- call = "idle"

(* The channel protocol implements the contract: each item is taken up     *)
(* once, by one goroutine, never after the context was seen to end, and no *)
(* more than Workers handlers overlap.                                     *)
ImplementsContract == Contract!Spec
=============================================================================
