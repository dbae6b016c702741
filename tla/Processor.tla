----------------------------- MODULE Processor -----------------------------
(***************************************************************************)
(* processing.Process for one order: the operations run concurrently under *)
(* one context, their results come through a channel with room for all of  *)
(* them, the first error cancels the siblings, and the verdict is taken    *)
(* when every result is in.  With it goes what processRecord makes of the  *)
(* answer, which depends on why it failed.                                 *)
(*                                                                         *)
(* Operations look at the context once, when they start.  The three of     *)
(* today fail for no other reason; Operation allows errors of their own,   *)
(* here those of Flaky.                                                    *)
(***************************************************************************)
EXTENDS Integers, FiniteSets

CONSTANTS
    Operation,  \* the operations the processor is built with
    Required,   \* those whose Outcome is Required
    Flaky,      \* those that may fail for a technical reason
    Refusing    \* those whose business answer for some order is a failure

ASSUME ProcessorAssumption ==
    /\ Operation # {}
    /\ IsFiniteSet(Operation)
    /\ Required \subseteq Operation
    /\ Flaky \subseteq Operation
    /\ Refusing \subseteq Operation

VARIABLES
    refuses,    \* operations that refuse this order, fixed by its payload
    worker,     \* Err() of the context of the worker process
    limit,      \* Err() of processCtx, its child with a time-out
    ctx,        \* Err() of the context of the operations, a child of that
    outcome,    \* result of each operation once it has been sent
    collected,  \* operations whose result was received
    joined,     \* errors joined so far
    answer,     \* what Process returns
    decision    \* how processRecord goes on

vars == <<refuses, worker, limit, ctx, outcome, collected, joined, answer, decision>>

CtxErrors == {"canceled", "deadline"}
Errors == CtxErrors \cup {"technical"}

TypeOK ==
    /\ refuses \subseteq Refusing
    /\ worker \in {"nil", "canceled"}
    /\ limit \in {"nil"} \cup CtxErrors
    /\ ctx \in {"nil"} \cup CtxErrors
    /\ outcome \in [Operation -> {"none", "success", "failure"} \cup Errors]
    /\ collected \subseteq {o \in Operation : outcome[o] # "none"}
    /\ joined \subseteq Errors
    /\ answer \in {"none", "CONFIRMED", "FAILED", "error"}
    /\ decision \in {"none", "complete", "retry", "stop"}

Init ==
    /\ refuses \in SUBSET Refusing
    /\ worker = "nil"
    /\ limit = "nil"
    /\ ctx = "nil"
    /\ outcome = [o \in Operation |-> "none"]
    /\ collected = {}
    /\ joined = {}
    /\ answer = "none"
    /\ decision = "none"

(* A context keeps the first reason it ended for.                          *)
First(old, new) == IF old = "nil" THEN new ELSE old

(* SIGTERM, or the failure of another part of the process.                 *)
Shutdown ==
    /\ worker' = "canceled"
    /\ limit' = First(limit, "canceled")
    /\ ctx' = First(ctx, "canceled")
    /\ UNCHANGED <<refuses, outcome, collected, joined, answer, decision>>

(* ORDER_PROCESSING_TIMEOUT passes; processRecord cancels it afterwards.   *)
Timeout ==
    /\ answer = "none"
    /\ limit' = First(limit, "deadline")
    /\ ctx' = First(ctx, "deadline")
    /\ UNCHANGED <<refuses, worker, outcome, collected, joined, answer, decision>>

Business(o) == IF o \in refuses THEN "failure" ELSE "success"

Send(o, r) ==
    /\ outcome[o] = "none"
    /\ outcome' = [outcome EXCEPT ![o] = r]
    /\ UNCHANGED <<refuses, worker, limit, ctx, collected, joined, answer, decision>>

Answers(o) == {Business(o)} \cup (IF o \in Flaky THEN {"technical"} ELSE {})

(* Mutant of Execute: an operation that is called off sends nothing.       *)
ExecuteSilently(o) == ctx = "nil" /\ \E r \in Answers(o) : Send(o, r)

(* Execute looks at the context and answers; the send never blocks.        *)
Execute(o) == \E r \in IF ctx # "nil" THEN {ctx} ELSE Answers(o) : Send(o, r)

Failed(o) == outcome[o] \in Errors

(* A result is received, its error joined; cancel() if so.                 *)
Take(o, cancels) ==
    /\ o \notin collected
    /\ collected' = collected \cup {o}
    /\ joined' = joined \cup ({outcome[o]} \cap Errors)
    /\ ctx' = IF cancels THEN First(ctx, "canceled") ELSE ctx
    /\ UNCHANGED <<refuses, worker, limit, outcome, answer, decision>>

(* Mutant of Collect: the results are read from slots, sent or not.        *)
CollectUnsent(o) == Take(o, Failed(o))

(* Mutant of Collect: a refusal cancels the siblings too.                  *)
CollectRefusal(o) == outcome[o] # "none" /\ Take(o, outcome[o] # "success")

(* One round of the receiving loop; an error is joined and cancels.        *)
Collect(o) == outcome[o] # "none" /\ Take(o, Failed(o))

(* Mutant of Verdict: an outcome counts as a success unless it is a        *)
(* business failure, and errors are not looked at.                         *)
VerdictOptimistic == IF \E o \in Required : outcome[o] = "failure" THEN "FAILED" ELSE "CONFIRMED"

Verdict ==
    IF joined # {} THEN "error"
    ELSE IF \E o \in Required : outcome[o] = "failure" THEN "FAILED" ELSE "CONFIRMED"

(* All results are in; the deferred cancel has nobody left to reach.       *)
Answer ==
    /\ answer = "none"
    /\ collected = Operation
    /\ answer' = Verdict
    /\ UNCHANGED <<refuses, worker, limit, ctx, outcome, collected, joined, decision>>

(* Mutant of Stops: the state of the worker's own context is not asked.    *)
StopsOnAnyCancel == "canceled" \in joined

(* errors.Is(err, context.Canceled) && ctx.Err() != nil                    *)
Stops == "canceled" \in joined /\ worker # "nil"

(* processRecord: settle the order, put the record on the retry topic, or  *)
(* leave it uncommitted.                                                   *)
Decide ==
    /\ answer # "none"
    /\ decision = "none"
    /\ decision' = IF answer # "error" THEN "complete" ELSE IF Stops THEN "stop" ELSE "retry"
    /\ UNCHANGED <<refuses, worker, limit, ctx, outcome, collected, joined, answer>>

Next ==
    \/ Shutdown
    \/ Timeout
    \/ \E o \in Operation : Execute(o) \/ Collect(o)
    \/ Answer
    \/ Decide

Spec == Init /\ [][Next]_vars

(* Goroutines are scheduled; operations do not wait for anything.          *)
Fairness ==
    /\ \A o \in Operation : WF_vars(Execute(o)) /\ WF_vars(Collect(o))
    /\ WF_vars(Answer)
    /\ WF_vars(Decide)

FairSpec == Spec /\ Fairness

-----------------------------------------------------------------------------
(* Properties.                                                             *)

(* The verdict the payload calls for.                                      *)
Deserved == IF refuses \cap Required # {} THEN "FAILED" ELSE "CONFIRMED"

(* Whatever the order in which operations run, fail, are canceled and are  *)
(* collected, an order is given the verdict its payload calls for or none: *)
(* a canceled or failed operation counts neither as a success nor as a     *)
(* refusal.  Consumer takes the verdict to be a constant on this ground.   *)
VerdictFromPayload == answer \in {"CONFIRMED", "FAILED"} => answer = Deserved

(* Process fails for a reason that lies outside the cancellation of        *)
(* siblings: an operation failed by itself, or the time-out or the         *)
(* shutdown ended its context.  A refused order is therefore settled, and  *)
(* never retried because its siblings were called off.                     *)
ErrorHasCause == answer = "error" => "technical" \in joined \/ limit # "nil"

(* A record is charged an attempt only for an error or a time-out, never    *)
(* for the shutdown of its worker; and it is left unhandled, which ends    *)
(* the whole batch, only when the worker is ending anyway.  Called off     *)
(* siblings report cancellations too, and must be taken for neither.       *)
RetryOrStop ==
    /\ decision = "retry" => joined \cap {"technical", "deadline"} # {}
    /\ decision = "stop" => worker # "nil"

(* Process returns and the record moves on, with no goroutine left behind. *)
AlwaysDecides == <>(decision # "none" /\ \A o \in Operation : outcome[o] # "none")
=============================================================================
