-------------------------- MODULE ProcessorProofs --------------------------
(***************************************************************************)
(* Theorems about Processor, for any set of operations.  The invariant     *)
(* follows each result from the context that decided it to the joined      *)
(* error: contexts keep their first reason, so an operation that was       *)
(* called off carries the reason its context still has.                    *)
(***************************************************************************)
EXTENDS Processor, TLAPS

(* A sent result is the answer the payload calls for, an error of the      *)
(* operation itself, or the reason the context ended for.                  *)
ResultsExplained ==
    \A o \in Operation :
        /\ outcome[o] \in {"success", "failure"} => outcome[o] = Business(o)
        /\ outcome[o] \in CtxErrors => outcome[o] = ctx

(* Every error that was received is in the joined error, and every         *)
(* cancellation or time-out in it is the reason of the context.            *)
ErrorsJoined ==
    /\ \A o \in collected : outcome[o] \in Errors => outcome[o] \in joined
    /\ \A e \in joined \cap CtxErrors : e = ctx

(* Why the context of the operations may have ended.                       *)
ContextExplained ==
    /\ ctx # "nil" => limit # "nil" \/ "technical" \in joined
    /\ ctx = "canceled" => worker # "nil" \/ joined \cap {"technical", "deadline"} # {}

(* An error has something in it, verdicts and decisions are earned.        *)
AnswerExplained ==
    /\ answer = "error" => joined # {}
    /\ VerdictFromPayload
    /\ RetryOrStop

IInv == TypeOK /\ ResultsExplained /\ ErrorsJoined /\ ContextExplained /\ AnswerExplained

(* Process starts with nothing sent, joined or answered.                   *)
LEMMA InitIInv == Init => IInv
BY DEF Init, IInv, TypeOK, ResultsExplained, ErrorsJoined, ContextExplained, AnswerExplained,
       VerdictFromPayload, RetryOrStop, Errors, CtxErrors

(* Every step of Process and processRecord keeps the types.                *)
LEMMA TypeNext == TypeOK /\ [Next]_vars => TypeOK'
<1> SUFFICES ASSUME TypeOK, [Next]_vars PROVE TypeOK'
  OBVIOUS
<1> USE DEF TypeOK
<1>1. CASE Shutdown
  BY <1>1 DEF Shutdown, First, CtxErrors
<1>2. CASE Timeout
  BY <1>2 DEF Timeout, First, CtxErrors
<1>3. ASSUME NEW o \in Operation, Execute(o) PROVE TypeOK'
  <2>1. PICK r \in {"success", "failure"} \cup Errors : Send(o, r)
    BY <1>3 DEF Execute, Answers, Business, Errors
  <2> QED BY <2>1 DEF Send
<1>4. ASSUME NEW o \in Operation, Collect(o) PROVE TypeOK'
  BY <1>4 DEF Collect, Take, First, CtxErrors
<1>5. CASE Answer
  BY <1>5 DEF Answer, Verdict
<1>6. CASE Decide
  BY <1>6 DEF Decide
<1>7. CASE UNCHANGED vars
  BY <1>7 DEF vars
<1> QED BY <1>1, <1>2, <1>3, <1>4, <1>5, <1>6, <1>7 DEF Next

(* Every step keeps the invariant.  Collect is the step that cancels the   *)
(* siblings: only for a technical error can it be the first to do so.      *)
LEMMA StepIInv == IInv /\ [Next]_vars => IInv'
<1> SUFFICES ASSUME IInv, [Next]_vars PROVE IInv'
  OBVIOUS
<1> USE DEF IInv
<1>0. TypeOK'
  BY TypeNext
<1>1. CASE Shutdown
  <2>1. ResultsExplained'
    BY <1>1 DEF Shutdown, First, ResultsExplained, Business, CtxErrors
  <2>2. ErrorsJoined'
    BY <1>1 DEF Shutdown, First, ErrorsJoined, CtxErrors
  <2>3. ContextExplained'
    BY <1>1 DEF Shutdown, First, ContextExplained
  <2>4. AnswerExplained'
    BY <1>1 DEF Shutdown, AnswerExplained, VerdictFromPayload, RetryOrStop, Deserved
  <2> QED BY <1>0, <2>1, <2>2, <2>3, <2>4
<1>2. CASE Timeout
  <2>1. ResultsExplained'
    BY <1>2 DEF Timeout, First, ResultsExplained, Business, CtxErrors
  <2>2. ErrorsJoined'
    BY <1>2 DEF Timeout, First, ErrorsJoined, CtxErrors
  <2>3. ContextExplained'
    BY <1>2 DEF Timeout, First, ContextExplained
  <2>4. AnswerExplained'
    BY <1>2 DEF Timeout, AnswerExplained, VerdictFromPayload, RetryOrStop, Deserved
  <2> QED BY <1>0, <2>1, <2>2, <2>3, <2>4
<1>3. ASSUME NEW o \in Operation, Execute(o) PROVE IInv'
  <2>1. PICK r \in IF ctx # "nil" THEN {ctx} ELSE Answers(o) : Send(o, r)
    BY <1>3 DEF Execute
  <2>2. /\ r \in {"success", "failure"} => r = Business(o)
        /\ r \in CtxErrors => r = ctx
    BY <2>1 DEF Answers, Business, CtxErrors, TypeOK
  <2>3. ResultsExplained'
    BY <2>1, <2>2 DEF Send, ResultsExplained, Business, TypeOK
  <2>4. ErrorsJoined'
    BY <2>1 DEF Send, ErrorsJoined, TypeOK
  <2>5. ContextExplained'
    BY <2>1 DEF Send, ContextExplained
  <2>6. AnswerExplained'
    BY <2>1 DEF Send, AnswerExplained, VerdictFromPayload, RetryOrStop, Deserved
  <2> QED BY <1>0, <2>3, <2>4, <2>5, <2>6
<1>4. ASSUME NEW o \in Operation, Collect(o) PROVE IInv'
  <2> USE <1>4 DEF Collect, Take
  <2>1. outcome[o] \in CtxErrors => ctx = outcome[o] /\ ctx # "nil"
    BY DEF ResultsExplained, CtxErrors
  <2>2. ctx' = IF outcome[o] = "technical" /\ ctx = "nil" THEN "canceled" ELSE ctx
    BY <2>1 DEF Failed, First, Errors
  <2>3. outcome[o] = "technical" => "technical" \in joined'
    BY DEF Errors
  <2>4. ResultsExplained'
    BY <2>2 DEF ResultsExplained, Business, CtxErrors
  <2>5. ErrorsJoined'
    BY <2>1, <2>2 DEF ErrorsJoined, Errors, CtxErrors
  <2>6. ContextExplained'
    BY <2>2, <2>3 DEF ContextExplained
  <2>7. AnswerExplained'
    BY DEF AnswerExplained, VerdictFromPayload, RetryOrStop, Deserved
  <2> QED BY <1>0, <2>4, <2>5, <2>6, <2>7
<1>5. CASE Answer
  <2> USE <1>5 DEF Answer
  <2>1. ResultsExplained' /\ ErrorsJoined' /\ ContextExplained'
    BY DEF ResultsExplained, ErrorsJoined, ContextExplained, Business
  <2>2. VerdictFromPayload'
    <3> SUFFICES ASSUME answer' \in {"CONFIRMED", "FAILED"} PROVE answer' = Deserved'
      BY DEF VerdictFromPayload
    <3>1. joined = {}
      BY DEF Verdict
    <3>2. \A o \in Operation : outcome[o] = Business(o)
      BY <3>1 DEF TypeOK, ErrorsJoined, ResultsExplained
    <3> QED BY <3>1, <3>2, ProcessorAssumption DEF Verdict, Deserved, Business
  <2>3. (answer' = "error" => joined' # {}) /\ RetryOrStop'
    BY DEF Verdict, AnswerExplained, RetryOrStop
  <2> QED BY <1>0, <2>1, <2>2, <2>3 DEF AnswerExplained
<1>6. CASE Decide
  <2> USE <1>6 DEF Decide
  <2>1. ResultsExplained' /\ ErrorsJoined' /\ ContextExplained'
    BY DEF ResultsExplained, ErrorsJoined, ContextExplained, Business
  <2>2. (answer' = "error" => joined' # {}) /\ VerdictFromPayload'
    BY DEF AnswerExplained, VerdictFromPayload, Deserved
  <2>3. ASSUME decision' = "retry" PROVE joined \cap {"technical", "deadline"} # {}
    <3>1. joined # {} /\ joined \subseteq Errors /\ ~Stops
      BY <2>3 DEF AnswerExplained, TypeOK
    <3>2. CASE "canceled" \notin joined
      BY <3>1, <3>2 DEF Errors, CtxErrors
    <3>3. CASE "canceled" \in joined
      <4>1. ctx = "canceled" /\ worker = "nil"
        BY <3>1, <3>3 DEF ErrorsJoined, CtxErrors, Stops
      <4> QED BY <4>1 DEF ContextExplained
    <3> QED BY <3>2, <3>3
  <2>4. decision' = "stop" => worker' # "nil"
    BY DEF Stops
  <2> QED BY <1>0, <2>1, <2>2, <2>3, <2>4 DEF AnswerExplained, RetryOrStop
<1>7. CASE UNCHANGED vars
  BY <1>0, <1>7 DEF vars, ResultsExplained, ErrorsJoined, ContextExplained, AnswerExplained,
                    VerdictFromPayload, RetryOrStop, Deserved, Business
<1> QED BY <1>1, <1>2, <1>3, <1>4, <1>5, <1>6, <1>7 DEF Next

(* Results, joined errors and contexts of Process explain each other.      *)
THEOREM Invariance == Spec => []IInv
BY InitIInv, StepIInv, PTL DEF Spec

(* Contexts, results, joined errors and decisions keep their types.        *)
THEOREM TypeCorrect == Spec => []TypeOK
<1>1. IInv => TypeOK
  BY DEF IInv
<1> QED BY <1>1, Invariance, PTL

(* The verdict Process returns is the one the payload of the order calls   *)
(* for, in whatever order operations run, fail and are collected.          *)
THEOREM VerdictCorrect == Spec => []VerdictFromPayload
<1>1. IInv => VerdictFromPayload
  BY DEF IInv, AnswerExplained
<1> QED BY <1>1, Invariance, PTL

(* processRecord charges an attempt only for an error or a time-out, and   *)
(* leaves a record unhandled only when its worker is ending.               *)
THEOREM DecisionCorrect == Spec => []RetryOrStop
<1>1. IInv => RetryOrStop
  BY DEF IInv, AnswerExplained
<1> QED BY <1>1, Invariance, PTL

(* Cancellation of siblings alone never makes Process fail.                *)
THEOREM CauseCorrect == Spec => []ErrorHasCause
<1>1. IInv => ErrorHasCause
  BY DEF IInv, AnswerExplained, ErrorHasCause, ContextExplained, ErrorsJoined, TypeOK, Errors, CtxErrors
<1> QED BY <1>1, Invariance, PTL
=============================================================================
