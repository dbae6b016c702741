---------------------------- MODULE OutboxProofs ----------------------------
(***************************************************************************)
(* Proofs about Outbox for any number of rows, publishers, pool workers    *)
(* and abandoned statements.                                               *)
(***************************************************************************)
EXTENDS Outbox, TLAPS

RowsOK ==
    /\ status \in [Events -> Statuses]
    /\ lockedBy \in [Events -> Owners \cup {NoOwner}]
    /\ lockedUntil \in [Events -> {"null", "future", "past"}]
    /\ \A e \in Events : lockedBy[e] = NoOwner <=> lockedUntil[e] = "null"
    /\ due \in [Events -> BOOLEAN]

-----------------------------------------------------------------------------
(* Type correctness.                                                       *)

(* A closing statement (MarkPublished, Release, MarkFailed) leaves a row   *)
(* the schema accepts.                                                     *)
LEMMA ExecuteRows ==
    ASSUME TypeOK, NEW op \in Statements, NEW o \in Owners, NEW e \in Events,
           Execute(op, o, e)
    PROVE  RowsOK'
<1>1. CASE Owns(o, e)
  <2>1. NewStatus(op) \in Statuses
    BY DEF NewStatus, Statements, Statuses
  <2>2. /\ status' = [status EXCEPT ![e] = NewStatus(op)]
        /\ lockedBy' = [lockedBy EXCEPT ![e] = NoOwner]
        /\ lockedUntil' = [lockedUntil EXCEPT ![e] = "null"]
        /\ due' = [due EXCEPT ![e] = @ /\ op # "release"]
    BY <1>1 DEF Execute
  <2> QED BY <2>1, <2>2 DEF TypeOK, RowsOK
<1>2. CASE ~Owns(o, e)
  BY <1>2 DEF Execute, rowVars, TypeOK, RowsOK
<1> QED BY <1>1, <1>2

(* A claim leaves rows the schema accepts.                                 *)
LEMMA LockRowsRows ==
    ASSUME TypeOK, NEW o \in Owners, NEW S \in SUBSET Events, LockRows(o, S)
    PROVE  RowsOK'
BY OutboxAssumption DEF TypeOK, RowsOK, LockRows, Statuses

(* Claim picks its rows among the claimable ones.                          *)
LEMMA CandidatesClaimable ==
    ASSUME NEW S \in Candidates
    PROVE  S \subseteq Events /\ \A e \in S : Claimable(e)
BY DEF Candidates

(* The next-state relation as a list of cases, to be cited by every proof  *)
(* that goes through the actions one by one.                               *)
LEMMA NextCases ==
    ASSUME Next
    PROVE  \/ \E e \in Events : Insert(e) \/ LeaseExpires(e) \/ BecomesDue(e)
           \/ \E o \in Owners : \/ Claim(o) \/ ClaimError(o) \/ LateClaim(o)
                                \/ LateClaimDrop(o) \/ Terminate(o)
           \/ \E o \in Owners, e \in Events :
                 \/ Start(o, e) \/ PublishAck(o, e) \/ PublishError(o, e)
                 \/ Close(o, e) \/ Abandon(o, e)
           \/ \E o \in Owners, e \in Events, op \in Statements :
                 LateExecute(op, o, e) \/ LateDrop(op, o, e)
BY DEF Next

(* Every reachable state is well typed, and its rows satisfy the CHECK on  *)
(* locked_by and locked_until of the schema.                               *)
THEOREM TypeCorrect == Spec => []TypeOK
<1>1. Init => TypeOK
  BY OutboxAssumption DEF Init, TypeOK, Statuses, Stages
<1>2. TypeOK /\ [Next]_vars => TypeOK'
  <2> SUFFICES ASSUME TypeOK, [Next]_vars PROVE TypeOK'
    OBVIOUS
  <2> USE OutboxAssumption
  <2>1. ASSUME NEW e \in Events, Insert(e) PROVE TypeOK'
    BY <2>1 DEF Insert, TypeOK, Statuses
  <2>2. ASSUME NEW e \in Events, LeaseExpires(e) PROVE TypeOK'
    BY <2>2 DEF LeaseExpires, TypeOK
  <2>3. ASSUME NEW e \in Events, BecomesDue(e) PROVE TypeOK'
    BY <2>3 DEF BecomesDue, TypeOK
  <2>4. ASSUME NEW o \in Owners, Claim(o) PROVE TypeOK'
    <3>1. PICK S \in Candidates \ {{}} :
             /\ LockRows(o, S)
             /\ stage' = [stage EXCEPT ![o] =
                            [e \in Events |-> IF e \in S THEN "queued" ELSE "none"]]
      BY <2>4 DEF Claim
    <3>2. RowsOK'
      BY <3>1, CandidatesClaimable, LockRowsRows
    <3>3. stage' \in [Owners -> [Events -> Stages]]
      BY <3>1 DEF TypeOK, Stages
    <3> QED BY <2>4, <3>2, <3>3 DEF Claim, TypeOK, RowsOK
  <2>5. ASSUME NEW o \in Owners, ClaimError(o) PROVE TypeOK'
    BY <2>5 DEF ClaimError, TypeOK, rowVars
  <2>6. ASSUME NEW o \in Owners, LateClaim(o) PROVE TypeOK'
    <3>1. PICK S \in Candidates : LockRows(o, S)
      BY <2>6 DEF LateClaim
    <3>2. RowsOK'
      BY <3>1, CandidatesClaimable, LockRowsRows
    <3> QED BY <2>6, <3>2 DEF LateClaim, TypeOK, RowsOK
  <2>7. ASSUME NEW o \in Owners, LateClaimDrop(o) PROVE TypeOK'
    BY <2>7 DEF LateClaimDrop, TypeOK, rowVars
  <2>8. ASSUME NEW o \in Owners, Terminate(o) PROVE TypeOK'
    <3>1. PICK sent \in SUBSET {e \in Events : stage[o][e] \in Statements} :
             late' = late \cup {<<stage[o][e], o, e>> : e \in sent}
      BY <2>8 DEF Terminate
    <3>2. late' \subseteq Statements \X Owners \X Events
      BY <3>1 DEF TypeOK
    <3>3. topic' \subseteq Events
      BY <2>8 DEF Terminate, TypeOK
    <3>4. stage' \in [Owners -> [Events -> Stages]]
      BY <2>8 DEF Terminate, TypeOK, Stages
    <3> QED BY <2>8, <3>2, <3>3, <3>4 DEF Terminate, TypeOK, rowVars
  <2>9. ASSUME NEW o \in Owners, NEW e \in Events, Start(o, e) PROVE TypeOK'
    BY <2>9 DEF Start, TypeOK, Stages, Statements, rowVars
  <2>10. ASSUME NEW o \in Owners, NEW e \in Events, PublishAck(o, e) PROVE TypeOK'
    BY <2>10 DEF PublishAck, TypeOK, Stages, Statements, rowVars
  <2>11. ASSUME NEW o \in Owners, NEW e \in Events, PublishError(o, e) PROVE TypeOK'
    BY <2>11 DEF PublishError, TypeOK, Stages, Statements, rowVars
  <2>12. ASSUME NEW o \in Owners, NEW e \in Events, Close(o, e) PROVE TypeOK'
    <3>1. RowsOK'
      BY <2>12, ExecuteRows DEF Close
    <3>2. stage' \in [Owners -> [Events -> Stages]]
      BY <2>12 DEF Close, TypeOK, Stages
    <3> QED BY <2>12, <3>1, <3>2 DEF Close, TypeOK, RowsOK
  <2>13. ASSUME NEW o \in Owners, NEW e \in Events, Abandon(o, e) PROVE TypeOK'
    BY <2>13 DEF Abandon, TypeOK, Stages, rowVars
  <2>14. ASSUME NEW o \in Owners, NEW e \in Events, NEW op \in Statements,
                LateExecute(op, o, e)
         PROVE  TypeOK'
    <3>1. RowsOK'
      BY <2>14, ExecuteRows DEF LateExecute
    <3> QED BY <2>14, <3>1 DEF LateExecute, TypeOK, RowsOK
  <2>15. ASSUME NEW o \in Owners, NEW e \in Events, NEW op \in Statements,
                LateDrop(op, o, e)
         PROVE  TypeOK'
    BY <2>15 DEF LateDrop, TypeOK, rowVars
  <2>16. CASE UNCHANGED vars
    BY <2>16 DEF vars, TypeOK
  <2> QED BY <2>1, <2>2, <2>3, <2>4, <2>5, <2>6, <2>7, <2>8, <2>9, <2>10, <2>11,
             <2>12, <2>13, <2>14, <2>15, <2>16, NextCases
<1> QED BY <1>1, <1>2, PTL DEF Spec

-----------------------------------------------------------------------------
(* What reaches Kafka and how rows end.                                    *)

(* The handler's progress decides which statements it may still send, and  *)
(* those may outlive it: "mark" is due or under way only for events Kafka  *)
(* has, "fail" only for invalid ones, and these are never published.       *)
Provenance ==
    /\ \A o \in Owners, e \in Events :
          /\ stage[o][e] \in {"publish", "mark", "release"} => e \notin Invalid
          /\ stage[o][e] = "fail" => e \in Invalid
          /\ stage[o][e] = "mark" => e \in topic
    /\ \A o \in Owners, e \in Events :
          /\ <<"mark", o, e>> \in late => e \in topic
          /\ <<"fail", o, e>> \in late => e \in Invalid

OutcomeInv == TypeOK /\ Provenance /\ PublishedIsOnTopic /\ PoisonContained

(* A closing statement with the right provenance keeps the outcomes right. *)
LEMMA ExecuteOutcome ==
    ASSUME OutcomeInv, NEW op \in Statements, NEW o \in Owners, NEW e \in Events,
           Execute(op, o, e), topic' = topic,
           op = "mark" => e \in topic,
           op = "fail" => e \in Invalid
    PROVE  PublishedIsOnTopic' /\ PoisonContained'
<1>1. /\ op = "mark" => NewStatus(op) = "PUBLISHED"
      /\ op = "release" => NewStatus(op) = "PENDING"
      /\ op = "fail" => NewStatus(op) = "FAILED"
  BY DEF NewStatus
<1>2. /\ NewStatus(op) = "PUBLISHED" => e \in topic
      /\ NewStatus(op) = "FAILED" => e \in Invalid
  BY <1>1 DEF Statements
<1>3. status' = [status EXCEPT ![e] = NewStatus(op)] \/ status' = status
  BY DEF Execute, rowVars
<1> QED BY <1>2, <1>3 DEF OutcomeInv, TypeOK, PublishedIsOnTopic, PoisonContained

(* Publishing outcomes: a PUBLISHED row was acknowledged by Kafka, an      *)
(* invalid event never gets there, and only invalid ones are FAILED,       *)
(* through any errors, abandoned statements, lost leases and deaths.       *)
THEOREM OutcomesCorrect == Spec => [](PublishedIsOnTopic /\ PoisonContained)
<1>1. Init => OutcomeInv
  <2>1. Init => TypeOK
    BY OutboxAssumption DEF Init, TypeOK, Statuses, Stages
  <2> QED BY <2>1, OutboxAssumption DEF Init, OutcomeInv, Provenance, PublishedIsOnTopic, PoisonContained
<1>2. OutcomeInv /\ TypeOK' /\ [Next]_vars => OutcomeInv'
  <2> SUFFICES ASSUME OutcomeInv, TypeOK', [Next]_vars PROVE OutcomeInv'
    OBVIOUS
  <2> USE OutboxAssumption
  <2>1. ASSUME NEW e \in Events, Insert(e)
         PROVE  OutcomeInv'
    BY <2>1 DEF Insert, rowVars, Statements, OutcomeInv, TypeOK, Provenance, PublishedIsOnTopic, PoisonContained
  <2>2. ASSUME NEW e \in Events, LeaseExpires(e)
         PROVE  OutcomeInv'
    BY <2>2 DEF LeaseExpires, rowVars, Statements, OutcomeInv, TypeOK, Provenance, PublishedIsOnTopic, PoisonContained
  <2>3. ASSUME NEW e \in Events, BecomesDue(e)
         PROVE  OutcomeInv'
    BY <2>3 DEF BecomesDue, rowVars, Statements, OutcomeInv, TypeOK, Provenance, PublishedIsOnTopic, PoisonContained
  <2>4. ASSUME NEW o \in Owners, Claim(o)
         PROVE  OutcomeInv'
    <3>1. PICK S \in Candidates \ {{}} :
             /\ LockRows(o, S)
             /\ stage' = [stage EXCEPT ![o] =
                            [e \in Events |-> IF e \in S THEN "queued" ELSE "none"]]
      BY <2>4 DEF Claim
    <3>2. \A e \in Events : status'[e] = status[e] \/ status'[e] = "PROCESSING"
      BY <3>1 DEF LockRows, OutcomeInv, TypeOK
    <3> QED BY <2>4, <3>1, <3>2 DEF Claim, OutcomeInv, TypeOK, Provenance, PublishedIsOnTopic, PoisonContained
  <2>5. ASSUME NEW o \in Owners, ClaimError(o)
         PROVE  OutcomeInv'
    BY <2>5 DEF ClaimError, rowVars, Statements, OutcomeInv, TypeOK, Provenance, PublishedIsOnTopic, PoisonContained
  <2>6. ASSUME NEW o \in Owners, LateClaim(o)
         PROVE  OutcomeInv'
    <3>1. PICK S \in Candidates :
             /\ LockRows(o, S)
      BY <2>6 DEF LateClaim
    <3>2. \A e \in Events : status'[e] = status[e] \/ status'[e] = "PROCESSING"
      BY <3>1 DEF LockRows, OutcomeInv, TypeOK
    <3> QED BY <2>6, <3>1, <3>2 DEF LateClaim, OutcomeInv, TypeOK, Provenance, PublishedIsOnTopic, PoisonContained
  <2>7. ASSUME NEW o \in Owners, LateClaimDrop(o)
         PROVE  OutcomeInv'
    BY <2>7 DEF LateClaimDrop, rowVars, Statements, OutcomeInv, TypeOK, Provenance, PublishedIsOnTopic, PoisonContained
  <2>8. ASSUME NEW o \in Owners, Terminate(o)
         PROVE  OutcomeInv'
    <3>1. PICK sent \in SUBSET {e \in Events : stage[o][e] = "publish"} :
             topic' = topic \cup sent
      BY <2>8 DEF Terminate
    <3>2. PICK closing \in SUBSET {e \in Events : stage[o][e] \in Statements} :
             late' = late \cup {<<stage[o][e], o, e>> : e \in closing}
      BY <2>8 DEF Terminate
    <3>3. stage' = [stage EXCEPT ![o] = [e \in Events |-> "none"]] /\ status' = status
      BY <2>8 DEF Terminate, rowVars
    <3>4. PublishedIsOnTopic' /\ PoisonContained'
      BY <3>1, <3>3 DEF OutcomeInv, TypeOK, Provenance, PublishedIsOnTopic, PoisonContained
    <3>5. Provenance'
      BY <3>1, <3>2, <3>3 DEF OutcomeInv, TypeOK, Provenance, PublishedIsOnTopic, PoisonContained
    <3> QED BY <3>4, <3>5 DEF OutcomeInv
  <2>9. ASSUME NEW o \in Owners, NEW e \in Events, Start(o, e)
         PROVE  OutcomeInv'
    BY <2>9 DEF Start, rowVars, Statements, OutcomeInv, TypeOK, Provenance, PublishedIsOnTopic, PoisonContained
  <2>10. ASSUME NEW o \in Owners, NEW e \in Events, PublishAck(o, e)
         PROVE  OutcomeInv'
    BY <2>10 DEF PublishAck, rowVars, Statements, OutcomeInv, TypeOK, Provenance, PublishedIsOnTopic, PoisonContained
  <2>11. ASSUME NEW o \in Owners, NEW e \in Events, PublishError(o, e)
         PROVE  OutcomeInv'
    BY <2>11 DEF PublishError, rowVars, Statements, OutcomeInv, TypeOK, Provenance, PublishedIsOnTopic, PoisonContained
  <2>12. ASSUME NEW o \in Owners, NEW e \in Events, Close(o, e)
         PROVE  OutcomeInv'
    <3>1. stage[o][e] \in Statements /\ Execute(stage[o][e], o, e) /\ topic' = topic
      BY <2>12 DEF Close
    <3>2. PublishedIsOnTopic' /\ PoisonContained'
      BY <3>1, ExecuteOutcome DEF OutcomeInv, Provenance
    <3>3. Provenance'
      BY <2>12 DEF Close, OutcomeInv, TypeOK, Provenance, PublishedIsOnTopic, PoisonContained
    <3> QED BY <3>2, <3>3 DEF OutcomeInv
  <2>13. ASSUME NEW o \in Owners, NEW e \in Events, Abandon(o, e)
         PROVE  OutcomeInv'
    BY <2>13 DEF Abandon, rowVars, Statements, OutcomeInv, TypeOK, Provenance, PublishedIsOnTopic, PoisonContained
  <2>14. ASSUME NEW o \in Owners, NEW e \in Events, NEW op \in Statements,
                LateExecute(op, o, e)
         PROVE  OutcomeInv'
    <3>1. <<op, o, e>> \in late /\ Execute(op, o, e) /\ topic' = topic
      BY <2>14 DEF LateExecute
    <3>2. PublishedIsOnTopic' /\ PoisonContained'
      BY <3>1, ExecuteOutcome DEF OutcomeInv, Provenance
    <3>3. Provenance'
      BY <2>14 DEF LateExecute, OutcomeInv, TypeOK, Provenance, PublishedIsOnTopic, PoisonContained
    <3> QED BY <3>2, <3>3 DEF OutcomeInv
  <2>15. ASSUME NEW o \in Owners, NEW e \in Events, NEW op \in Statements,
                LateDrop(op, o, e)
         PROVE  OutcomeInv'
    BY <2>15 DEF LateDrop, rowVars, Statements, OutcomeInv, TypeOK, Provenance, PublishedIsOnTopic, PoisonContained
  <2>16. CASE UNCHANGED vars
    BY <2>16 DEF vars, OutcomeInv, TypeOK, Provenance, PublishedIsOnTopic, PoisonContained
  <2> QED BY <2>1, <2>2, <2>3, <2>4, <2>5, <2>6, <2>7, <2>8, <2>9, <2>10, <2>11,
             <2>12, <2>13, <2>14, <2>15, <2>16, NextCases
<1>3. OutcomeInv => PublishedIsOnTopic /\ PoisonContained
  BY DEF OutcomeInv
<1> QED BY <1>1, <1>2, <1>3, TypeCorrect, PTL DEF Spec

(* An invalid event never reaches Kafka through the publisher, and a valid *)
(* row never ends FAILED, over any number of claims and late statements.   *)
THEOREM PoisonStays == Spec => []PoisonContained
BY OutcomesCorrect, PTL

(* Terminal rows carry no lease, so no statement of a former holder finds  *)
(* them.                                                                   *)
TerminalUnlocked ==
    \A e \in Events : status[e] \in {"PUBLISHED", "FAILED"} => lockedBy[e] = NoOwner

StepKeepsTerminal ==
    \A e \in Events : status[e] \in {"PUBLISHED", "FAILED"} =>
       status'[e] = status[e] /\ lockedBy'[e] = NoOwner

(* One step: terminal rows keep their status and stay unlocked.            *)
LEMMA TerminalStep ==
    TypeOK /\ TerminalUnlocked /\ [Next]_vars => StepKeepsTerminal
<1>1. SUFFICES ASSUME TypeOK, TerminalUnlocked, [Next]_vars PROVE StepKeepsTerminal
  OBVIOUS
<1>2. StepKeepsTerminal
  <2> USE OutboxAssumption, <1>1
  <2>1. ASSUME NEW e \in Events, Insert(e)
         PROVE  StepKeepsTerminal
    BY <2>1 DEF Insert, rowVars, TypeOK, TerminalUnlocked, StepKeepsTerminal
  <2>2. ASSUME NEW e \in Events, LeaseExpires(e)
         PROVE  StepKeepsTerminal
    BY <2>2 DEF LeaseExpires, rowVars, TypeOK, TerminalUnlocked, StepKeepsTerminal
  <2>3. ASSUME NEW e \in Events, BecomesDue(e)
         PROVE  StepKeepsTerminal
    BY <2>3 DEF BecomesDue, rowVars, TypeOK, TerminalUnlocked, StepKeepsTerminal
  <2>4. ASSUME NEW o \in Owners, Claim(o)
         PROVE  StepKeepsTerminal
    <3>1. PICK S \in Candidates : LockRows(o, S)
      BY <2>4 DEF Claim
    <3>2. \A e \in Events : status[e] \in {"PUBLISHED", "FAILED"} => e \notin S
      BY <3>1, CandidatesClaimable DEF Claimable
    <3> QED BY <3>1, <3>2 DEF LockRows, TypeOK, TerminalUnlocked, StepKeepsTerminal
  <2>5. ASSUME NEW o \in Owners, ClaimError(o)
         PROVE  StepKeepsTerminal
    BY <2>5 DEF ClaimError, rowVars, TypeOK, TerminalUnlocked, StepKeepsTerminal
  <2>6. ASSUME NEW o \in Owners, LateClaim(o)
         PROVE  StepKeepsTerminal
    <3>1. PICK S \in Candidates : LockRows(o, S)
      BY <2>6 DEF LateClaim
    <3>2. \A e \in Events : status[e] \in {"PUBLISHED", "FAILED"} => e \notin S
      BY <3>1, CandidatesClaimable DEF Claimable
    <3> QED BY <3>1, <3>2 DEF LockRows, TypeOK, TerminalUnlocked, StepKeepsTerminal
  <2>7. ASSUME NEW o \in Owners, LateClaimDrop(o)
         PROVE  StepKeepsTerminal
    BY <2>7 DEF LateClaimDrop, rowVars, TypeOK, TerminalUnlocked, StepKeepsTerminal
  <2>8. ASSUME NEW o \in Owners, Terminate(o)
         PROVE  StepKeepsTerminal
    BY <2>8 DEF Terminate, rowVars, TypeOK, TerminalUnlocked, StepKeepsTerminal
  <2>9. ASSUME NEW o \in Owners, NEW e \in Events, Start(o, e)
         PROVE  StepKeepsTerminal
    BY <2>9 DEF Start, rowVars, TypeOK, TerminalUnlocked, StepKeepsTerminal
  <2>10. ASSUME NEW o \in Owners, NEW e \in Events, PublishAck(o, e)
         PROVE  StepKeepsTerminal
    BY <2>10 DEF PublishAck, rowVars, TypeOK, TerminalUnlocked, StepKeepsTerminal
  <2>11. ASSUME NEW o \in Owners, NEW e \in Events, PublishError(o, e)
         PROVE  StepKeepsTerminal
    BY <2>11 DEF PublishError, rowVars, TypeOK, TerminalUnlocked, StepKeepsTerminal
  <2>12. ASSUME NEW o \in Owners, NEW e \in Events, Close(o, e)
         PROVE  StepKeepsTerminal
    BY <2>12 DEF Close, Execute, Owns, rowVars, TypeOK, TerminalUnlocked, StepKeepsTerminal
  <2>13. ASSUME NEW o \in Owners, NEW e \in Events, Abandon(o, e)
         PROVE  StepKeepsTerminal
    BY <2>13 DEF Abandon, rowVars, TypeOK, TerminalUnlocked, StepKeepsTerminal
  <2>14. ASSUME NEW o \in Owners, NEW e \in Events, NEW op \in Statements,
                LateExecute(op, o, e)
         PROVE  StepKeepsTerminal
    BY <2>14 DEF LateExecute, Execute, Owns, rowVars, TypeOK, TerminalUnlocked, StepKeepsTerminal
  <2>15. ASSUME NEW o \in Owners, NEW e \in Events, NEW op \in Statements,
                LateDrop(op, o, e)
         PROVE  StepKeepsTerminal
    BY <2>15 DEF LateDrop, rowVars, TypeOK, TerminalUnlocked, StepKeepsTerminal
  <2>16. CASE UNCHANGED vars
    BY <2>16 DEF vars, TypeOK, TerminalUnlocked, StepKeepsTerminal
  <2> QED BY <2>1, <2>2, <2>3, <2>4, <2>5, <2>6, <2>7, <2>8, <2>9, <2>10, <2>11,
             <2>12, <2>13, <2>14, <2>15, <2>16, NextCases
<1> QED BY <1>2

(* PUBLISHED and FAILED are final: no claim and no late closing statement  *)
(* of a former holder takes a row out of them.                             *)
THEOREM TerminalStable == Spec => TerminalIsFinal
<1>1. Init => TerminalUnlocked
  BY DEF Init, TerminalUnlocked
<1>2. TypeOK /\ TerminalUnlocked /\ [Next]_vars => StepKeepsTerminal
  BY TerminalStep
<1>3. TypeOK /\ TypeOK' /\ TerminalUnlocked /\ [Next]_vars => TerminalUnlocked'
  <2> SUFFICES ASSUME TypeOK, TypeOK', TerminalUnlocked, [Next]_vars, NEW f \in Events,
                      status'[f] \in {"PUBLISHED", "FAILED"}
               PROVE  lockedBy'[f] = NoOwner
    BY DEF TerminalUnlocked
  <2> USE OutboxAssumption
  <2>1. ASSUME NEW e \in Events, Insert(e)
         PROVE  lockedBy'[f] = NoOwner
    BY <2>1 DEF Insert, rowVars, TypeOK, TerminalUnlocked
  <2>2. ASSUME NEW e \in Events, LeaseExpires(e)
         PROVE  lockedBy'[f] = NoOwner
    BY <2>2 DEF LeaseExpires, rowVars, TypeOK, TerminalUnlocked
  <2>3. ASSUME NEW e \in Events, BecomesDue(e)
         PROVE  lockedBy'[f] = NoOwner
    BY <2>3 DEF BecomesDue, rowVars, TypeOK, TerminalUnlocked
  <2>4. ASSUME NEW o \in Owners, Claim(o)
         PROVE  lockedBy'[f] = NoOwner
    <3>1. PICK S \in Candidates : LockRows(o, S)
      BY <2>4 DEF Claim
    <3> QED BY <3>1, CandidatesClaimable DEF LockRows, TypeOK, TerminalUnlocked
  <2>5. ASSUME NEW o \in Owners, ClaimError(o)
         PROVE  lockedBy'[f] = NoOwner
    BY <2>5 DEF ClaimError, rowVars, TypeOK, TerminalUnlocked
  <2>6. ASSUME NEW o \in Owners, LateClaim(o)
         PROVE  lockedBy'[f] = NoOwner
    <3>1. PICK S \in Candidates : LockRows(o, S)
      BY <2>6 DEF LateClaim
    <3> QED BY <3>1, CandidatesClaimable DEF LockRows, TypeOK, TerminalUnlocked
  <2>7. ASSUME NEW o \in Owners, LateClaimDrop(o)
         PROVE  lockedBy'[f] = NoOwner
    BY <2>7 DEF LateClaimDrop, rowVars, TypeOK, TerminalUnlocked
  <2>8. ASSUME NEW o \in Owners, Terminate(o)
         PROVE  lockedBy'[f] = NoOwner
    BY <2>8 DEF Terminate, rowVars, TypeOK, TerminalUnlocked
  <2>9. ASSUME NEW o \in Owners, NEW e \in Events, Start(o, e)
         PROVE  lockedBy'[f] = NoOwner
    BY <2>9 DEF Start, rowVars, TypeOK, TerminalUnlocked
  <2>10. ASSUME NEW o \in Owners, NEW e \in Events, PublishAck(o, e)
         PROVE  lockedBy'[f] = NoOwner
    BY <2>10 DEF PublishAck, rowVars, TypeOK, TerminalUnlocked
  <2>11. ASSUME NEW o \in Owners, NEW e \in Events, PublishError(o, e)
         PROVE  lockedBy'[f] = NoOwner
    BY <2>11 DEF PublishError, rowVars, TypeOK, TerminalUnlocked
  <2>12. ASSUME NEW o \in Owners, NEW e \in Events, Close(o, e)
         PROVE  lockedBy'[f] = NoOwner
    BY <2>12 DEF Close, Execute, rowVars, TypeOK, TerminalUnlocked
  <2>13. ASSUME NEW o \in Owners, NEW e \in Events, Abandon(o, e)
         PROVE  lockedBy'[f] = NoOwner
    BY <2>13 DEF Abandon, rowVars, TypeOK, TerminalUnlocked
  <2>14. ASSUME NEW o \in Owners, NEW e \in Events, NEW op \in Statements,
                LateExecute(op, o, e)
         PROVE  lockedBy'[f] = NoOwner
    BY <2>14 DEF LateExecute, Execute, rowVars, TypeOK, TerminalUnlocked
  <2>15. ASSUME NEW o \in Owners, NEW e \in Events, NEW op \in Statements,
                LateDrop(op, o, e)
         PROVE  lockedBy'[f] = NoOwner
    BY <2>15 DEF LateDrop, rowVars, TypeOK, TerminalUnlocked
  <2>16. CASE UNCHANGED vars
    BY <2>16 DEF vars, TypeOK, TerminalUnlocked
  <2> QED BY <2>1, <2>2, <2>3, <2>4, <2>5, <2>6, <2>7, <2>8, <2>9, <2>10, <2>11,
             <2>12, <2>13, <2>14, <2>15, <2>16, NextCases
<1>4. StepKeepsTerminal =>
         \A e \in Events : status[e] \in {"PUBLISHED", "FAILED"} => status'[e] = status[e]
  BY DEF StepKeepsTerminal
<1> QED BY <1>1, <1>2, <1>3, <1>4, TypeCorrect, PTL DEF Spec, TerminalIsFinal

-----------------------------------------------------------------------------
(* Leases.                                                                 *)

ReleasedByHolder(o, e) ==
    \E op \in Statements : stage[o][e] = op \/ <<op, o, e>> \in late

(* The lock of a row under an unexpired lease is cleared or moved only by  *)
(* a statement of its holder, under way or given up: what a publisher does *)
(* after it lost its lease does not touch the row of the next one.         *)
THEOREM LeaseRespected == Spec => ForeignLeaseIntact
<1>1. TypeOK /\ [Next]_vars =>
         \A h \in Owners, f \in Events :
            lockedBy[f] = h /\ lockedUntil[f] = "future" /\ lockedBy'[f] # h
               => ReleasedByHolder(h, f)
  <2> SUFFICES ASSUME TypeOK, [Next]_vars, NEW h \in Owners, NEW f \in Events,
                      lockedBy[f] = h, lockedUntil[f] = "future", lockedBy'[f] # h
               PROVE  ReleasedByHolder(h, f)
    OBVIOUS
  <2> USE OutboxAssumption
  <2>1. ASSUME NEW e \in Events, Insert(e)
         PROVE  ReleasedByHolder(h, f)
    BY <2>1 DEF Insert, rowVars, TypeOK
  <2>2. ASSUME NEW e \in Events, LeaseExpires(e)
         PROVE  ReleasedByHolder(h, f)
    BY <2>2 DEF LeaseExpires, rowVars, TypeOK
  <2>3. ASSUME NEW e \in Events, BecomesDue(e)
         PROVE  ReleasedByHolder(h, f)
    BY <2>3 DEF BecomesDue, rowVars, TypeOK
  <2>4. ASSUME NEW o \in Owners, Claim(o)
         PROVE  ReleasedByHolder(h, f)
    <3>1. PICK S \in Candidates : LockRows(o, S)
      BY <2>4 DEF Claim
    <3> QED BY <3>1, CandidatesClaimable DEF LockRows, Claimable, TypeOK
  <2>5. ASSUME NEW o \in Owners, ClaimError(o)
         PROVE  ReleasedByHolder(h, f)
    BY <2>5 DEF ClaimError, rowVars, TypeOK
  <2>6. ASSUME NEW o \in Owners, LateClaim(o)
         PROVE  ReleasedByHolder(h, f)
    <3>1. PICK S \in Candidates : LockRows(o, S)
      BY <2>6 DEF LateClaim
    <3> QED BY <3>1, CandidatesClaimable DEF LockRows, Claimable, TypeOK
  <2>7. ASSUME NEW o \in Owners, LateClaimDrop(o)
         PROVE  ReleasedByHolder(h, f)
    BY <2>7 DEF LateClaimDrop, rowVars, TypeOK
  <2>8. ASSUME NEW o \in Owners, Terminate(o)
         PROVE  ReleasedByHolder(h, f)
    BY <2>8 DEF Terminate, rowVars, TypeOK
  <2>9. ASSUME NEW o \in Owners, NEW e \in Events, Start(o, e)
         PROVE  ReleasedByHolder(h, f)
    BY <2>9 DEF Start, rowVars, TypeOK
  <2>10. ASSUME NEW o \in Owners, NEW e \in Events, PublishAck(o, e)
         PROVE  ReleasedByHolder(h, f)
    BY <2>10 DEF PublishAck, rowVars, TypeOK
  <2>11. ASSUME NEW o \in Owners, NEW e \in Events, PublishError(o, e)
         PROVE  ReleasedByHolder(h, f)
    BY <2>11 DEF PublishError, rowVars, TypeOK
  <2>12. ASSUME NEW o \in Owners, NEW e \in Events, Close(o, e)
         PROVE  ReleasedByHolder(h, f)
    BY <2>12 DEF Close, Execute, Owns, rowVars, ReleasedByHolder, TypeOK
  <2>13. ASSUME NEW o \in Owners, NEW e \in Events, Abandon(o, e)
         PROVE  ReleasedByHolder(h, f)
    BY <2>13 DEF Abandon, rowVars, TypeOK
  <2>14. ASSUME NEW o \in Owners, NEW e \in Events, NEW op \in Statements,
                LateExecute(op, o, e)
         PROVE  ReleasedByHolder(h, f)
    BY <2>14 DEF LateExecute, Execute, Owns, rowVars, ReleasedByHolder, TypeOK
  <2>15. ASSUME NEW o \in Owners, NEW e \in Events, NEW op \in Statements,
                LateDrop(op, o, e)
         PROVE  ReleasedByHolder(h, f)
    BY <2>15 DEF LateDrop, rowVars, TypeOK
  <2>16. CASE UNCHANGED vars
    BY <2>16 DEF vars, TypeOK, ReleasedByHolder
  <2> QED BY <2>1, <2>2, <2>3, <2>4, <2>5, <2>6, <2>7, <2>8, <2>9, <2>10, <2>11,
             <2>12, <2>13, <2>14, <2>15, <2>16, NextCases
<1>2. TypeOK /\ [Next]_vars =>
         \A o \in Owners, e \in Events :
            lockedBy[e] = o /\ lockedUntil[e] = "future" /\ lockedBy'[e] # o
               => \E op \in Statements : stage[o][e] = op \/ <<op, o, e>> \in late
  BY <1>1 DEF ReleasedByHolder
<1> QED BY <1>2, TypeCorrect, PTL DEF Spec, ForeignLeaseIntact

(* While leases cover their holders: whoever still has something to do to  *)
(* a row holds an unexpired lease on it, and an owner has at most one      *)
(* handler or statement on a row.  The second part is needed because a     *)
(* statement that was given up could release the row under a later handler *)
(* of the same owner: locked_by names the process, not the claim.          *)
HoldsLease(o, e) ==
    Engaged(o, e) => lockedBy[e] = o /\ lockedUntil[e] = "future"

EngagedOnce(o, e) ==
    \A op \in Statements : <<op, o, e>> \in late =>
       /\ stage[o][e] = "none"
       /\ \A other \in Statements : <<other, o, e>> \in late => other = op

LeaseInv ==
    LeaseCovers => \A o \in Owners, e \in Events : HoldsLease(o, e) /\ EngagedOnce(o, e)

(* No row is handled by two publishers at once, and its handler holds the  *)
(* lease, for as long as leases cover the work of their holders.           *)
THEOREM HandlersExclusive == Spec => []SingleHandler
<1>1. Init => LeaseInv
  BY DEF Init, LeaseInv, HoldsLease, EngagedOnce, Engaged
<1>2. TypeOK /\ LeaseInv /\ [Next]_vars => LeaseInv'
  <2> SUFFICES ASSUME TypeOK, LeaseCovers, [Next]_vars, NEW h \in Owners, NEW f \in Events,
                      \A o \in Owners, e \in Events : HoldsLease(o, e) /\ EngagedOnce(o, e)
               PROVE  HoldsLease(h, f)' /\ EngagedOnce(h, f)'
    BY DEF LeaseInv
  <2> USE OutboxAssumption DEF HoldsLease, EngagedOnce
  <2>1. ASSUME NEW e \in Events, Insert(e)
         PROVE  HoldsLease(h, f)' /\ EngagedOnce(h, f)'
    BY <2>1 DEF Insert, rowVars, Statements, TypeOK, Engaged
  <2>2. ASSUME NEW e \in Events, LeaseExpires(e)
         PROVE  HoldsLease(h, f)' /\ EngagedOnce(h, f)'
    <3>1. ~ \E o \in Owners : lockedBy[e] = o /\ Engaged(o, e)
      BY <2>2 DEF LeaseExpires
    <3>2. f = e => ~Engaged(h, f)
      BY <3>1
    <3>3. Engaged(h, f)' <=> Engaged(h, f)
      BY <2>2 DEF LeaseExpires, Engaged
    <3> QED BY <2>2, <3>2, <3>3 DEF LeaseExpires, TypeOK
  <2>3. ASSUME NEW e \in Events, BecomesDue(e)
         PROVE  HoldsLease(h, f)' /\ EngagedOnce(h, f)'
    BY <2>3 DEF BecomesDue, rowVars, Statements, TypeOK, Engaged
  <2>4. ASSUME NEW o \in Owners, Claim(o)
         PROVE  HoldsLease(h, f)' /\ EngagedOnce(h, f)'
    <3>1. PICK S \in Candidates \ {{}} :
             /\ LockRows(o, S)
             /\ stage' = [stage EXCEPT ![o] =
                            [e \in Events |-> IF e \in S THEN "queued" ELSE "none"]]
      BY <2>4 DEF Claim
    <3>2. \A e \in S : lockedUntil[e] # "future"
      BY <3>1, CandidatesClaimable DEF Claimable
    <3>3. late' = late
      BY <2>4 DEF Claim
    <3>4. CASE f \in S
      <4>1. ~Engaged(h, f)
        BY <3>2, <3>4
      <4>2. lockedBy'[f] = o /\ lockedUntil'[f] = "future"
        BY <3>1, <3>4 DEF LockRows, TypeOK
      <4>3. h # o => stage'[h][f] = "none"
        BY <3>1, <4>1 DEF Engaged, TypeOK
      <4> QED BY <3>3, <4>1, <4>2, <4>3 DEF Engaged
    <3>5. CASE f \notin S
      <4>1. lockedBy'[f] = lockedBy[f] /\ lockedUntil'[f] = lockedUntil[f]
        BY <3>1, <3>5 DEF LockRows, TypeOK
      <4>2. stage'[h][f] = stage[h][f] \/ stage'[h][f] = "none"
        BY <3>1, <3>5 DEF TypeOK
      <4> QED BY <3>3, <4>1, <4>2 DEF Engaged
    <3> QED BY <3>4, <3>5
  <2>5. ASSUME NEW o \in Owners, ClaimError(o)
         PROVE  HoldsLease(h, f)' /\ EngagedOnce(h, f)'
    BY <2>5 DEF ClaimError, rowVars, Statements, TypeOK, Engaged
  <2>6. ASSUME NEW o \in Owners, LateClaim(o)
         PROVE  HoldsLease(h, f)' /\ EngagedOnce(h, f)'
    <3>1. PICK S \in Candidates :
             /\ LockRows(o, S)
      BY <2>6 DEF LateClaim
    <3>2. \A e \in S : lockedUntil[e] # "future"
      BY <3>1, CandidatesClaimable DEF Claimable
    <3>3. UNCHANGED <<stage, late>>
      BY <2>6 DEF LateClaim
    <3>4. lockedUntil[f] = "future" =>
             lockedBy'[f] = lockedBy[f] /\ lockedUntil'[f] = lockedUntil[f]
      BY <3>1, <3>2 DEF LockRows
    <3> QED BY <3>3, <3>4 DEF Engaged
  <2>7. ASSUME NEW o \in Owners, LateClaimDrop(o)
         PROVE  HoldsLease(h, f)' /\ EngagedOnce(h, f)'
    BY <2>7 DEF LateClaimDrop, rowVars, Statements, TypeOK, Engaged
  <2>8. ASSUME NEW o \in Owners, Terminate(o)
         PROVE  HoldsLease(h, f)' /\ EngagedOnce(h, f)'
    BY <2>8 DEF Terminate, rowVars, Statements, TypeOK, Engaged
  <2>9. ASSUME NEW o \in Owners, NEW e \in Events, Start(o, e)
         PROVE  HoldsLease(h, f)' /\ EngagedOnce(h, f)'
    BY <2>9 DEF Start, rowVars, Statements, TypeOK, Engaged
  <2>10. ASSUME NEW o \in Owners, NEW e \in Events, PublishAck(o, e)
         PROVE  HoldsLease(h, f)' /\ EngagedOnce(h, f)'
    BY <2>10 DEF PublishAck, rowVars, Statements, TypeOK, Engaged
  <2>11. ASSUME NEW o \in Owners, NEW e \in Events, PublishError(o, e)
         PROVE  HoldsLease(h, f)' /\ EngagedOnce(h, f)'
    BY <2>11 DEF PublishError, rowVars, Statements, TypeOK, Engaged
  <2>12. ASSUME NEW o \in Owners, NEW e \in Events, Close(o, e)
         PROVE  HoldsLease(h, f)' /\ EngagedOnce(h, f)'
    BY <2>12 DEF Close, Execute, Owns, rowVars, Statements, TypeOK, Engaged
  <2>13. ASSUME NEW o \in Owners, NEW e \in Events, Abandon(o, e)
         PROVE  HoldsLease(h, f)' /\ EngagedOnce(h, f)'
    BY <2>13 DEF Abandon, rowVars, Statements, TypeOK, Engaged
  <2>14. ASSUME NEW o \in Owners, NEW e \in Events, NEW op \in Statements,
                LateExecute(op, o, e)
         PROVE  HoldsLease(h, f)' /\ EngagedOnce(h, f)'
    BY <2>14 DEF LateExecute, Execute, Owns, rowVars, Statements, TypeOK, Engaged
  <2>15. ASSUME NEW o \in Owners, NEW e \in Events, NEW op \in Statements,
                LateDrop(op, o, e)
         PROVE  HoldsLease(h, f)' /\ EngagedOnce(h, f)'
    BY <2>15 DEF LateDrop, rowVars, Statements, TypeOK, Engaged
  <2>16. CASE UNCHANGED vars
    <3>1. UNCHANGED <<lockedBy, lockedUntil, stage, late>>
      BY <2>16 DEF vars
    <3> QED BY <3>1 DEF Engaged
  <2> QED BY <2>1, <2>2, <2>3, <2>4, <2>5, <2>6, <2>7, <2>8, <2>9, <2>10, <2>11,
             <2>12, <2>13, <2>14, <2>15, <2>16, NextCases
<1>3. TypeOK /\ LeaseInv => SingleHandler
  BY DEF LeaseInv, HoldsLease, SingleHandler, HandlerHoldsLease, Engaged
<1> QED BY <1>1, <1>2, <1>3, TypeCorrect, PTL DEF Spec
-----------------------------------------------------------------------------
(* Nothing happens to a row before its INSERT.                             *)

(* A row that is not there yet is leased to nobody, in nobody's pool, and  *)
(* its event is not on Kafka.                                              *)
NothingBeforeInsert ==
    \A e \in Events : status[e] = "ABSENT" =>
       lockedBy[e] = NoOwner /\ e \notin topic /\ \A o \in Owners : stage[o][e] = "none"

(* The steps of the publishers and of time: all but the INSERTs of others. *)
PublisherNext ==
    \/ \E e \in Events : LeaseExpires(e) \/ BecomesDue(e)
    \/ \E o \in Owners : \/ Claim(o) \/ ClaimError(o) \/ LateClaim(o)
                         \/ LateClaimDrop(o) \/ Terminate(o)
    \/ \E o \in Owners, e \in Events :
          \/ Start(o, e) \/ PublishAck(o, e) \/ PublishError(o, e)
          \/ Close(o, e) \/ Abandon(o, e)
    \/ \E o \in Owners, e \in Events, op \in Statements :
          LateExecute(op, o, e) \/ LateDrop(op, o, e)

(* What a publisher's step may do to row f.                                *)
AbsentKept(f) ==
    /\ status'[f] = "ABSENT" <=> status[f] = "ABSENT"
    /\ status[f] = "ABSENT" =>
          lockedBy'[f] = NoOwner /\ f \notin topic' /\ \A o \in Owners : stage'[o][f] = "none"

(* A closing statement finds no row before the INSERT, and deletes none.   *)
LEMMA ExecuteAbsent ==
    ASSUME TypeOK, NothingBeforeInsert, NEW op \in Statements, NEW o \in Owners,
           NEW e \in Events, Execute(op, o, e), NEW f \in Events
    PROVE  /\ status'[f] = "ABSENT" <=> status[f] = "ABSENT"
           /\ status[f] = "ABSENT" => lockedBy'[f] = NoOwner
<1>1. NewStatus(op) # "ABSENT"
  BY DEF NewStatus, Statements
<1>2. CASE Owns(o, e)
  <2>1. status[e] # "ABSENT"
    BY <1>2, OutboxAssumption DEF Owns, NothingBeforeInsert
  <2>2. /\ status' = [status EXCEPT ![e] = NewStatus(op)]
        /\ lockedBy' = [lockedBy EXCEPT ![e] = NoOwner]
    BY <1>2 DEF Execute
  <2> QED BY <1>1, <2>1, <2>2 DEF TypeOK, NothingBeforeInsert
<1>3. CASE ~Owns(o, e)
  BY <1>3 DEF Execute, rowVars, NothingBeforeInsert
<1> QED BY <1>2, <1>3

(* A claim takes no row before its INSERT.                                 *)
LEMMA ClaimAbsent ==
    ASSUME TypeOK, NothingBeforeInsert, NEW o \in Owners, NEW S \in Candidates,
           LockRows(o, S), NEW f \in Events
    PROVE  /\ f \in S => status[f] # "ABSENT"
           /\ status'[f] = "ABSENT" <=> status[f] = "ABSENT"
           /\ status[f] = "ABSENT" => lockedBy'[f] = NoOwner
<1>1. f \in S => status[f] # "ABSENT"
  BY CandidatesClaimable DEF Claimable
<1> QED BY <1>1 DEF LockRows, NothingBeforeInsert

(* No step of a publisher makes a row appear or disappear, or touches one  *)
(* that is not there.                                                      *)
LEMMA PublishersKeepAbsent ==
    ASSUME TypeOK, NothingBeforeInsert, PublisherNext, NEW f \in Events
    PROVE  AbsentKept(f)
<1>0. status[f] = "ABSENT" =>
         lockedBy[f] = NoOwner /\ f \notin topic /\ \A o \in Owners : stage[o][f] = "none"
  BY DEF NothingBeforeInsert
<1> USE OutboxAssumption, <1>0 DEF AbsentKept
<1>1. ASSUME NEW e \in Events, LeaseExpires(e)
      PROVE  AbsentKept(f)
  BY <1>1 DEF LeaseExpires, rowVars, TypeOK
<1>2. ASSUME NEW e \in Events, BecomesDue(e)
      PROVE  AbsentKept(f)
  BY <1>2 DEF BecomesDue, rowVars, TypeOK
<1>3. ASSUME NEW o \in Owners, Claim(o)
      PROVE  AbsentKept(f)
  <2>1. PICK S \in Candidates :
           /\ LockRows(o, S)
           /\ stage' = [stage EXCEPT ![o] =
                          [e \in Events |-> IF e \in S THEN "queued" ELSE "none"]]
    BY <1>3 DEF Claim
  <2> QED BY <1>3, <2>1, ClaimAbsent DEF Claim, TypeOK
<1>4. ASSUME NEW o \in Owners, ClaimError(o)
      PROVE  AbsentKept(f)
  BY <1>4 DEF ClaimError, rowVars, TypeOK
<1>5. ASSUME NEW o \in Owners, LateClaim(o)
      PROVE  AbsentKept(f)
  <2>1. PICK S \in Candidates : LockRows(o, S) /\ stage' = stage
    BY <1>5 DEF LateClaim
  <2> QED BY <1>5, <2>1, ClaimAbsent DEF LateClaim, TypeOK
<1>6. ASSUME NEW o \in Owners, LateClaimDrop(o)
      PROVE  AbsentKept(f)
  BY <1>6 DEF LateClaimDrop, rowVars, TypeOK
<1>7. ASSUME NEW o \in Owners, Terminate(o)
      PROVE  AbsentKept(f)
  BY <1>7 DEF Terminate, rowVars, TypeOK
<1>8. ASSUME NEW o \in Owners, NEW e \in Events, Start(o, e)
      PROVE  AbsentKept(f)
  BY <1>8 DEF Start, rowVars, TypeOK
<1>9. ASSUME NEW o \in Owners, NEW e \in Events, PublishAck(o, e)
      PROVE  AbsentKept(f)
  BY <1>9 DEF PublishAck, rowVars, TypeOK
<1>10. ASSUME NEW o \in Owners, NEW e \in Events, PublishError(o, e)
      PROVE  AbsentKept(f)
  BY <1>10 DEF PublishError, rowVars, TypeOK
<1>11. ASSUME NEW o \in Owners, NEW e \in Events, Close(o, e)
      PROVE  AbsentKept(f)
  <2>1. stage[o][e] \in Statements /\ Execute(stage[o][e], o, e)
    BY <1>11 DEF Close
  <2>2. /\ status'[f] = "ABSENT" <=> status[f] = "ABSENT"
        /\ status[f] = "ABSENT" => lockedBy'[f] = NoOwner
    BY <2>1, ExecuteAbsent
  <2> QED BY <1>11, <2>2 DEF Close, TypeOK
<1>12. ASSUME NEW o \in Owners, NEW e \in Events, Abandon(o, e)
      PROVE  AbsentKept(f)
  BY <1>12 DEF Abandon, rowVars, TypeOK
<1>13. ASSUME NEW o \in Owners, NEW e \in Events, NEW op \in Statements, LateExecute(op, o, e)
      PROVE  AbsentKept(f)
  BY <1>13, ExecuteAbsent DEF LateExecute
<1>14. ASSUME NEW o \in Owners, NEW e \in Events, NEW op \in Statements, LateDrop(op, o, e)
      PROVE  AbsentKept(f)
  BY <1>14 DEF LateDrop, rowVars, TypeOK
<1> QED BY <1>1, <1>2, <1>3, <1>4, <1>5, <1>6, <1>7, <1>8, <1>9, <1>10, <1>11, <1>12, <1>13, <1>14 DEF PublisherNext

(* Every row a publisher leases, handles or puts on Kafka was inserted by  *)
(* CreateWithEvent or Complete before.                                     *)
THEOREM NoRowBeforeInsert == Spec => []NothingBeforeInsert
<1>1. Init => NothingBeforeInsert
  BY DEF Init, NothingBeforeInsert
<1>2. TypeOK /\ NothingBeforeInsert /\ [Next]_vars => NothingBeforeInsert'
  <2> SUFFICES ASSUME TypeOK, NothingBeforeInsert, [Next]_vars PROVE NothingBeforeInsert'
    OBVIOUS
  <2>1. CASE PublisherNext
    BY <2>1, PublishersKeepAbsent DEF AbsentKept, NothingBeforeInsert
  <2>2. ASSUME NEW e \in Events, Insert(e) PROVE NothingBeforeInsert'
    BY <2>2 DEF Insert, TypeOK, NothingBeforeInsert
  <2>3. CASE UNCHANGED vars
    BY <2>3 DEF vars, NothingBeforeInsert
  <2> QED BY <2>1, <2>2, <2>3, NextCases DEF PublisherNext
<1> QED BY <1>1, <1>2, TypeCorrect, PTL DEF Spec
=============================================================================
