------------------------------- MODULE Outbox -------------------------------
(***************************************************************************)
(* The transactional outbox: the table outbox_events of PostgreSQL and the *)
(* outbox-publisher processes that claim its rows under a lease, publish   *)
(* them to Kafka and settle them (internal/outbox, cmd/outbox-publisher).  *)
(*                                                                         *)
(* One SQL statement is one atomic step.  Timestamps are kept only as what *)
(* the SQL compares them for: locked_until is NULL, in the future or past, *)
(* next_attempt_at is due or not.  Time passing is LeaseExpires/BecomesDue. *)
(* last_error, attempts and the metrics decide nothing here.               *)
(***************************************************************************)
EXTENDS Naturals, FiniteSets

CONSTANTS
    Events,      \* ids of outbox rows
    Invalid,     \* rows publishOne rejects: type, envelope or columns are wrong
    CreatedAt,   \* created_at of every row, stamped by the inserting process
    Owners,      \* publisher processes; a restart is another owner (fresh uuid)
    Mortal,      \* the owners that may terminate
    NoOwner,     \* locked_by IS NULL
    BatchSize,   \* OUTBOX_BATCH_SIZE
    Workers,     \* OUTBOX_WORKERS
    MaxLate,     \* bound: abandoned statements that are still under way
    LeaseCovers  \* TRUE: a lease outlasts all that its holder does with the row

ASSUME OutboxAssumption ==
    /\ Invalid \subseteq Events
    /\ CreatedAt \in [Events -> Nat]
    /\ Mortal \subseteq Owners
    /\ NoOwner \notin Owners
    /\ BatchSize \in Nat \ {0}
    /\ Workers \in Nat \ {0}
    /\ MaxLate \in Nat
    /\ LeaseCovers \in BOOLEAN

VARIABLES
    status,       \* outbox_status of each row, ABSENT before the INSERT
    lockedBy,     \* locked_by
    lockedUntil,  \* locked_until compared with now()
    due,          \* next_attempt_at <= now()
    topic,        \* events Kafka has appended at least once
    stage,        \* what each owner's pool is doing with each row of its batch
    alive,        \* owners that have not terminated
    late,         \* closing statements given up by the client, perhaps still to run
    lateClaims    \* owners with a claim given up by the client, perhaps still to run

rowVars == <<status, lockedBy, lockedUntil, due>>
vars == <<status, lockedBy, lockedUntil, due, topic, stage, alive, late, lateClaims>>

Statuses == {"ABSENT", "PENDING", "PROCESSING", "PUBLISHED", "FAILED"}

(* The three closing statements: MarkPublished, Release and MarkFailed. *)
Statements == {"mark", "release", "fail"}

(* "none": not in the batch, or its handler has returned. *)
Stages == {"none", "queued", "publish"} \cup Statements

TypeOK ==
    /\ status \in [Events -> Statuses]
    /\ lockedBy \in [Events -> Owners \cup {NoOwner}]
    /\ lockedUntil \in [Events -> {"null", "future", "past"}]
    /\ \A e \in Events : lockedBy[e] = NoOwner <=> lockedUntil[e] = "null"  \* CHECK
    /\ due \in [Events -> BOOLEAN]
    /\ topic \subseteq Events
    /\ stage \in [Owners -> [Events -> Stages]]
    /\ alive \subseteq Owners
    /\ late \subseteq Statements \X Owners \X Events
    /\ lateClaims \subseteq Owners

Init ==
    /\ status = [e \in Events |-> "ABSENT"]
    /\ lockedBy = [e \in Events |-> NoOwner]
    /\ lockedUntil = [e \in Events |-> "null"]
    /\ due = [e \in Events |-> FALSE]
    /\ topic = {}
    /\ stage = [o \in Owners |-> [e \in Events |-> "none"]]
    /\ alive = Owners
    /\ late = {}
    /\ lateClaims = {}

-----------------------------------------------------------------------------
(* The table.                                                              *)

(* The INSERT of CreateWithEvent and of Complete: the columns it leaves out *)
(* take the schema's defaults (PENDING, unlocked, due now).                *)
Insert(e) ==
    /\ status[e] = "ABSENT"
    /\ status' = [status EXCEPT ![e] = "PENDING"]
    /\ due' = [due EXCEPT ![e] = TRUE]
    /\ UNCHANGED <<lockedBy, lockedUntil, topic, stage, alive, late, lateClaims>>

(* Mutant of Claimable: the filter on status is gone. *)
ClaimableAnyStatus(e) == status[e] # "ABSENT" /\ due[e] /\ lockedUntil[e] # "future"

(* Mutant of Claimable: a lease protects a row for no time at all. *)
ClaimableLeased(e) == status[e] \in {"PENDING", "PROCESSING"} /\ due[e]

(* Mutant of Claimable: a row is picked up only while it is PENDING. *)
ClaimablePending(e) == status[e] = "PENDING" /\ due[e] /\ lockedUntil[e] # "future"

Claimable(e) ==
    /\ status[e] \in {"PENDING", "PROCESSING"}
    /\ due[e]
    /\ lockedUntil[e] # "future"

(* ORDER BY created_at LIMIT BatchSize over the claimable rows.            *)
Candidates ==
    LET open == {e \in Events : Claimable(e)}
    IN {S \in SUBSET open :
          /\ Cardinality(S) <= BatchSize
          /\ S = open \/ Cardinality(S) = BatchSize
          /\ \A e \in S, f \in open \ S : CreatedAt[e] <= CreatedAt[f]}

LockRows(o, S) ==
    /\ status' = [e \in Events |-> IF e \in S THEN "PROCESSING" ELSE status[e]]
    /\ lockedBy' = [e \in Events |-> IF e \in S THEN o ELSE lockedBy[e]]
    /\ lockedUntil' = [e \in Events |-> IF e \in S THEN "future" ELSE lockedUntil[e]]
    /\ UNCHANGED due

(* Mutant of Owns: the statement does not ask who holds the lease. *)
OwnsUnfenced(o, e) == status[e] # "PUBLISHED"

(* WHERE locked_by = owner AND published_at IS NULL.  The schema's CHECK   *)
(* makes published_at IS NULL the same as status # PUBLISHED.              *)
Owns(o, e) == lockedBy[e] = o /\ status[e] # "PUBLISHED"

NewStatus(op) ==
    CASE op = "mark"    -> "PUBLISHED"
      [] op = "release" -> "PENDING"
      [] op = "fail"    -> "FAILED"

(* Mutant of Execute: locked_until is not reset. *)
ExecuteKeepsLease(op, o, e) ==
    IF Owns(o, e)
    THEN /\ status' = [status EXCEPT ![e] = NewStatus(op)]
         /\ lockedBy' = [lockedBy EXCEPT ![e] = NoOwner]
         /\ due' = [due EXCEPT ![e] = @ /\ op # "release"]
         /\ UNCHANGED lockedUntil
    ELSE UNCHANGED rowVars

(* The UPDATE of a closing statement; zero rows is the error "lease lost". *)
(* Release also moves next_attempt_at into the future.                     *)
Execute(op, o, e) ==
    IF Owns(o, e)
    THEN /\ status' = [status EXCEPT ![e] = NewStatus(op)]
         /\ lockedBy' = [lockedBy EXCEPT ![e] = NoOwner]
         /\ lockedUntil' = [lockedUntil EXCEPT ![e] = "null"]
         /\ due' = [due EXCEPT ![e] = @ /\ op # "release"]
    ELSE UNCHANGED rowVars

-----------------------------------------------------------------------------
(* A publisher process.                                                    *)

(* publishBatch waits for its whole pool before the next tick claims.      *)
Ready(o) == o \in alive /\ \A e \in Events : stage[o][e] = "none"

(* publishBatch with rows to do: Claim, then all rows go to the pool.      *)
Claim(o) ==
    /\ Ready(o)
    /\ \E S \in Candidates \ {{}} :
          /\ LockRows(o, S)
          /\ stage' = [stage EXCEPT ![o] =
                         [e \in Events |-> IF e \in S THEN "queued" ELSE "none"]]
    /\ UNCHANGED <<topic, alive, late, lateClaims>>

(* Claim returned an error (timeout, connection, Scan): publishBatch does   *)
(* nothing, and the UPDATE it sent may still be executed.                  *)
ClaimError(o) ==
    /\ Ready(o)
    /\ o \notin lateClaims
    /\ Cardinality(lateClaims) < MaxLate
    /\ lateClaims' = lateClaims \cup {o}
    /\ UNCHANGED <<rowVars, topic, stage, alive, late>>

(* It is executed, whatever o does by now: rows leased and nobody at work. *)
LateClaim(o) ==
    /\ o \in lateClaims
    /\ \E S \in Candidates : LockRows(o, S)
    /\ lateClaims' = lateClaims \ {o}
    /\ UNCHANGED <<topic, stage, alive, late>>

(* It never ran. *)
LateClaimDrop(o) ==
    /\ o \in lateClaims
    /\ lateClaims' = lateClaims \ {o}
    /\ UNCHANGED <<rowVars, topic, stage, alive, late>>

Active(o) == {e \in Events : stage[o][e] \in {"publish"} \cup Statements}

(* Mutant of Start: the row is not checked before it is published. *)
StartUnchecked(o, e) ==
    /\ stage[o][e] = "queued"
    /\ Cardinality(Active(o)) < Workers
    /\ stage' = [stage EXCEPT ![o][e] = "publish"]
    /\ UNCHANGED <<rowVars, topic, alive, late, lateClaims>>

(* A pool worker takes a job; publishOne checks the row before any call.   *)
Start(o, e) ==
    /\ stage[o][e] = "queued"
    /\ Cardinality(Active(o)) < Workers
    /\ stage' = [stage EXCEPT ![o][e] = IF e \in Invalid THEN "fail" ELSE "publish"]
    /\ UNCHANGED <<rowVars, topic, alive, late, lateClaims>>

(* Publish returned nil: all in-sync replicas have the record.             *)
PublishAck(o, e) ==
    /\ stage[o][e] = "publish"
    /\ topic' = topic \cup {e}
    /\ stage' = [stage EXCEPT ![o][e] = "mark"]
    /\ UNCHANGED <<rowVars, alive, late, lateClaims>>

(* Mutant of PublishError: the error is dropped and the row is marked. *)
PublishErrorIgnored(o, e) ==
    /\ stage[o][e] = "publish"
    /\ topic' \in {topic, topic \cup {e}}
    /\ stage' = [stage EXCEPT ![o][e] = "mark"]
    /\ UNCHANGED <<rowVars, alive, late, lateClaims>>

(* Publish returned an error; the broker may have the record all the same. *)
PublishError(o, e) ==
    /\ stage[o][e] = "publish"
    /\ topic' \in {topic, topic \cup {e}}
    /\ stage' = [stage EXCEPT ![o][e] = "release"]
    /\ UNCHANGED <<rowVars, alive, late, lateClaims>>

(* The closing statement ran; the handler returns whatever it reported.    *)
Close(o, e) ==
    /\ stage[o][e] \in Statements
    /\ Execute(stage[o][e], o, e)
    /\ stage' = [stage EXCEPT ![o][e] = "none"]
    /\ UNCHANGED <<topic, alive, late, lateClaims>>

(* DatabaseTimeout or a broken connection: the handler returns, and the    *)
(* statement it sent may still be executed later.                          *)
Abandon(o, e) ==
    /\ stage[o][e] \in Statements
    /\ Cardinality(late) < MaxLate
    /\ late' = late \cup {<<stage[o][e], o, e>>}
    /\ stage' = [stage EXCEPT ![o][e] = "none"]
    /\ UNCHANGED <<rowVars, topic, alive, lateClaims>>

LateExecute(op, o, e) ==
    /\ <<op, o, e>> \in late
    /\ Execute(op, o, e)
    /\ late' = late \ {<<op, o, e>>}
    /\ UNCHANGED <<topic, stage, alive, lateClaims>>

LateDrop(op, o, e) ==
    /\ <<op, o, e>> \in late
    /\ late' = late \ {<<op, o, e>>}
    /\ UNCHANGED <<rowVars, topic, stage, alive, lateClaims>>

(* A crash, or SIGTERM: the canceled context fails every queued job and    *)
(* every call under way, Release included, and leaves the rows leased.     *)
(* Records and statements already sent may still take effect.              *)
Terminate(o) ==
    /\ o \in alive \cap Mortal
    /\ alive' = alive \ {o}
    /\ \E sent \in SUBSET {e \in Events : stage[o][e] = "publish"} :
          topic' = topic \cup sent
    /\ \E sent \in SUBSET {e \in Events : stage[o][e] \in Statements} :
          /\ Cardinality(late) + Cardinality(sent) <= MaxLate
          /\ late' = late \cup {<<stage[o][e], o, e>> : e \in sent}
    /\ stage' = [stage EXCEPT ![o] = [e \in Events |-> "none"]]
    /\ UNCHANGED <<rowVars, lateClaims>>

-----------------------------------------------------------------------------
(* Time.                                                                   *)

(* What is still to come from owner o about row e.                         *)
Engaged(o, e) ==
    \/ stage[o][e] # "none"
    \/ \E op \in Statements : <<op, o, e>> \in late

LeaseExpires(e) ==
    /\ lockedUntil[e] = "future"
    /\ LeaseCovers => ~ \E o \in Owners : lockedBy[e] = o /\ Engaged(o, e)
    /\ lockedUntil' = [lockedUntil EXCEPT ![e] = "past"]
    /\ UNCHANGED <<status, lockedBy, due, topic, stage, alive, late, lateClaims>>

BecomesDue(e) ==
    /\ status[e] \in {"PENDING", "PROCESSING"}
    /\ ~due[e]
    /\ due' = [due EXCEPT ![e] = TRUE]
    /\ UNCHANGED <<status, lockedBy, lockedUntil, topic, stage, alive, late, lateClaims>>

Next ==
    \/ \E e \in Events : Insert(e) \/ LeaseExpires(e) \/ BecomesDue(e)
    \/ \E o \in Owners : Claim(o) \/ ClaimError(o) \/ LateClaim(o) \/ LateClaimDrop(o) \/ Terminate(o)
    \/ \E o \in Owners, e \in Events :
          \/ Start(o, e)
          \/ PublishAck(o, e)
          \/ PublishError(o, e)
          \/ Close(o, e)
          \/ Abandon(o, e)
          \/ \E op \in Statements : LateExecute(op, o, e) \/ LateDrop(op, o, e)

Spec == Init /\ [][Next]_vars

(* Processes are scheduled, time passes, and every call ends by its timeout. *)
(* For the publishers that stay alive no error is permanent: a claim, a    *)
(* publication or a settling statement that is tried again and again is    *)
(* not refused every time.                                                 *)
Fairness ==
    /\ \A e \in Events : WF_vars(LeaseExpires(e)) /\ WF_vars(BecomesDue(e))
    /\ \A o \in Owners : WF_vars(LateClaim(o) \/ LateClaimDrop(o))
    /\ \A o \in Owners, e \in Events :
          /\ WF_vars(Start(o, e))
          /\ WF_vars(PublishAck(o, e) \/ PublishError(o, e))
          /\ WF_vars(Close(o, e) \/ Abandon(o, e))
          /\ \A op \in Statements : WF_vars(LateExecute(op, o, e) \/ LateDrop(op, o, e))
    /\ \A o \in Owners \ Mortal, e \in Events :
          /\ SF_vars(Claim(o) /\ stage'[o][e] = "queued")
          /\ SF_vars(PublishAck(o, e))
          /\ SF_vars(stage[o][e] # "release" /\ Close(o, e))

FairSpec == Spec /\ Fairness

-----------------------------------------------------------------------------
(* Properties.                                                             *)

(* A row says PUBLISHED only if Kafka has its event: no error, timeout or  *)
(* lost lease on the way makes publishOne mark an event that is not there. *)
(* (An append whose acknowledgement was lost counts as well.)              *)
PublishedIsOnTopic == \A e \in Events : status[e] = "PUBLISHED" => e \in topic

(* An event publishOne finds invalid never reaches Kafka, however often the *)
(* row is claimed again, and only such an event ends up FAILED.            *)
PoisonContained ==
    /\ topic \cap Invalid = {}
    /\ \A e \in Events : status[e] = "FAILED" => e \in Invalid

(* PUBLISHED and FAILED are final: neither a new claim nor a closing       *)
(* statement of a publisher that lost its lease takes a row out of them.   *)
TerminalIsFinal ==
    [][\A e \in Events : status[e] \in {"PUBLISHED", "FAILED"} => status'[e] = status[e]]_vars

(* A row with an unexpired lease leaves its holder only by a statement of  *)
(* that holder: a publisher whose own lease ran out can neither settle nor *)
(* release a row that another publisher has claimed since.                 *)
ForeignLeaseIntact ==
    [][\A o \in Owners, e \in Events :
          lockedBy[e] = o /\ lockedUntil[e] = "future" /\ lockedBy'[e] # o
             => \E op \in Statements : stage[o][e] = op \/ <<op, o, e>> \in late]_vars

(* When leases cover the work of their holders, no row is in the pools of  *)
(* two publishers at once, and whoever handles a row holds its lease.      *)
HandlerHoldsLease ==
    \A o \in Owners, e \in Events :
       stage[o][e] # "none" => lockedBy[e] = o /\ lockedUntil[e] = "future"

SingleHandler ==
    LeaseCovers => HandlerHoldsLease

(* Every inserted event is settled in the end, through errors, lost claims, *)
(* abandoned statements and publishers that die with rows in their hands:  *)
(* valid ones PUBLISHED, invalid ones FAILED.                              *)
EventuallySettled ==
    \A e \in Events :
       status[e] = "PENDING" ~> status[e] = (IF e \in Invalid THEN "FAILED" ELSE "PUBLISHED")
=============================================================================
