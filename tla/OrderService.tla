---------------------------- MODULE OrderService ----------------------------
(***************************************************************************)
(* The order service: requests that create an order with its items and its *)
(* OrderCreated event in one transaction, a reader that asks for an order  *)
(* with two statements, and the shutdown of the server around them.        *)
(*                                                                         *)
(* The order of a request has the request's name (its uuid is fresh).  A   *)
(* row is the request and the number of the statement that inserts it: the *)
(* order, then each item, then the event.                                  *)
(***************************************************************************)
EXTENDS OrderModel, FiniteSets

CONSTANTS
    Request,   \* calls of POST /api/v1/orders
    Commands,  \* what they may ask for
    Headers    \* values of X-Request-ID

ASSUME OrderServiceAssumption ==
    /\ Request # {}
    /\ Commands \subseteq Command
    /\ Headers \subseteq [size : Nat, raw : Nat]

VARIABLES
    server,   \* "serving", "closing" (in Shutdown), "drained" or "dead"
    stage,    \* of each request: where create is, or its answer
    command,  \* what the request asks for
    event,    \* the event built for it
    done,     \* statements executed in its transaction
    rows,     \* rows that are committed
    inDoubt,  \* requests whose COMMIT was sent and not answered
    get       \* the reader: where it is, which order, which items it found

vars == <<server, stage, command, event, done, rows, inDoubt, get>>

Answers == {"201", "400", "422", "500"}
NoGet == [at |-> "idle", order |-> CHOOSE r \in Request : TRUE, items |-> {}]

Statements(r) == Len(command[r].items) + 2
Row(r, k) == <<r, k>>
Rows(r) == {Row(r, k) : k \in 1 .. Statements(r)}
ItemRows(r) == {Row(r, k) : k \in 2 .. Statements(r) - 1}

NoCommand == [customer |-> FALSE, warehouse |-> FALSE, items |-> << >>]

TypeOK ==
    /\ server \in {"serving", "closing", "drained", "dead"}
    /\ stage \in [Request -> {"none", "tx", "cut"} \cup Answers]
    /\ \A r \in Request :
          /\ command[r] \in Commands \cup {NoCommand}
          /\ done[r] \in 0 .. Statements(r)
          /\ stage[r] = "tx" => event[r].total \in 1 .. MaxInt64
    /\ rows \subseteq UNION {Rows(r) : r \in Request}
    /\ inDoubt \subseteq Request
    /\ get.at \in {"idle", "found", "200", "404", "500"}
    /\ get.order \in Request

Init ==
    /\ server = "serving"
    /\ stage = [r \in Request |-> "none"]
    /\ command = [r \in Request |-> NoCommand]
    /\ event = [r \in Request |-> Created(NoCommand, [size |-> UUIDSize, raw |-> 0])]
    /\ done = [r \in Request |-> 0]
    /\ rows = {}
    /\ inDoubt = {}
    /\ get = NoGet

Up == server \in {"serving", "closing"}

-----------------------------------------------------------------------------
(* create.                                                                 *)

(* The body is no JSON object of the right shape, or a uuid is malformed.  *)
ReceiveMalformed(r) ==
    /\ server = "serving"
    /\ stage[r] = "none"
    /\ stage' = [stage EXCEPT ![r] = "400"]
    /\ UNCHANGED <<server, command, event, done, rows, inDoubt, get>>

(* Service.Create up to BeginTx: validation, the order and its event.      *)
Receive(r, c, header) ==
    /\ server = "serving"
    /\ stage[r] = "none"
    /\ command' = [command EXCEPT ![r] = c]
    /\ event' = [event EXCEPT ![r] = Created(c, RequestID(header))]
    /\ stage' = [stage EXCEPT ![r] =
                   IF validate(c) = Refused THEN "422"
                   ELSE IF ~EnvelopeValid(Created(c, RequestID(header))) THEN "500" ELSE "tx"]
    /\ UNCHANGED <<server, done, rows, inDoubt, get>>

InTx(r) == Up /\ stage[r] = "tx"

(* Mutant of Execute: the statement runs on the pool, not in tx.           *)
ExecuteOnPool(r) ==
    /\ InTx(r)
    /\ done[r] < Statements(r)
    /\ done' = [done EXCEPT ![r] = @ + 1]
    /\ rows' = rows \cup {Row(r, done[r] + 1)}
    /\ UNCHANGED <<server, stage, command, event, inDoubt, get>>

(* The next INSERT of CreateWithEvent; nobody else sees it yet.            *)
Execute(r) ==
    /\ InTx(r)
    /\ done[r] < Statements(r)
    /\ done' = [done EXCEPT ![r] = @ + 1]
    /\ UNCHANGED <<server, stage, command, event, rows, inDoubt, get>>

(* BeginTx or a statement fails or the 5 s are over: Rollback.             *)
ExecuteFails(r) ==
    /\ InTx(r)
    /\ done[r] < Statements(r)
    /\ stage' = [stage EXCEPT ![r] = "500"]
    /\ UNCHANGED <<server, command, event, done, rows, inDoubt, get>>

Commit(r) ==
    /\ InTx(r)
    /\ done[r] = Statements(r)
    /\ rows' = rows \cup Rows(r)
    /\ stage' = [stage EXCEPT ![r] = "201"]
    /\ UNCHANGED <<server, command, event, done, inDoubt, get>>

CommitLost(r, answer) ==
    /\ InTx(r)
    /\ done[r] = Statements(r)
    /\ inDoubt' = inDoubt \cup {r}
    /\ stage' = [stage EXCEPT ![r] = answer]
    /\ UNCHANGED <<server, command, event, done, rows, get>>

(* Mutant of CommitFails: the error of Commit is dropped.                  *)
CommitFailsUnnoticed(r) == CommitLost(r, "201")

(* Commit returns an error; the transaction may be committed all the same. *)
CommitFails(r) == CommitLost(r, "500")

(* The outcome of such a transaction.                                      *)
Resolve(r) ==
    /\ r \in inDoubt
    /\ rows' \in {rows, rows \cup Rows(r)}
    /\ inDoubt' = inDoubt \ {r}
    /\ UNCHANGED <<server, stage, command, event, done, get>>

-----------------------------------------------------------------------------
(* get.                                                                    *)

(* The first statement: the row of the order, or 404.                      *)
GetOrder(r) ==
    /\ Up
    /\ get.at # "found"
    /\ get' = [at |-> IF Row(r, 1) \in rows THEN "found" ELSE "404", order |-> r, items |-> {}]
    /\ UNCHANGED <<server, stage, command, event, done, rows, inDoubt>>

(* The second: its items, in a snapshot of its own.                       *)
GetItems ==
    /\ Up
    /\ get.at = "found"
    /\ get' = [get EXCEPT !.at = "200", !.items = rows \cap ItemRows(get.order)]
    /\ UNCHANGED <<server, stage, command, event, done, rows, inDoubt>>

(* A statement fails or the 3 s are over.                                  *)
GetFails(r) ==
    /\ Up
    /\ get.at = "found" => get.order = r
    /\ get' = [at |-> "500", order |-> r, items |-> {}]
    /\ UNCHANGED <<server, stage, command, event, done, rows, inDoubt>>

-----------------------------------------------------------------------------
(* ListenAndServe and the end of the process.                              *)

(* The signal: Shutdown takes no new request; the accepted ones run on.    *)
Close ==
    /\ server = "serving"
    /\ server' = "closing"
    /\ UNCHANGED <<stage, command, event, done, rows, inDoubt, get>>

(* Shutdown returns nil when no handler is running.                        *)
Drained ==
    /\ server = "closing"
    /\ \A r \in Request : stage[r] # "tx"
    /\ get.at # "found"
    /\ server' = "drained"
    /\ UNCHANGED <<stage, command, event, done, rows, inDoubt, get>>

(* Shutdown runs into shutdownTimeout, serving fails, or the process is    *)
(* killed: handlers are cut off, and a COMMIT may be on its way.           *)
Die ==
    /\ Up
    /\ server' = "dead"
    /\ stage' = [r \in Request |-> IF stage[r] = "tx" THEN "cut" ELSE stage[r]]
    /\ inDoubt' \in {inDoubt, inDoubt \cup {r \in Request : InTx(r) /\ done[r] = Statements(r)}}
    /\ get' = [get EXCEPT !.at = IF @ = "found" THEN "idle" ELSE @]
    /\ UNCHANGED <<command, event, done, rows>>

-----------------------------------------------------------------------------
Create(r) ==
    \/ ReceiveMalformed(r)
    \/ \E c \in Commands, header \in Headers : Receive(r, c, header)
    \/ Execute(r) \/ ExecuteFails(r)
    \/ Commit(r) \/ CommitFails(r) \/ Resolve(r)

Get == GetItems \/ \E r \in Request : GetOrder(r) \/ GetFails(r)

Next == (\E r \in Request : Create(r)) \/ Get \/ Close \/ Drained \/ Die

Spec == Init /\ [][Next]_vars

-----------------------------------------------------------------------------
(* Nobody ever sees an order without all its items or without its event,   *)
(* however the transaction of CreateWithEvent ends: with an error, with a  *)
(* lost answer to COMMIT, or with the process.                             *)
OrderWhole ==
    \A r \in Request : rows \cap Rows(r) \in {{}, Rows(r)}

(* A client that was told 201 has an order and an event in the tables, and *)
(* one that was told 4xx never gets an order later.                        *)
CreatedIsStored ==
    \A r \in Request :
        /\ stage[r] = "201" => Rows(r) \subseteq rows
        /\ stage[r] \in {"400", "422"} => r \notin inDoubt /\ Row(r, 1) \notin rows

(* Get reads the order and its items with two statements and no common     *)
(* snapshot; an answer 200 still has every item of the order.              *)
ReadIsWhole ==
    get.at = "200" => get.items = ItemRows(get.order)

(* The overflow guards of validate are exact: a stored total is the sum in *)
(* unbounded arithmetic, and a well-formed command is refused only if that *)
(* sum does not fit an int64.                                              *)
TotalExact ==
    \A r \in Request :
        LET exact == ExactTotal(command[r].items) IN
        /\ Row(r, 1) \in rows => event[r].total = exact /\ exact \in 1 .. MaxInt64
        /\ stage[r] = "422" /\ WellFormed(command[r]) => exact > MaxInt64

(* Whatever the client sent, an event that was committed is accepted again *)
(* by the checks of the publisher and of the worker once it went through   *)
(* the JSON of the outbox row.                                             *)
EventPublishable ==
    \A r \in Request :
        Row(r, Statements(r)) \in rows =>
            EnvelopeValid(Stored(event[r])) /\ PayloadValid(Stored(event[r]))
=============================================================================
