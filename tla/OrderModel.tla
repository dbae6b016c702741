----------------------------- MODULE OrderModel -----------------------------
(***************************************************************************)
(* internal/order/model.go and internal/event/envelope.go: validation of a *)
(* command with machine integers, the event built from it, and what the    *)
(* publisher and the worker ask of that event after it went through JSON.  *)
(*                                                                         *)
(* A command is a record of customer and warehouse (TRUE: not the nil      *)
(* uuid) and a sequence of items.  A request id is the number of its bytes *)
(* after TrimSpace, and how many of them are no UTF-8 text.                *)
(***************************************************************************)
EXTENDS Integers, Sequences

CONSTANTS
    MaxInt64,      \* largest int64
    MaxRequestID,  \* 128
    UUIDSize,      \* length of a uuid as text
    SKU,           \* values of sku
    BadSKU         \* skus that are blank or longer than 128 characters

ASSUME OrderModelAssumption ==
    /\ MaxInt64 \in Nat \ {0}
    /\ MaxRequestID \in Nat \ {0}
    /\ UUIDSize \in 1 .. MaxRequestID

Int64 == -(MaxInt64 + 1) .. MaxInt64

(* CreateCommand after JSON: the types of its fields are all it promises.  *)
(* (quantity is an int32, which validate widens before it computes.)       *)
Item == [sku : SKU, quantity : Int64, unit_price_minor : Int64]
Command == [customer : BOOLEAN, warehouse : BOOLEAN, items : Seq(Item)]

(* int64 arithmetic wraps around.                                          *)
Wrap(x) == ((x + MaxInt64 + 1) % (2 * (MaxInt64 + 1))) - (MaxInt64 + 1)

Refused == -1

(* Mutant of AddLine: the product is not guarded.                          *)
AddLineUnguarded(total, quantity, price) ==
    LET lineTotal == Wrap(quantity * price)
    IN IF total > Wrap(MaxInt64 - lineTotal) THEN Refused ELSE Wrap(total + lineTotal)

(* Mutant of AddLine: the sum is not guarded.                              *)
AddLineUnbounded(total, quantity, price) ==
    IF price > MaxInt64 \div quantity THEN Refused ELSE Wrap(total + Wrap(quantity * price))

(* The overflow guards and the sum of one round of the loop in validate.   *)
AddLine(total, quantity, price) ==
    LET lineTotal == Wrap(quantity * price)
    IN IF \/ price > MaxInt64 \div quantity
          \/ total > Wrap(MaxInt64 - lineTotal)
       THEN Refused ELSE Wrap(total + lineTotal)

(* Item k is refused before any arithmetic.                                *)
Unacceptable(items, k) ==
    \/ items[k].sku \in BadSKU
    \/ items[k].quantity <= 0 \/ items[k].unit_price_minor <= 0
    \/ \E j \in 1 .. k - 1 : items[j].sku = items[k].sku

(* The loop: the total of the first k items, or Refused.                   *)
TotalOf(items) ==
    LET total[k \in 0 .. Len(items)] ==
          IF k = 0 THEN 0
          ELSE IF total[k - 1] = Refused \/ Unacceptable(items, k) THEN Refused
          ELSE AddLine(total[k - 1], items[k].quantity, items[k].unit_price_minor)
    IN total[Len(items)]

validate(command) ==
    IF ~command.customer \/ ~command.warehouse \/ command.items = << >> THEN Refused
    ELSE TotalOf(command.items)

-----------------------------------------------------------------------------
(* requestIDMiddleware: an empty or too long id is replaced by a uuid.     *)
RequestID(header) ==
    IF header.size = 0 \/ header.size > MaxRequestID
    THEN [size |-> UUIDSize, raw |-> 0] ELSE header

(* The part of Envelope.Validate that is about what clients send.          *)
EnvelopeValid(envelope) == envelope.request_id.size \in 1 .. MaxRequestID

(* Mutant of Created: the total is that of the unit prices.                *)
CreatedUnitTotal(command, request_id) ==
    [request_id |-> request_id, command |-> command,
     total |-> TotalOf([k \in DOMAIN command.items |-> [command.items[k] EXCEPT !.quantity = 1]])]

(* The OrderCreated event of Service.Create.                               *)
Created(command, request_id) ==
    [request_id |-> request_id, command |-> command, total |-> validate(command)]

(* json.Marshal writes U+FFFD, three bytes, for a byte that is no UTF-8;   *)
(* numbers and the other fields come back as they were.                    *)
Stored(envelope) ==
    [envelope EXCEPT !.request_id = [size |-> @.size + 2 * @.raw, raw |-> 0]]

(* CreatedPayload.Validate, which the worker calls.                        *)
PayloadValid(envelope) ==
    LET total == validate(envelope.command) IN total # Refused /\ total = envelope.total

-----------------------------------------------------------------------------
(* The same in exact arithmetic.                                           *)

ExactTotal(items) ==
    LET total[k \in 0 .. Len(items)] ==
          IF k = 0 THEN 0
          ELSE total[k - 1] + items[k].quantity * items[k].unit_price_minor
    IN total[Len(items)]

WellFormed(command) ==
    /\ command.customer /\ command.warehouse
    /\ command.items # << >>
    /\ \A k \in DOMAIN command.items : ~Unacceptable(command.items, k)
=============================================================================
