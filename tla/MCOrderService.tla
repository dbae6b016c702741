--------------------------- MODULE MCOrderService ---------------------------
(* Instances of OrderService: lists of at most two items over amounts at   *)
(* and around the limit, with int64 reduced to the numbers up to 7.        *)
EXTENDS OrderService

CONSTANTS r1, RawBytes  \* how many bytes of a header may be no UTF-8

MCRequest == {r1}
MCSKU == {"blank", "a", "b"}
MCBadSKU == {"blank"}

MCItem == [sku : MCSKU, quantity : 0 .. 3, unit_price_minor : {0, 1, 2, 3, 6, 7}]
MCItems == {<< >>} \cup {<<i>> : i \in MCItem} \cup
           {<<i, j>> : i \in {k \in MCItem : k.sku = "a"},
                       j \in {k \in MCItem : k.sku # "blank"}}

MCCommands ==
    [customer : {TRUE}, warehouse : {TRUE}, items : MCItems]
        \cup [customer : BOOLEAN, warehouse : BOOLEAN,
              items : {<<[sku |-> "a", quantity |-> 1, unit_price_minor |-> 1]>>}]

(* No header, one byte, the limit and one byte more.                       *)
MCHeaders == {h \in [size : {0, 1, MaxRequestID, MaxRequestID + 1}, raw : RawBytes] :
                h.raw <= h.size}
=============================================================================
