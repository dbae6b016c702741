----------------------------- MODULE MCConsumer -----------------------------
(* Small instances of Consumer for TLC: one partition per topic, two workers. *)
(* Twins are two events of one order that come to different verdicts; the    *)
(* mixed instance holds one event of each kind that is refused at sight.    *)
EXTENDS Consumer, TLC

CONSTANTS e1, e2, e3, o1, o2, o3, created, retry, w1, w2

Partitions == {created, retry}
Workers == {w1, w2}
WorkerSymmetry == Permutations(Workers)
AllCreated == [e \in Event |-> created]
AllRetry == [e \in Event |-> retry]
Verdicts == [e \in Event |-> IF e = e1 THEN "CONFIRMED" ELSE "FAILED"]

Twins == {e1, e2}
TwinOrder == {o1}
SameOrder == [e \in Twins |-> o1]
AllValid == [e \in Twins |-> "valid"]

Pair == {e1, e2}
PairOrders == {o1, o2}
PairOrder == (e1 :> o1) @@ (e2 :> o2)
PairKinds == (e1 :> "valid") @@ (e2 :> "unsettleable")

Mixed == {e1, e2, e3}
MixedOrders == {o1, o2, o3}
OwnOrder == (e1 :> o1) @@ (e2 :> o2) @@ (e3 :> o3)
MixedKinds == (e1 :> "valid") @@ (e2 :> "badPayload") @@ (e3 :> "malformed")
=============================================================================
