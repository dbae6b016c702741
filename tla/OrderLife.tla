------------------------------ MODULE OrderLife ------------------------------
(***************************************************************************)
(* What the three programs together promise about an order: it is placed   *)
(* once, the decision computed from its contents is taken at most once,    *)
(* and the world is told only of decisions that were taken.                *)
(***************************************************************************)
CONSTANTS
    Order,
    Verdict  \* the decision the contents of an order call for

VARIABLES
    life,  \* the status of each order, "ABSENT" before it is placed
    told   \* orders whose OrderStatusChanged event is on Kafka

lifeVars == <<life, told>>

Init == life = [o \in Order |-> "ABSENT"] /\ told = {}

Place(o) ==
    /\ life[o] = "ABSENT"
    /\ life' = [life EXCEPT ![o] = "PENDING"]
    /\ UNCHANGED told

Decide(o) ==
    /\ life[o] = "PENDING"
    /\ life' = [life EXCEPT ![o] = Verdict[o]]
    /\ UNCHANGED told

Tell(o) ==
    /\ life[o] \in {"CONFIRMED", "FAILED"}
    /\ told' = told \cup {o}
    /\ UNCHANGED life

Next == \E o \in Order : Place(o) \/ Decide(o) \/ Tell(o)

Spec == Init /\ [][Next]_lifeVars
=============================================================================
