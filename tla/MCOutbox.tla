------------------------------ MODULE MCOutbox ------------------------------
(* Small instances of Outbox for TLC: a valid and an invalid row inserted by *)
(* processes whose clocks agree on their order, and two publishers.         *)
EXTENDS Outbox, TLC

CONSTANTS good, poison, p1, p2

AllEvents == {good, poison}
PoisonEvents == {poison}
GoodFirst == (good :> 1) @@ (poison :> 2)
TwoOwners == {p1, p2}
OneMortal == {p1}
OwnerSymmetry == Permutations(TwoOwners)
=============================================================================
