---------------------------- MODULE MCProcessor ----------------------------
(* The processor of cmd/order-worker: three operations, of which inventory *)
(* may refuse an order; here delivery may too, as any required one could.  *)
EXTENDS Processor

AllOperations == {"inventory", "delivery", "notification"}
RequiredOperations == {"inventory", "delivery"}
=============================================================================
