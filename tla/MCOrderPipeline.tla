--------------------------- MODULE MCOrderPipeline ---------------------------
(* A small instance of OrderPipeline and Checkout: a user who adds and      *)
(* orders a few times.  Where there is a broker the carts are empty, and    *)
(* where items are added there is none: neither has to do with the other.   *)
EXTENDS OrderPipeline, TLC

Requests == Permutations(Adds) \cup Permutations(Orders)

MCInit ==
  /\ PipelineInit
  /\ adding = [a \in Adds |-> IF producer = "unset" THEN "new" ELSE "failed"]

MCSpec == MCInit /\ [][PipelineNext]_pipelineVars
=============================================================================
