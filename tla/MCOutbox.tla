------------------------------ MODULE MCOutbox ------------------------------
(* Outbox.tla with two workers, one in each of two replicas. *)
EXTENDS Outbox

CONSTANTS w1, w2

MCWorkers == {w1, w2}
=============================================================================
