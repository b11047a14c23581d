--------------------------- MODULE MCWorkerQueue ---------------------------
(* TLC instances of WorkerQueue: two replicas, a few messages, small times. *)
EXTENDS WorkerQueue

CONSTANTS w1, w2

MCWorkers == {w1, w2}
=============================================================================
