------------------------- MODULE MCPipelinedQueue -------------------------
(* TLC instances of PipelinedQueue: three messages, two of them of one key. *)
EXTENDS PipelinedQueue, TLC

CONSTANTS w1, k1, k2

MCKeys == {k1, k2}
OneWorker == {w1}

\* The first and the last message share a key, and a turn.
TwoOfOneKey == [m \in 1..3 |-> IF m = 2 THEN k2 ELSE k1]
OneTurn == [m \in 1..3 |-> 10 + m]

ASSUME InStreamOrder
=============================================================================
