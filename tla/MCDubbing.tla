----------------------------- MODULE MCDubbing -----------------------------
(***************************************************************************)
(* Two sentences of one speaker, the second of which may continue the      *)
(* first, and one of another, in a plan with a single slot; a sentence by  *)
(* itself meets two faults.                                                *)
(***************************************************************************)
EXTENDS Dubbing

CONSTANTS t1, t2

Sentence(track, position, final, mute, voices) ==
    [track |-> track, position |-> position, final |-> final, mute |-> mute, voices |-> voices]

MCTracks == {t1, t2}
MCSentences == 1..3
MCBatches == {[says |-> {1, 2}, faults |-> 1], [says |-> {1, 3}, faults |-> 1],
              [says |-> {2}, faults |-> 2]}
MCSays == <<Sentence(t1, 1, FALSE, FALSE, 1), Sentence(t1, 2, TRUE, FALSE, 1), Sentence(t2, 1, FALSE, FALSE, 2)>>
MCContexts == 1..3
=============================================================================
