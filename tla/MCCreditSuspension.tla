------------------------ MODULE MCCreditSuspension ------------------------
(* TLC instances of CreditSuspension.                                      *)
EXTENDS CreditSuspension, TLC

CONSTANTS a, b, translation, dubbing, r1

TwoReplicas == {a, b}
TwoStreams == {translation, dubbing}

\* Each stream handled by a replica of its own.
Apart == (translation :> a) @@ (dubbing :> b)

OneRoom == {r1}
=============================================================================
