--------------------------- MODULE MCStreamTrim ---------------------------
(* TLC instances of StreamTrim.                                            *)
EXTENDS StreamTrim, TLC

CONSTANTS g1, g2, p1, p2

MCGroups == {g1, g2}
MCPublishers == {p1, p2}
OnePublisher == {p1}
OneGroup == {g1}
GroupSymmetry == Permutations(MCGroups)
=============================================================================
