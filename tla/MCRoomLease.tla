---------------------------- MODULE MCRoomLease ----------------------------
(* TLC instances of RoomLease: two replicas, as the chart deploys them.    *)
EXTENDS RoomLease

CONSTANTS p1, p2

TwoReplicas == {p1, p2}
=============================================================================
