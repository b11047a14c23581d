SPECIFICATION FairSpec
CONSTANTS
    p1 = p1
    p2 = p2
    Nobody = Nobody
    Replicas <- TwoReplicas
    Lease = 3
    Grace = 2
    MaxBackoff = 1
    MaxEvents = 1
    MaxFaults = 1
    MaxMissed = 1
PROPERTIES
    NoEviction
    MeetingIsHeard
    EmptyRoomIsLeft
