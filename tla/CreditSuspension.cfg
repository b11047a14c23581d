SPECIFICATION FairSpec
CONSTANTS
    a = a
    b = b
    translation = translation
    dubbing = dubbing
    r1 = r1
    NoRoom = NoRoom
    Replicas <- TwoReplicas
    Handlers <- TwoStreams
    Home <- Apart
    Rooms <- OneRoom
    Ttl = 2
    MaxSubs = 2
    MaxChanges = 2
    MaxEvents = 2
    MaxFaults = 1
PROPERTIES
    UnpaidRoomStops
    PaidRoomsRun
