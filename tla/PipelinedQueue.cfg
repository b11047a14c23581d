SPECIFICATION FairSpec
CONSTANTS
    w1 = w1
    k1 = k1
    k2 = k2
    Nobody = Nobody
    Workers <- OneWorker
    NumMsgs = 3
    Keys <- MCKeys
    KeyOf <- TwoOfOneKey
    Position <- OneTurn
    TurnLength = 10
    MaxInFlight = 2
    ReadCount = 2
    ReclaimCount = 2
    Timeout = 2
    MinIdle = 3
    MaxAttempts = 2
    MaxFaults = 1
INVARIANTS
    SaidInOrder
PROPERTIES
    OwnWorkStaysPending
    EventuallySettled
