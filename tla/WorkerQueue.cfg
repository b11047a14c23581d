SPECIFICATION FairSpec
CONSTANTS
    w1 = w1
    w2 = w2
    Nobody = Nobody
    Workers <- MCWorkers
    NumMsgs = 2
    Timeout = 2
    Margin = 1
    IdleFloor = 1
    ReclaimCount = 2
    MaxAttempts = 3
    Lag = 0
    MaxFaults = 1
INVARIANTS
    NothingLost
    OnlyTailsAreTakenOver
    ParkedAfterAttempts
PROPERTIES
    ImplementsAtLeastOnce
    EventuallySettled
