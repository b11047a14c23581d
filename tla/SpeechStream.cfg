SPECIFICATION FairSpec
CONSTANTS
    MaxTurns = 2
    MaxPieces = 3
    MaxFaults = 1
    MaxSessions = 5
INVARIANT OneDelivery
PROPERTIES FromTheBeginning Settled
CHECK_DEADLOCK FALSE
