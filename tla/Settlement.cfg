SPECIFICATION Spec
CONSTANTS
    r1 = r1
    r2 = r2
    room1 = room1
    room2 = room2
    Replicas <- MCReplicas
    Rooms <- MCRooms
    Messages <- MCMessages
    Says <- MCSays
    Batches <- MCBatches
    Rate = 1
    MaxAttempts = 2
    MaxDeliveries = 2
    MaxPlans = 2
    MaxCredits = 2
    MaxFaults = 1
    MaxTurns = 1
INVARIANT ChargedOnce ChargedInFull NothingForFree
SYMMETRY MCSymmetry
CHECK_DEADLOCK FALSE
