SPECIFICATION Spec
CONSTANTS
    t1 = t1
    t2 = t2
    Tracks <- MCTracks
    Sentences <- MCSentences
    Says <- MCSays
    Batches <- MCBatches
    Contexts <- MCContexts
    Slots = 1
    MaxRetries = 1
    MaxAttempts = 2
    MaxVoices = 2
    MaxFaults = 2
    MaxTurns = 1
INVARIANT SlotsComeBack SaidOnce NothingDropped
PROPERTY InOrder
CHECK_DEADLOCK FALSE
