SPECIFICATION FairSpec
CONSTANTS
    vi = vi
    ja = ja
    Langs <- languages
    Scenes <- scenes
    MaxMessages = 3
    MaxLength = 2
    MaxInFlight = 2
    MaxTries = 2
    MaxFaults = 2
INVARIANTS OnceUnlessInDoubt CompleteUnlessStranded
PROPERTIES InTurn AllSettled
CHECK_DEADLOCK FALSE
