SPECIFICATION FairSpec
CONSTANTS
    en = en
    ja = ja
    shared = shared
    picked = picked
    stock = stock
    cloned = cloned
    Languages <- MCLanguages
    Heard <- MCDubbed
    Dubbed <- MCDubbed
    Fallback = en
    Voices <- MCVoices
    Default = shared
    Kinds <- MCKinds
    Scenes <- MCScenes
    Bridged = TRUE
    MaxSentences = 2
    MaxFaults = 1
    MaxTurns = 1
INVARIANT OneParticipant TellsWhoseVoice
PROPERTY LanguageLeaves
CHECK_DEADLOCK FALSE
