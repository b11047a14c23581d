SPECIFICATION Spec
CONSTANTS
    Unknown = Unknown
    Statuses <- MCStatuses
    Terminal <- MCTerminal
    Live <- MCLive
    Routes <- MCRoutes
    Carried <- MCCarried
    MaxCalls = 1
    MaxAge = 2
    MaxChanges = 2
    MaxFaults = 1
    MaxMisses = 1
PROPERTIES
    ConsentIsRecent
    SkipIsConfirmed
    RestartIsHeard
