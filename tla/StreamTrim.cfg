SPECIFICATION Spec
CONSTANTS
    g1 = g1
    g2 = g2
    p1 = p1
    p2 = p2
    Groups <- MCGroups
    Publishers <- OnePublisher
    NumEntries = 4
    MaxLen = 1
    StaleAfter = 1
    MaxTime = 2
SYMMETRY GroupSymmetry
PROPERTIES
    NeededKept
    DeadGroupsDoNotHold
CHECK_DEADLOCK FALSE
