SPECIFICATION FairSpec
CONSTANTS
    Languages = {"vi", "en"}
    Ladder <- ladder
    MinSeconds = 2
    Scores = {1, 2, 4}
    Margin = 2
    Tolerance = 1
    MaxUpgrades = 1
    MaxCalls = 2
    MaxVoices = 3
    MaxChanges = 2
    MaxFaults = 1
INVARIANTS BeliefIsTrue OnlyTheWithdrawn ArrivedWithConsent
PROPERTIES ProvisionalNeverReturns WithdrawnIsForgotten
CHECK_DEADLOCK FALSE
