SPECIFICATION FairSpec

CONSTANTS
    None = None
    Settings <- MCSettings
    Answers <- MCAnswers
    Valid <- MCValid
    UserTokens = 2
    TurnTokens = 2
    SummaryFloor = 2
    MaxFaults = 2

INVARIANTS SameResponse UsageOnce PromptSound WireSound
PROPERTIES StreamSettles

CHECK_DEADLOCK FALSE
