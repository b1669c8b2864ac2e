\* Three agents, or two and an approval, two at a time, with and without fail_fast.
SPECIFICATION FairSpec
CONSTANTS
    Branches = {b1, b2, b3}
    ApprovalSets = {{}, {b3}}
    MaxConcurrency = 2
    FailFast = {TRUE, FALSE}
    MaxModelCalls = 3
    Before = {0, 1, 4}
    MaxResumes = 1
INVARIANTS UsageAbsorbed OverspendBounded
PROPERTIES NodeEnds
