SPECIFICATION FairSpec

CONSTANTS
    Publishers = {p1, p2}
    Subscribers = {1, 2}
    None = None
    Kinds = {"memory", "jsonl", "sqlite", "postgres", "redis"}
    Wants = {"start", None}
    MaxEvents = 2
    MaxFaults = 1

INVARIANTS EveryoneHears TraceTellsAll
PROPERTIES ImplementsLog PublishEnds

CHECK_DEADLOCK FALSE
