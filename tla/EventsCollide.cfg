SPECIFICATION Spec

CONSTANTS
    Publishers = {p1, p2}
    Subscribers = {1, 2}
    None = None
    Kinds = {"postgres"}
    Wants = {"start", None}
    MaxEvents = 2
    MaxFaults = 0

INVARIANTS AppendsDoNotCollide

CHECK_DEADLOCK FALSE
