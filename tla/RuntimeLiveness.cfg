\* Two worker processes, one of which may crash: everything comes to an end.
SPECIFICATION FairSpec
CONSTANTS
    p1 = p1
    p2 = p2
    None = None
    Calls = {c1, c2}
    Procs = {p1, p2}
    ProcOf <- TwoProcesses
    Kinds = {"run", "resume", "approve", "cancel"}
    Versions = {v1}
    N = 2
    Gates = {2}
    OnReject = "fail"
    CheckpointEnabled = TRUE
    LeaseCoversHolder = TRUE
    MaxActive = 2
    MaxCrashes = 1
    MaxInterrupts = 2
PROPERTIES EveryCallEnds LockIsReturned
