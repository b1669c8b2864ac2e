\* Three overlapping calls, one crash of the process, one failing request.
SPECIFICATION Spec
CONSTANTS
    p1 = p1
    p2 = p2
    None = None
    Calls = {c1, c2, c3}
    Procs = {p1}
    ProcOf <- OneProcess
    Kinds = {"run", "resume", "approve", "reject", "cancel"}
    Versions = {v1, v2}
    N = 2
    Gates = {1}
    OnReject = "skip"
    CheckpointEnabled = TRUE
    LeaseCoversHolder = TRUE
    MaxActive = 3
    MaxCrashes = 1
    MaxInterrupts = 1
SYMMETRY CallSymmetry
VIEW LiveView
INVARIANTS TypeOK MutualExclusion ApprovalBeforeAction TransitionsNeverRefused NothingLeftRunning DecisionFindsCheckpoint
PROPERTIES HashNeverChanges
