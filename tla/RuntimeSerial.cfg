\* Calls that follow one another, two crashes and two failing requests.
SPECIFICATION Spec
CONSTANTS
    p1 = p1
    p2 = p2
    None = None
    Calls = {c1, c2, c3, c4}
    Procs = {p1}
    ProcOf <- OneProcess
    Kinds = {"run", "resume", "approve", "reject", "cancel"}
    Versions = {v1}
    N = 3
    Gates = {2}
    OnReject = "fail"
    CheckpointEnabled = TRUE
    LeaseCoversHolder = TRUE
    MaxActive = 1
    MaxCrashes = 2
    MaxInterrupts = 2
SYMMETRY CallSymmetry
VIEW LiveView
INVARIANTS PausedIsDecidable
PROPERTIES StatusMachine CompletedNeverRerun
