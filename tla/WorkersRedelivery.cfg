\* A worker is lost while it drives, or before it acknowledges its job.
SPECIFICATION Spec
CONSTANTS
    None = None
    Executions = {e1}
    WorkerIds = {w1, w2}
    Recoverers = {r1}
    Resumes = {}
    Registered = {e1}
    N = 2
    MaxAttempts = 2
    MaxInterrupts = 1
    Exposed = {"driving", "ack"}
    CallbackMayRaise = FALSE
    VisibilityCoversWork = TRUE
    LeaseCoversHolder = TRUE
SYMMETRY PoolSymmetry
VIEW WorkerView
PROPERTIES NoWorkDuplicated
CHECK_DEADLOCK FALSE
