\* Crashes and failing requests between any two requests, a raising callback,
\* a visibility timeout shorter than the work; the lease of a lock outlives a drive.
SPECIFICATION Spec
CONSTANTS
    None = None
    Executions = {e1}
    WorkerIds = {w1, w2}
    Recoverers = {r1}
    Resumes = {e1}
    Registered = {e1}
    N = 1
    MaxAttempts = 2
    MaxInterrupts = 2
    Exposed = {"popped", "leased", "acquire", "driving", "unlock", "ack",
               "notify", "nackRemove", "nackPush", "moving"}
    CallbackMayRaise = TRUE
    VisibilityCoversWork = FALSE
    LeaseCoversHolder = TRUE
SYMMETRY PoolSymmetry
VIEW WorkerView
INVARIANTS DeliveriesBounded OneDriver
CHECK_DEADLOCK FALSE
