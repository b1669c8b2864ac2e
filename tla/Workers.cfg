\* Three workers, two disturbances against two attempts, a job that runs and one
\* nobody can run; the lease of a lock may run out under a worker that drives.
SPECIFICATION FairSpec
CONSTANTS
    None = None
    Executions = {e1, e2}
    WorkerIds = {w1, w2, w3}
    Recoverers = {r1}
    Resumes = {}
    Registered = {e1}
    N = 1
    MaxAttempts = 2
    MaxInterrupts = 2
    Exposed = {"acquire", "driving", "unlock", "ack", "nackRemove"}
    CallbackMayRaise = FALSE
    VisibilityCoversWork = TRUE
    LeaseCoversHolder = FALSE
INVARIANTS NoJobLost OneDelivery
PROPERTIES JobsSettle WaitReturns
VIEW WorkerView
