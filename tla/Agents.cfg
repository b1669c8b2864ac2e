\* Three tool calls side by side with a budget of two, two resumes, a crash.
SPECIFICATION FairSpec
CONSTANTS
    CallIds = {c1, c2, c3}
    SideEffects = {c1, c2}
    Idempotent = {c2}
    Silent = {c1}
    Refused = {c3}
    ParallelTools = TRUE
    MaxConcurrency = 2
    MaxSteps = 4
    MaxModelCalls = 2
    MaxToolCalls = 2
    MaxIterations = 2
    ToolRetries = 1
    ModelRetries = 1
    Candidates = 2
    Repairs = 1
    MaxResumes = 2
    MaxCrashes = 1
INVARIANTS NeverRetried ToolCallsBounded ModelBudgetOutlivesResumes
PROPERTIES RememberedNeverRedone AgentStops
