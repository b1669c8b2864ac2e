SPECIFICATION Spec

CONSTANTS
    None = None
    Definitions <- MCDefinitions
    Input <- MCInput
    Overrides <- MCOverrides
    Decide <- MCDecide
    Until <- MCUntil
    Revised <- MCRevised
    Iterations <- MCIterations
    Registries <- MCRegistries
    MaxDepth = 3
    MaxDisturb = 2
    MaxResumes = 2

INVARIANTS SameOutcome CompletedOnce UsageKept ForkAsAsked CompiledFindsModel

CHECK_DEADLOCK FALSE
