SPECIFICATION Spec
CONSTANTS
    MaxGen = 1
    Names = {1}
    Prompts <- AnyFile
    Results <- AnyResult
    Legacy = TRUE
    MaxCommits = 3
    MaxWork = 1
    MaxDrops = 1
    MaxFaults = 2
INVARIANT TypeOK
INVARIANT RunsHaveOwner
INVARIANT CheckpointAtomic
PROPERTY ImplementsLifecycle
INVARIANT HealthyWithoutFaults
