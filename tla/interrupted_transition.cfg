SPECIFICATION Spec
CONSTANTS
    MaxGen = 1
    Names = {1}
    Prompts <- OneImplementation
    Results <- AnyResult
    Legacy = FALSE
    MaxCommits = 1
    MaxWork = 0
    MaxDrops = 1
    MaxFaults = 1
CHECK_DEADLOCK FALSE
INVARIANT InterruptedTransitionRecoverable
