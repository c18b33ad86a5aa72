SPECIFICATION Spec
CONSTANTS
    MaxGen = 2
    Names = {1, 2}
    Prompts <- InboxPrompts
    Results <- RefusedOnly
    Legacy = FALSE
    MaxCommits = 1
    MaxWork = 0
    MaxDrops = 2
    MaxFaults = 1
CHECK_DEADLOCK FALSE
INVARIANT PromptNeverLost
INVARIANT SingleRunning
INVARIANT OneInFlight
INVARIANT RefusedOnlyWhenTyped
PROPERTY RunNeverAbandoned
