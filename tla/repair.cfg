SPECIFICATION FairSpec
CONSTANTS
    MaxGen = 1
    Names = {1}
    Prompts <- EitherPrompt
    Results <- TypedOrRefused
    Legacy = FALSE
    MaxCommits = 2
    MaxWork = 1
    MaxDrops = 1
    MaxFaults = 1
PROPERTY Repaired
PROPERTY RunsEnd
