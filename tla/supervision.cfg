SPECIFICATION FairSpec
CONSTANTS
    Chunks = 2
    PipeSize = 1
    MaxInterrupts = 2
INVARIANT NothingLeft
INVARIANT VerdictIsOwn
INVARIANT HandoffComplete
PROPERTY Ends
