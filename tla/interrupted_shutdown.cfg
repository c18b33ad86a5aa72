SPECIFICATION Spec
CONSTANTS
    Chunks = 1
    PipeSize = 1
    MaxInterrupts = 1
INVARIANT InterruptReaps
