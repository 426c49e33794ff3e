\* readcb waits for bytes that may never come: a stop is not an error.
CHECK_DEADLOCK FALSE
CONSTANTS
    Base = 2
    MaxBody = 2
    Policies = {"return", "exit"}
    MaxBytes = 12
SPECIFICATION Spec
INVARIANTS
    TypeOK
    FramesAreRight
    AtRestIncomplete
    ChunkingIrrelevant
PROPERTIES
    CallbackReturns
