CONSTANTS
    Clients = {c1, c2}
    Listener = Listener
    Eager = {c1}
    SndMax = 1
    MsgUnits = 2
    MaxSends = 2
    MaxFaults = 1
SPECIFICATION FairSpec
INVARIANTS
    TypeOK
    EnoughEvents
    ClosedAfterEnd
PROPERTIES
    EventuallyEchoed
CHECK_DEADLOCK FALSE
