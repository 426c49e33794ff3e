CONSTANTS
    Conns = {c1, c2, c3}
    processCnt = 2
    Fd_setsize = 1
    Talkers = {c1}
    MaxUnits = 4
    Stoppable = {0}
    None = None
SPECIFICATION FairSpec
INVARIANTS
    TypeOK
    Isolation
    ChildrenAccountedFor
    EntryWhileUsed
CHECK_DEADLOCK FALSE
PROPERTIES
    EventuallyAccepted
    ServerEnds
