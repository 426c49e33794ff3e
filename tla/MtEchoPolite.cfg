CONSTANTS
    Conns = {c1, c2, c3}
    MaxReq = 1
    Fds = {0, 1}
    FdSetSize = 1
    threads_cnt = 2
    PipeCap = 1
    NotifyMax = 1
    Polite = TRUE
    None = None
SPECIFICATION FairSpec
INVARIANTS
    RepliesAreOwn
PROPERTIES
    EventuallyEchoed
    EventuallyErased
