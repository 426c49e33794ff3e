CONSTANTS
    Conns = {c1, c2}
    MaxReq = 2
    Fds = {0, 2}
    FdSetSize = 2
    threads_cnt = 2
    PipeCap = 2
    NotifyMax = 1
    Polite = FALSE
    None = None
SPECIFICATION Spec
INVARIANTS
    HandOffsKeepOrder
    RepliesInPlace
