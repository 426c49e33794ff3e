CONSTANTS
    Conns = {c1, c2}
    MaxReq = 1
    Fds = {0, 1}
    FdSetSize = 1
    threads_cnt = 2
    PipeCap = 1
    NotifyMax = 1
    Polite = FALSE
    None = None
SPECIFICATION Spec
INVARIANTS
    RepliesAreOwn
