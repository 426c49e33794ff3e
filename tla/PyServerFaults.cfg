\* A pool that has lost its only connection stops the server: a stop is real.
CHECK_DEADLOCK FALSE
CONSTANTS
    Conns = {c1, c2}
    Users = {u1, u2}
    DbSize = 1
    C0Size = 1
    C1Size = 1
    MaxReq = 2
    MaxFaults = 1
    Clients = "any"
    None = None
SPECIFICATION HistorySpec
INVARIANTS
    TypeOK
    PoolsConserved
    StuckOnlyByLoss
    RedisAgrees
SYMMETRY Symmetry
