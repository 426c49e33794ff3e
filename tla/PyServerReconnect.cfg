CONSTANTS
    Conns = {c1, c2}
    Users = {u1}
    DbSize = 1
    C0Size = 2
    C1Size = 2
    MaxReq = 1
    MaxFaults = 0
    Clients = "eager"
    None = None
SPECIFICATION Spec
INVARIANTS
    LoggedInIsOnline
