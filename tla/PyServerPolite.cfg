CONSTANTS
    Conns = {c1, c2}
    Users = {u1, u2}
    DbSize = 1
    C0Size = 1
    C1Size = 1
    MaxReq = 3
    MaxFaults = 0
    Clients = "patient"
    None = None
SPECIFICATION FairSpec
PROPERTIES
    EventuallyAnswered
    EventuallyClosed
