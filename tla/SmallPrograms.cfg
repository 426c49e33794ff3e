CONSTANTS
    Focuses = {1, 2}
    Values = {1}
    MaxStrings = 2
    MaxElements = 1
    MaxUnknown = 1
    Senders = {t1, t2}
    MaxUi = 2
    MaxMerges = 2
    IpWords = {4, 5, 15}
    TcpWords = {4, 5, 8}
    Payloads = {0, 1, 16, 17, 33}
    MaxFrames = 2
    NumChildren = 3
    Pids = {11, 12, 13}
    MaxSecond = 1
    MaxRecords = 1
    Callers = {p1, p2}
    Names = {a, b}
    MaxDepth = 2
    MaxOthers = 2
    HEAD_LEN = 2
    MAX_BODY_LEN = 2
    IntRange = 8
    Numbers = {0, 1, 2, 3, 7}
    MaxHeaders = 2
    NoMagic = NoMagic
SPECIFICATION Spec
INVARIANTS
    TypeOK
    StringsOwnedOnce
    SerializedRight
    ParsedIsSaid
    PayloadPrintedOnce
    LogsKeptApart
    SomeCallSucceeds
    BodiesAreRight
PROPERTIES
    ObjectsAreValues
\* Each of the programs comes to its end.
CHECK_DEADLOCK FALSE
