CONSTANTS
    threads_cnt = 4
    Wild = Wild
SPECIFICATION Spec
INVARIANTS
    TypeOK
    StartupIsRight
