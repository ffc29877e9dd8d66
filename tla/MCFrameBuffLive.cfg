SPECIFICATION FairSpec
CONSTANTS
    Handles = {h1, h2}
    HeapFbs = {f1, f2}
    PoolFbs = {p1}
    Msis = {m1}
    PoolMsi = m1
    UsersMod = 3
    NULL = NULL
PROPERTIES PutTerminates
CHECK_DEADLOCK FALSE
