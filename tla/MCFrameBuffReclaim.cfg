SPECIFICATION Spec
CONSTANTS
    Handles = {h1, h2}
    HeapFbs = {f1}
    PoolFbs = {p1}
    Msis = {m1}
    PoolMsi = m1
    UsersMod = 3
    NULL = NULL
INVARIANTS DestroyedIsReclaimed
CHECK_DEADLOCK FALSE
