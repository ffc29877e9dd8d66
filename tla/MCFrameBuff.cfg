SPECIFICATION Spec
CONSTANTS
    Handles = {h1, h2, h3}
    HeapFbs = {f1, f2}
    PoolFbs = {p1}
    Msis = {m1}
    PoolMsi = m1
    UsersMod = 4
    NULL = NULL
INVARIANTS TypeOK NoUseAfterFree UsersExact ChainCovered NoLeak OwnerExact OwnerOutlivesFrames
SYMMETRY Symm
CHECK_DEADLOCK FALSE
