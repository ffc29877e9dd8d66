SPECIFICATION FairSpec
CONSTANTS
    f1 = f1
    f2 = f2
    f3 = f3
    p1 = p1
    p2 = p2
    rd = rd
    NULL = NULL
    Fbs = {f1, f2, f3}
    Producers = {p1, p2}
    Reader = rd
    Tracers = {rd}
    QSlots = 3
    SemaMax = 1
INVARIANTS TypeOK RefsExact PutFindsCount NoLostWakeup
PROPERTIES IsFifo WaitEnds
