SPECIFICATION Spec
CONSTANTS
    f1 = f1
    f2 = f2
    f3 = f3
    p1 = p1
    p2 = p2
    rd = rd
    tr = tr
    NULL = NULL
    Fbs = {f1, f2, f3}
    Producers = {p1, p2}
    Reader = rd
    Tracers = {tr}
    QSlots = 3
    SemaMax = 2
INVARIANTS PutFindsCount
