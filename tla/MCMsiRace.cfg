SPECIFICATION Spec
CONSTANTS
    Threads = {t1, t2}
    Names = {A}
    Objs = {o1}
    Frames = {f1}
    OutMax = 1
    MaxRefs = 2
    MaxForward = 1
    NULL = NULL
INVARIANTS NoDangling
