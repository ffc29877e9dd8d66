SPECIFICATION Spec
CONSTANTS
    Threads = {t1}
    Names = {A, B, C}
    Objs = {o1, o2, o3}
    Frames = {f1}
    OutMax = 1
    MaxRefs = 2
    MaxForward = 1
    NULL = NULL
INVARIANTS TypeOK NoDangling RefsExact BoundExact Settled
PROPERTIES OutputsStay
SYMMETRY Symm
