SPECIFICATION FairSpec
CONSTANTS
    Threads = {t1}
    Names = {A, B}
    Objs = {o1, o2}
    Frames = {f1}
    OutMax = 2
    MaxRefs = 2
    MaxForward = 1
    NULL = NULL
PROPERTIES CallsReturn
