CONSTANTS
    Threads = {t1, t2, t3, t4}
    None = None
    MaxDestroy = 1
SPECIFICATION Spec
INVARIANTS TypeOK RefcountExact WaitCountsExact NoPhantomWaiter DestroyedIsQuiet
PROPERTIES Implements
CHECK_DEADLOCK FALSE
SYMMETRY Symmetry
