CONSTANTS
    lo = lo  fd = fd  tm = tm  loop = loop  t1 = t1
    Threads = {t1}
    Loop = loop
    Kind <- MCKind
    Owner <- MCOwner
    AddFlags <- MCAddFlags
    Loopback = lo
    MaxDgram = 1
    MaxCalls = 2
SPECIFICATION FairSpec
INVARIANTS TypeOK NoLostWakeup
PROPERTIES RemovedIsFinal TakenUp Served RemovedIsFreed
CHECK_DEADLOCK FALSE
