CONSTANTS
    lo = lo  fd = fd  tm = tm  loop = loop  t1 = t1
    Threads = {t1}
    Loop = loop
    Kind <- MCKind
    Owner <- MCRtpOwner
    AddFlags <- MCAddFlags
    Loopback = lo
    MaxDgram = 1
    MaxCalls = 1
SPECIFICATION Spec
INVARIANT ClosedNeverPolled
CHECK_DEADLOCK FALSE
