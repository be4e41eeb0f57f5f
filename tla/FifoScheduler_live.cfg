\* One caller may leave, and its event may reach X; the others may panic.  Every
\* call ends, also the one that finds the queue full, but for events that a
\* panic leaves queued when nobody comes after it.
CONSTANTS
    Task = {t1, t2, t3, t4}
    Reader = {}
    N = 2
    TryCaller = {t1}
    Dropper = {t1}
    May <- StopOrPanic
    Unwound = {}
    Nobody = Nobody
SPECIFICATION FairSpec
CHECK_DEADLOCK FALSE
PROPERTIES
    EveryCallEnds
