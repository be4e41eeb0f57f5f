\* One of three callers submits from a destructor while its thread unwinds.
CONSTANTS
    Task = {t1, t2, t3}
    Reader = {}
    N = 2
    TryCaller = {}
    Dropper = {}
    May <- AcceptOrStop
    Unwound = {t1}
    Nobody = Nobody
SPECIFICATION Spec
CHECK_DEADLOCK FALSE
INVARIANTS
    RunsInOrder
