\* A drainer, a full queue of two, one caller too many and a state query; every
\* step may panic and every completion may be dropped.
CONSTANTS
    Task = {t1, t2, t3, t4}
    Reader = {r}
    N = 2
    TryCaller = {}
    Dropper = {t1, t2, t3, t4}
    May <- Anything
    Unwound = {}
    Nobody = Nobody
SPECIFICATION Spec
SYMMETRY Symmetry
\* The system rests when every caller is served.
CHECK_DEADLOCK FALSE
INVARIANTS
    TypeOK
    SingleConsumer
    RunsInOrder
    ToldTheTruth
    TicketsHeld
    NoLostWakeup
    NoLostTicketWakeup
    RoomIsExact
PROPERTIES
    ImplementsContract
