\* Tables of four or five rows of a pool, with and without an async callback;
\* any callback but an on_exit action may fail or be awaited by a call that is
\* dropped, and a custom policy may refuse events and skip candidates.
CONSTANTS
    A = A
    B = B
    e = e
    f = f
    State = {A, B}
    Event = {e, f}
    Tables <- AllTables
    AsyncTables <- QueuedTables
    Start = A
    Capacity = 2
    MaxDepth = 7
    Faults = {"guard", "action", "entry", "drop"}
    Gate = TRUE
    Wild = Wild
SPECIFICATION FairSpec
\* A recursion that exhausts the stack ends the process.
CHECK_DEADLOCK FALSE
INVARIANTS
    TypeOK
    FaultsSurface
    RejectionIsOwn
    ExitsPaired
    DeferredRetried
    Stabilizes
PROPERTIES
    OneWayReturns
