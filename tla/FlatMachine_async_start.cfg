\* Tables with an async callback; nothing fails and no call is dropped.
CONSTANTS
    A = A
    B = B
    e = e
    f = f
    State = {A, B}
    Event = {e, f}
    Tables = {}
    AsyncTables <- QueuedTables
    Start = A
    Capacity = 2
    MaxDepth = 7
    Faults = {}
    Gate = FALSE
    Wild = Wild
SPECIFICATION Spec
\* The machine rests between calls only because its owner may stop calling.
CHECK_DEADLOCK FALSE
INVARIANTS
    ProcessedDispatched
