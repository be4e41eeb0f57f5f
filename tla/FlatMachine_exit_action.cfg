\* Synchronous tables; an on_exit action may fail too.
CONSTANTS
    A = A
    B = B
    e = e
    f = f
    State = {A, B}
    Event = {e, f}
    Tables <- FaultTables
    AsyncTables = {}
    Start = A
    Capacity = 1
    MaxDepth = 7
    Faults = {"action", "exit"}
    Gate = FALSE
    Wild = Wild
SPECIFICATION Spec
\* A recursion that exhausts the stack ends the process.
CHECK_DEADLOCK FALSE
INVARIANTS
    ExitsPaired
