\* Trees of up to three tables and every failure of a callback.
CONSTANTS
    Outer = Outer
    P = P
    Q = Q
    A = A
    B = B
    C = C
    D = D
    X = X
    e = e
    f = f
    Wild = Wild
    State = {A, B, C, D, P, Q, X}
    Event = {e, f}
    Trees <- AllTrees
    Capacity = 1
    MaxDepth = 2
    Faults = {"guard", "action", "entry", "exit"}
SPECIFICATION FairSpec
INVARIANTS
    TypeOK
    ExitToken
    LeftExited
    Broadcast
    UnlistedRefused
    DeferredRetried
    FaultsSurface
    StabilizesPeers
PROPERTIES
    EveryCallReturns
CHECK_DEADLOCK FALSE
