SPECIFICATION Spec
CONSTANTS
    X = X
    None = None
    Top = Top
    P = P
    Q = Q
    R = R
    A = A
    B = B
    C = C
    Blocks <- SomeBlocks
INVARIANTS
    RefusesNoTree
    WalkFindsTree
    RegionsAreComponents
    InnermostFirst
    LayoutFits
CHECK_DEADLOCK FALSE
