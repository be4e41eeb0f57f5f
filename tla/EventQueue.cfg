\* Three slots, three events, and usize ends at the capacity.
CONSTANTS
    Event = {e1, e2, e3}
    N = 3
    UsizeMax = 3
    Vacant = Vacant
SPECIFICATION Spec
INVARIANTS
    TypeOK
    WindowOccupied
PROPERTIES
    ImplementsDeque
