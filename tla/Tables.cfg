\* Small tables in every spelling.
CONSTANTS
    Spelled <- Identifiers
    Lifetime <- Lifetimes
    Texts <- SplitTransitions
    Reading <- ReadRows
    Inputs <- AllInputs
SPECIFICATION Spec
INVARIANTS
    ReadsAsWritten
    TableIsExpansion
    NoDeadRow
    DataProvided
    NamesDistinct
    CallbacksClosed
CHECK_DEADLOCK FALSE
