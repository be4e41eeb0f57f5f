\* One callback used by several rows.
CONSTANTS
    Spelled <- Identifiers
    Lifetime <- Lifetimes
    Texts <- SplitTransitions
    Reading <- ReadRows
    Inputs <- Calling
SPECIFICATION Spec
INVARIANTS
    ActionsAgree
CHECK_DEADLOCK FALSE
