\* One resource of each kind; the system stops when the run has ended.
SPECIFICATION Spec
CONSTANTS
    Infinity = 32
    Round <- Exact
    Delays <- MCDelays
    Stops = {}
    Casts <- MCCasts
INVARIANTS
    Conserved
    NobodyStranded
PROPERTIES
    GrantsInOrder
    LosersHear
CHECK_DEADLOCK FALSE
