\* all_of inside any_of: the outer condition takes the inner one's checks away.
SPECIFICATION KernelSpec
CONSTANTS
    Infinity = 32
    Round <- Exact
    Delays <- MCDelays
    Stops <- MCStops
    Casts <- NestedOnly
INVARIANT AllOfFires
CHECK_DEADLOCK FALSE
