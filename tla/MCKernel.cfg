\* Every interplay of the kernel; the system stops when the runs are used up.
SPECIFICATION KernelSpec
CONSTANTS
    Infinity = 32
    Round <- Coarse
    Delays <- MCDelays
    Stops <- MCStops
    Casts <- MCCasts
INVARIANTS
    KernelTypeOK
    KInv
    HookedOnce
    FailuresSurface
    FiresWhenItHolds
    StopsWhereAsked
PROPERTIES
    NoStaleWakeup
    InterruptsFirst
CHECK_DEADLOCK FALSE
