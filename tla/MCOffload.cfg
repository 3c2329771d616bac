\* A pool of offload workers, the plain and the paced driver; the system stops
\* when the runs are used up.
SPECIFICATION Spec
CONSTANTS
    Infinity = 32
    Round <- Coarse
    Delays <- MCDelays
    Stops <- MCStops
    Casts <- MCCasts
    Factor = 1
    MaxWall = 12
INVARIANTS
    SeenIsReal
PROPERTIES
    NothingDropped
    DueHonoured
    NeverEarly
    StrictIsInline
    RunEnds
CHECK_DEADLOCK FALSE
