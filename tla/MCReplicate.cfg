\* Studies on every backend; the system stops when the rounds are used up.
SPECIFICATION Spec
CONSTANTS
    Studies <- MCStudies
    MaxWorkers = 2
    MaxRounds = 2
    MaxCancels = 2
INVARIANTS
    EachResultOnce
    AllOrNothing
    IInv
PROPERTIES
    QuietAfterCancel
    IterationGoesOn
CHECK_DEADLOCK FALSE
