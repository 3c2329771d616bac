\* cancel() from another thread while the generator submits.
SPECIFICATION Spec
CONSTANTS
    Studies <- Sound
    MaxWorkers = 2
    MaxRounds = 1
    MaxCancels = 1
INVARIANT CancelIsNoError
CHECK_DEADLOCK FALSE
