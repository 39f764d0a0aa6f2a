\* The loop thread cancels a timer the client has just added; a delay may be
\* over at once, one is short, and one a DWORD cuts short.
CONSTANTS
    Addr = {a1, a2}
    None = none
    Delays = {0, 1, 3}
    Intervals = {0, 1}
    MinDelay = 1
    Ms = 2
    Word = 3
    MaxTimers = 1
    MaxTime = 2
    ShareIds = TRUE
SPECIFICATION Spec
CHECK_DEADLOCK FALSE
INVARIANT CancelledStaysOut
