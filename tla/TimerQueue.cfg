\* Two timers at two addresses, so an address may be used again; MinDelay is
\* half a millisecond and a DWORD counts to 3.  The clock stops at MaxTime,
\* which OverdueFires allows for.
CONSTANTS
    Addr = {a1, a2}
    None = none
    Delays = {1, 3}
    Intervals = {0, 1}
    MinDelay = 1
    Ms = 2
    Word = 3
    MaxTimers = 2
    MaxTime = 3
    ShareIds = FALSE
SPECIFICATION FairSpec
CHECK_DEADLOCK FALSE
INVARIANTS TimersAgree AlarmInTime CancelledStaysOut
PROPERTY OverdueFires
