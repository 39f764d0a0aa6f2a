\* Two foreign threads with two calls each, and a call by the loop thread;
\* the roomy socket pair has room for every token.
CONSTANTS
    Threads = {t1, t2}
    Loop = loop
    WakeupCapacity = 5
    MaxCalls = 2
    MaxLoopCalls = 1
SPECIFICATION MCSpec
INVARIANTS NoLostWakeup
PROPERTIES ImplementsExecutor QueuedIsCalled QuitStopsLoop WakeupReturns
