\* A functor that queues two functors while the socket pair holds one token.
CONSTANTS
    Threads = {t1}
    Loop = loop
    WakeupCapacity = 1
    MaxCalls = 1
    MaxLoopCalls = 2
SPECIFICATION Spec
INVARIANT LoopNeverBlocksItself
