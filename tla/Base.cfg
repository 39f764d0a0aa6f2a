\* A vector of up to seven bytes; two workers, two producers and a queue of one;
\* buffers of one record; chunks of two items; three threads.
SPECIFICATION BaseSpec
CONSTANTS
    Byte = {0, 1}
    Zero = 0
    kCheapPrepend = 2
    kInitialSize = 2
    ExtraBuf = 2
    MaxLen = 3
    MaxSize = 7
    Workers = {w1, w2}
    Producers = {p1, p2}
    MaxQueueSize = 1
    MaxTasks = 2
    BufferSize = 1
    DropAbove = 2
    MaxRecords = 5
    MaxTime = 4
    RollSize = 2
    RollPerSeconds = 3
    CheckEveryN = 2
    FlushInterval = 1
    N = 2
    Chunk = {k1, k2, k3, k4}
    Null = null
    MaxItems = 5
    Threads = {a, b, c}
    MaxPairs = 3
INVARIANTS PrependRoom ContentExact LogExact QueueSafe MutualExclusion
    PairClean
PROPERTIES PoolProgress FlushedInTime
\* Stopped pools and loggers, and parts at their bounds, have nothing left to do.
CHECK_DEADLOCK FALSE
