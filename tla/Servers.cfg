\* Two pool threads and three connections; a client that connects up to three
\* times in five ticks; two clients of the hub with two commands each; a tunnel
\* with three bytes each way; a wheel of three buckets; a limit of one;
\* three pingpong sessions.
SPECIFICATION ServersSpec
CONSTANTS
    NumThreads = 2
    ServerConns = {c1, c2, c3}
    RetryDelay = 1
    HoldDelay = 2
    MaxTime = 5
    MaxConns = 3
    Clients = {a, b}
    Topics = {t, u}
    MaxCommands = 2
    MaxBytes = 3
    Conns = {a, b}
    IdleSeconds = 3
    LimitConns = {a, b, c}
    Max = 1
    Sessions = {x, y, z}
    MaxReads = 2
INVARIANTS LifecycleAsserts OneAttempt HubDelivers RelayExact IdleExact ServedBounded
PROPERTIES StopReturns
\* A stopped server, a client at the end of the clock, and peers that have
\* written everything have nothing left to do.
CHECK_DEADLOCK FALSE
