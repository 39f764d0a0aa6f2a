\* One pool thread and one connection.
SPECIFICATION Spec
CONSTANTS
    NumThreads = 1
    Conns = {c1}
INVARIANTS DestroyedDisconnected
CHECK_DEADLOCK FALSE
