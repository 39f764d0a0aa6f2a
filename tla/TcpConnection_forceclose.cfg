\* A foreign forceClose races with a close by the peer.
SPECIFICATION Spec
CONSTANTS
    Users = {u1}
    IO = io
    Uses <- ForceCloseUses
    MsgLen = 1
    HighWaterMark = 3
INVARIANTS RemovedOnce
CHECK_DEADLOCK FALSE
