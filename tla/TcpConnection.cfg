\* One connection in orderly and in racing use.
SPECIFICATION FairSpec
CONSTANTS
    Users = {u1}
    IO = io
    Uses <- BothUses
    MsgLen = 2
    HighWaterMark = 3
INVARIANTS ByteOrder ConnectionAsserts OrderlyDestroyed
PROPERTIES ShutdownAfterDrain CallbacksSignalled
PROPERTIES OrderlyShutdown OrderlyDrain OrderlyDeletion
